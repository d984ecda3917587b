----------------------------- MODULE SerialPipe -----------------------------
(***************************************************************************)
(* `connect --remote` against serve_serial: at the client, console.interact*)
(* or console.send_command over a SocketSerial (remote.py); at the daemon, *)
(* console.relay_socket between the connection and the board's port. Both  *)
(* ends have a reader thread beside their main loop.                       *)
(*                                                                         *)
(* Bytes are numbered in the order they were typed, or said by the board;  *)
(* 0 stands for the ERR line of a refused connection. A network direction  *)
(* holds at most Room bytes: a sendall that does not find room in time     *)
(* raises, on either end, because both sockets have a timeout of 0.1 s.    *)
(* SocketSerial's non-blocking moments only make it raise at once, so the  *)
(* mode of the socket is not a variable.                                   *)
(***************************************************************************)
EXTENDS Naturals, Sequences, SequencesExt

CONSTANTS Types,    \* bytes the user may type
          Says,     \* bytes the board may say
          Room      \* bytes in flight in one direction

ASSUME PipeAssumption == Types \in Nat /\ Says \in Nat /\ Room \in Nat \ {0}

VARIABLES
    main,       \* client: control point of its main thread
    reader,     \* client: interact's reader thread
    buf,        \* SocketSerial._buf
    eof,        \* SocketSerial._eof
    stopped,    \* interact's stop event
    typed,      \* what the user typed so far
    dropped,    \* what reset_input_buffer discarded
    shown,      \* what the client printed
    up, down,   \* bytes under way to the daemon, to the client
    clientOpen, \* the client's socket is open
    connOpen,   \* the daemon's conn is open
    relay,      \* daemon: control point of serve_serial from the claim on
    taken,      \* daemon: data of the main loop, received and not written
    pump,       \* daemon: relay_socket's reader thread
    load,       \* daemon: data of that thread, read and not sent
    stop,       \* Session.stop
    said,       \* what the board said into the open port
    unread,     \* its part that the port still holds
    written,    \* what was written to the port
    events      \* what befell the session

readerVars == <<reader, buf, eof>>
clientVars == <<main, readerVars, stopped, typed, dropped, shown, clientOpen>>
pumpVars   == <<pump, load>>
relayVars  == <<relay, taken, pumpVars, stop, connOpen>>
boardVars  == <<said, unread, written>>
daemonVars == <<relayVars, boardVars>>
wireVars   == <<up, down, events>>
vars       == <<clientVars, daemonVars, wireVars>>

Upto(n) == [i \in 1..n |-> i]
Bytes   == 0 .. (Types + Says)

TypeOK ==
    /\ main \in {"peek", "session", "reset", "command", "listen", "drain",
                 "join", "close", "done"}
    /\ reader \in {"none", "poll", "read", "ended"}
    /\ eof \in BOOLEAN /\ stopped \in BOOLEAN
    /\ clientOpen \in BOOLEAN /\ connOpen \in BOOLEAN
    /\ {typed, written} \subseteq {Upto(n) : n \in 0..Types}
    /\ said \in {Upto(n) : n \in 0..Says}
    /\ {buf, dropped, shown, taken, load, unread} \subseteq Seq(Bytes)
    /\ {up, down} \subseteq Seq(Bytes) /\ Len(up) <= Room /\ Len(down) <= Room
    /\ relay \in {"open", "recv", "write", "join", "port", "close", "done"}
    /\ pump \in {"none", "read", "send", "ended"}
    /\ stop \in BOOLEAN
    /\ events \subseteq {"client left", "port gone", "terminated", "stalled", "cut", "refused"}

Init ==
    /\ main = "peek" /\ reader = "none"
    /\ buf = <<>> /\ eof = FALSE /\ stopped = FALSE
    /\ typed = <<>> /\ dropped = <<>> /\ shown = <<>>
    /\ up = <<>> /\ down = <<>>
    /\ clientOpen = TRUE /\ connOpen = TRUE
    /\ relay = "open" /\ taken = <<>> /\ pump = "none" /\ load = <<>>
    /\ stop = FALSE
    /\ said = <<>> /\ unread = <<>> /\ written = <<>>
    /\ events = {}

PortThere == "port gone" \notin events

(* The front parts of a sequence that a send or a read may take.           *)
Fronts(s) == {SubSeq(s, 1, n) : n \in 0..Len(s)}
After(s, n) == SubSeq(s, n + 1, Len(s))

-----------------------------------------------------------------------------
(* relay_socket: its main loop                                             *)

(* ERR busy, or the port does not open: one line, then _close.             *)
Refuse ==
    /\ relay = "open"
    /\ relay' = "close"
    /\ events' = events \cup {"refused"}
    /\ down' = IF clientOpen /\ connOpen THEN <<0>> ELSE down
    /\ UNCHANGED <<clientVars, boardVars, pumpVars, taken, stop, connOpen,
                   up>>

StartRelay ==
    /\ relay = "open" /\ PortThere
    /\ IF connOpen THEN relay' = "recv" /\ pump' = "read"
                   ELSE relay' = "join" /\ pump' \in {"read", "ended"}
    /\ stop' = (stop \/ ~connOpen)
    /\ UNCHANGED <<clientVars, boardVars, wireVars, taken, load, connOpen>>

(* The main loop is left: stop is set for the reader thread.               *)
Leaves == relay' = "join" /\ stop' = TRUE

(* The loop is left without touching anything else.                        *)
LoopEnds(because) ==
    /\ relay = "recv" /\ because
    /\ Leaves
    /\ UNCHANGED <<clientVars, boardVars, wireVars, pumpVars, taken, connOpen>>

(* Fault: the poll's time-out is caught with the other errors.             *)
PollEnds == LoopEnds(up = <<>>)

(* The loop's head, passed at least every READ_TIMEOUT.                    *)
SeesStop == LoopEnds(stop)

(* End of file from the client, or a recv on a socket that is gone.        *)
ReceiveEnds == LoopEnds(~connOpen \/ (~clientOpen /\ up = <<>>))

Receives ==
    /\ relay = "recv" /\ connOpen /\ up # <<>>
    /\ relay' = "write"
    /\ \E data \in Fronts(up) \ {<<>>} :
          taken' = data /\ up' = After(up, Len(data))
    /\ UNCHANGED <<clientVars, boardVars, pumpVars, stop, connOpen, down, events>>

(* Fault: a write whose flush fails is repeated.                           *)
WritesAgain ==
    /\ relay = "write"
    /\ \/ /\ PortThere /\ written' = written \o taken
          /\ (UNCHANGED <<relay, taken>> \/ (relay' = "recv" /\ taken' = <<>>))
          /\ UNCHANGED stop
       \/ ~PortThere /\ Leaves /\ taken' = <<>> /\ UNCHANGED written
    /\ UNCHANGED <<clientVars, wireVars, pumpVars, connOpen, said,
                   unread>>

(* ser.write and flush, or the port goes away under it.                    *)
Writes ==
    /\ relay = "write"
    /\ taken' = <<>>
    /\ \/ PortThere /\ relay' = "recv" /\ written' = written \o taken /\ UNCHANGED stop
       \/ ~PortThere /\ Leaves /\ UNCHANGED written
    /\ UNCHANGED <<clientVars, wireVars, pumpVars, connOpen, said,
                   unread>>

(* reader.join(1.0): the reader thread has ended, or it did not in time.   *)
Joins ==
    /\ relay = "join"
    /\ relay' = "port"
    /\ UNCHANGED <<clientVars, boardVars, wireVars, pumpVars, taken, stop,
                   connOpen>>

ClosesPort ==
    /\ relay = "port"
    /\ relay' = "close"
    /\ unread' = <<>>
    /\ UNCHANGED <<clientVars, wireVars, pumpVars, taken, stop, connOpen,
                   said, written>>

(* _close: bytes sent before are still delivered, unless some of the       *)
(* client's were never read, which resets the connection.                  *)
ClosesConn ==
    /\ relay = "close"
    /\ relay' = "done"
    /\ connOpen' = FALSE
    /\ down' \in IF up = <<>> THEN {down} ELSE {down, <<>>}
    /\ UNCHANGED <<clientVars, boardVars, pumpVars, taken, stop, up,
                   events>>

RelayMain == Refuse \/ StartRelay \/ SeesStop \/ Receives \/ ReceiveEnds
                \/ Writes \/ Joins \/ ClosesPort \/ ClosesConn

-----------------------------------------------------------------------------
(* relay_socket: its reader thread                                         *)

PortOpen == PortThere /\ relay \in {"recv", "write", "join", "port"}

PumpEnds(because, stops) ==
    /\ pump = "read" /\ because
    /\ pump' = "ended" /\ stop' = stops
    /\ UNCHANGED <<clientVars, boardVars, wireVars, relay, taken, load,
                   connOpen>>

PumpSeesStop == PumpEnds(stop, stop)

PumpReads ==
    /\ pump = "read" /\ PortOpen /\ unread # <<>>
    /\ pump' = "send"
    /\ \E data \in Fronts(unread) \ {<<>>} :
          load' = data /\ unread' = After(unread, Len(data))
    /\ UNCHANGED <<clientVars, wireVars, relay, taken, stop, connOpen,
                   said, written>>

(* Fault: the thread ends and leaves the main loop polling.                *)
PumpEndsAlone == PumpEnds(~PortOpen, stop)

(* The port went away, or was closed after an expired join.                *)
PumpReadFails == PumpEnds(~PortOpen, TRUE)

(* sendall comes through, also into a connection the client has closed.    *)
PumpSends ==
    /\ pump = "send" /\ connOpen
    /\ Len(down) + Len(load) <= Room
    /\ pump' = "read" /\ load' = <<>>
    /\ down' = IF clientOpen THEN down \o load ELSE down
    /\ UNCHANGED <<clientVars, boardVars, relay, taken, stop, connOpen,
                   up, events>>

(* What may have been sent when sendall raises.                            *)
SentInPart ==
    {part \in Fronts(load) : Len(down) + Len(part) <= Room /\ clientOpen /\ connOpen}
        \cup {<<>>}

(* Fault: a stalled send is taken for a lost one and the thread reads on.  *)
PumpSendResumes ==
    /\ pump = "send" /\ Len(down) + Len(load) > Room
    /\ pump' = "read" /\ load' = <<>>
    /\ \E part \in SentInPart : down' = down \o part
    /\ UNCHANGED <<clientVars, boardVars, relay, taken, stop, connOpen,
                   up, events>>

(* It raises: the socket went away, or the client left no room for 0.1 s,  *)
(* the timeout the main loop set for its own polling.                      *)
PumpSendFails ==
    /\ pump = "send"
    /\ ~clientOpen \/ ~connOpen \/ Len(down) + Len(load) > Room
    /\ pump' = "ended" /\ load' = <<>> /\ stop' = TRUE
    /\ \E part \in SentInPart : down' = down \o part
    /\ events' = IF clientOpen /\ connOpen THEN events \cup {"stalled"} ELSE events
    /\ UNCHANGED <<clientVars, boardVars, relay, taken, connOpen, up>>

Pump == PumpSeesStop \/ PumpReads \/ PumpReadFails \/ PumpSends \/ PumpSendFails

-----------------------------------------------------------------------------
(* What happens around the daemon's end                                    *)

BoardSays ==
    /\ PortOpen /\ Len(said) < Says
    /\ said' = Append(said, Len(said) + 1)
    /\ unread' = Append(unread, Len(said) + 1)
    /\ UNCHANGED <<clientVars, relayVars, wireVars, written>>

Unplugged ==
    /\ relay # "done" /\ PortThere
    /\ events' = events \cup {"port gone"}
    /\ unread' = <<>>
    /\ UNCHANGED <<clientVars, relayVars, said, written, up, down>>

(* Session.terminate, by a FLASH or a departure: stop, then shutdown and   *)
(* close of conn under both threads.                                       *)
Terminated ==
    /\ relay # "done" /\ ~stop
    /\ stop' = TRUE /\ connOpen' = FALSE
    /\ events' = events \cup {"terminated"}
    /\ UNCHANGED <<clientVars, boardVars, pumpVars, relay, taken, up,
                   down>>

Cut ==
    /\ clientOpen /\ connOpen
    /\ connOpen' = FALSE
    /\ down' = <<>> /\ up' = <<>>
    /\ events' = events \cup {"cut"}
    /\ UNCHANGED <<clientVars, boardVars, pumpVars, relay, taken, stop>>

-----------------------------------------------------------------------------
(* The client: _cmd_connect_remote and SocketSerial                        *)

(* A step of the main thread that touches nothing shared.                  *)
MainGoes(from, to) ==
    /\ main = from
    /\ main' = to
    /\ UNCHANGED <<daemonVars, wireVars, readerVars, stopped, dropped, shown,
                   clientOpen, typed>>

ErrWaits == down # <<>> /\ Head(down) = 0

(* Fault: the peek receives instead of looking (no MSG_PEEK).              *)
PeekPassesTaking ==
    /\ main = "peek" /\ ~ErrWaits
    /\ main' \in {"session", "reset"}
    /\ reader' = IF main' = "session" THEN "poll" ELSE reader
    /\ down' = <<>>
    /\ UNCHANGED <<daemonVars, up, events, buf, eof, stopped, dropped, shown,
                   clientOpen, typed>>

(* _peek_remote_err: nothing within its timeout, or something that is no   *)
(* ERR line, begins the session, interactive or for one command. An ERR    *)
(* line that comes later is shown as the board's.                          *)
PeekPasses ==
    /\ main = "peek" /\ ~ErrWaits
    /\ main' \in {"session", "reset"}
    /\ reader' = IF main' = "session" THEN "poll" ELSE reader
    /\ UNCHANGED <<daemonVars, wireVars, buf, eof, stopped, dropped, shown,
                   clientOpen, typed>>

PeekRefused == ErrWaits /\ MainGoes("peek", "close")

(* SocketSerial.write: sendall. A connection the daemon has left takes     *)
(* bytes and loses them, or raises; one without room raises.               *)
Sends(data, from, to) ==
    /\ main = from
    /\ typed' = typed \o data
    /\ \/ /\ Len(up) < Room /\ main' = to
          /\ up' = IF connOpen THEN up \o data ELSE up
          /\ UNCHANGED stopped
       \/ /\ Len(up) = Room \/ ~connOpen
          /\ main' = (IF from = "session" THEN "join" ELSE "close")
          /\ stopped' = TRUE
          /\ UNCHANGED up
    /\ UNCHANGED <<daemonVars, readerVars, dropped, shown, clientOpen, down,
                   events>>

(* interact: a line from stdin.                                            *)
TypesLine == Len(typed) < Types /\ Sends(<<Len(typed) + 1>>, "session", "session")

(* Its end, EOF_DRAIN seconds before the reader is stopped; or Ctrl-C.     *)
StdinEnds == MainGoes("session", "drain")
Stops ==
    /\ main \in {"session", "drain"}
    /\ main' = "join"
    /\ stopped' = TRUE
    /\ UNCHANGED <<daemonVars, wireVars, readerVars, dropped, shown, clientOpen,
                   typed>>

(* send_command: reset_input_buffer, one line, lines until the deadline.   *)
Resets ==
    /\ main = "reset"
    /\ main' = "command"
    /\ dropped' = dropped \o buf \o down
    /\ down' = <<>>
    /\ UNCHANGED <<daemonVars, readerVars, stopped, shown, clientOpen, typed,
                   up, events>>

SendsCommand == Types > 0 /\ Sends(<<Len(typed) + 1>>, "command", "listen")

(* readline: what came so far, whole line or not, when it pauses.          *)
ReadsLine ==
    /\ main = "listen" /\ down # <<>>
    /\ \E data \in Fronts(down) \ {<<>>} :
          shown' = shown \o data /\ down' = After(down, Len(data))
    /\ UNCHANGED <<daemonVars, readerVars, main, stopped, dropped, clientOpen,
                   typed, up, events>>

Deadline == MainGoes("listen", "close")

(* interact joins its reader for at most 1 s; then ser.close(). Closing    *)
(* with bytes unread resets the connection: the daemon may lose the rest.  *)
JoinsReader == MainGoes("join", "close")
ClosesSocket ==
    /\ main = "close"
    /\ main' = "done"
    /\ clientOpen' = FALSE
    /\ events' = events \cup {"client left"}
    /\ up' \in IF down = <<>> THEN {up} ELSE {up, <<>>}
    /\ down' = <<>>
    /\ UNCHANGED <<daemonVars, readerVars, stopped, dropped, shown, typed>>

ClientMain == PeekPasses \/ PeekRefused \/ TypesLine \/ StdinEnds \/ Stops \/ Resets
                 \/ SendsCommand \/ ReadsLine \/ Deadline \/ JoinsReader \/ ClosesSocket

(* interact's reader: in_waiting drains the socket without blocking ...    *)
Polls ==
    /\ reader = "poll" /\ ~stopped
    /\ reader' = "read"
    /\ buf' = buf \o down
    /\ eof' = (eof \/ ~connOpen \/ ~clientOpen)
    /\ down' = <<>>
    /\ UNCHANGED <<daemonVars, main, stopped, dropped, shown, clientOpen, typed,
                   up, events>>

(* ... and read returns that much, or waits for one byte: what else comes  *)
(* with it stays in _buf. After the end of file it returns at once.        *)
Reads ==
    /\ reader = "read"
    /\ reader' = "poll"
    /\ IF buf # <<>> THEN shown' = shown \o buf /\ buf' = <<>> /\ UNCHANGED <<eof, down>>
       ELSE IF ~eof /\ down # <<>>
       THEN /\ shown' = Append(shown, Head(down))
            /\ buf' = Tail(down) /\ down' = <<>> /\ UNCHANGED eof
       ELSE /\ eof' = (eof \/ ~connOpen \/ ~clientOpen)
            /\ UNCHANGED <<buf, shown, down>>
    /\ UNCHANGED <<daemonVars, main, stopped, dropped, clientOpen, typed, up,
                   events>>

ReaderStops ==
    /\ reader = "poll" /\ stopped
    /\ reader' = "ended"
    /\ UNCHANGED <<daemonVars, wireVars, main, buf, eof, stopped, dropped,
                   shown, clientOpen, typed>>

ClientReader == Polls \/ Reads \/ ReaderStops

Ended == main = "done" /\ relay = "done" /\ UNCHANGED vars

Next == RelayMain \/ Pump \/ BoardSays \/ Unplugged \/ Terminated \/ Cut
           \/ ClientMain \/ ClientReader \/ Ended

Spec == Init /\ [][Next]_vars

(* The daemon's two threads run, and their reads, writes and sends return. *)
FairSpec == Spec /\ WF_vars(RelayMain) /\ WF_vars(Pump)

-----------------------------------------------------------------------------
(* "a genuinely raw byte pipe" (server.py:492): in both directions what    *)
(* comes out is the beginning of what went in, with nothing missing in the *)
(* middle, twice or out of order, however the session is cut short. The    *)
(* peek takes nothing, a reset only what came before the command.          *)
InOrder ==
    /\ IsPrefix(written, typed)
    /\ IsPrefix(dropped \o shown, IF "refused" \in events THEN <<0>> ELSE said)

(* "Returns when either side closes ... or when stop is set"               *)
(* (console.py:146): a relay ends for a reason, of which there is one more *)
(* in the code: a client that reads too slowly for 0.1 s is dropped.       *)
EndsForAReason == relay \in {"join", "port", "close", "done"} => events # {}

(* As long as nothing befell the session, every byte that went in at one   *)
(* end has come out at the other, or exactly one thread or buffer on the   *)
(* way still has it, in its place: no peek, reset, split read or poll that *)
(* timed out loses any. What the user has typed may be short of the line   *)
(* whose send found no room, which ends the client.                        *)
NothingIsLost ==
    events = {} =>
        /\ main \notin {"join", "close"} => typed = written \o taken \o up
        /\ said = dropped \o shown \o buf \o down \o load \o unread

(* Once the client has left, the port is gone or somebody terminated the   *)
(* session, the relay returns: neither thread waits for the other side.    *)
(* Nor is its reader thread left behind, if the join of it expired.        *)
RelayReturns ==
    events # {} ~> relay = "done" /\ pump \in {"none", "ended"}
=============================================================================
