---------------------------- MODULE RemoteFlash ----------------------------
(***************************************************************************)
(* `deploy --remote` against the daemon: deploy_over_network (remote.py)   *)
(* on one end of a TCP connection, serve_flash (server.py) on the other,   *)
(* and between them a connection that may stall, be cut, or be closed by   *)
(* either end, or by the Supervisor, at any time. The daemon's flash_hex   *)
(* is the machine of FlashHex, which this module extends: each of its      *)
(* steps may put LOG lines on the wire.                                    *)
(*                                                                         *)
(* One client, one exchange. Other connections appear as what they can do  *)
(* to this one: the board is busy, or was held by a serial session.        *)
(* What exclusion between them rests on is the subject of BoardSessions.   *)
(***************************************************************************)
EXTENDS FlashHex, Integers, Sequences

VARIABLES
    client,     \* control point of deploy_over_network
    reply,      \* the last line it read that is no LOG line, or "none"
    warned,     \* it printed that the board WAS ERASED AND NOW HAS NO FIRMWARE
    verdict,    \* its return value: 0, 1, or -1 while it has none
    daemon,     \* control point of serve_flash
    config,     \* what decides about the request besides the board's occupant
    displaced,  \* a serial session lost the board to this flash
    up,         \* what the client sent of header and payload
    down,       \* complete lines sent to the client and not read yet
    tail,       \* an incomplete line after them: "" or what it starts with
    clientOpen, \* the client's end of the connection is open
    daemonOpen, \* the daemon's end of it is open
    clean       \* nothing has befallen the exchange while the client was there

hexVars    == vars
clientVars == <<client, reply, warned, verdict>>
daemonVars == <<daemon, displaced>>
wireVars   == <<up, down, tail, clientOpen, daemonOpen, clean>>
allVars    == <<hexVars, clientVars, daemonVars, wireVars, config>>

(* Lines as the client tells them apart. "blank" is the LOG line of the    *)
(* board that was erased, "junk" one that is none of the protocol's.       *)
LogLines == {"log", "blank"}
Lines    == LogLines \cup {"OK send", "OK flashed", "ERR", "junk"}

(* What decides about a request, known to the daemon or said in it.        *)
Requests == [token : BOOLEAN, noFlash : BOOLEAN, relay : BOOLEAN, force : BOOLEAN]

ClientTypeOK ==
    /\ client \in {"resolve", "connect", "header", "reply", "upload", "listen", "done"}
    /\ reply \in {"none"} \cup (Lines \ LogLines)
    /\ warned \in BOOLEAN
    /\ verdict \in {-1, 0, 1}

DaemonTypeOK ==
    /\ daemon \in {"none", "backlog", "command", "guards", "claim", "send", "payload",
                   "verify", "tempfile", "pyocd", "close", "done"}
    /\ config \in Requests
    /\ displaced \in BOOLEAN

WireTypeOK ==
    /\ up \in {"nothing", "header", "part", "whole", "corrupt"}
    /\ down \in Seq(Lines)
    /\ tail \in {"", "LOG", "other"}
    /\ clientOpen \in BOOLEAN
    /\ daemonOpen \in BOOLEAN
    /\ clean \in BOOLEAN

RemoteTypeOK == ClientTypeOK /\ DaemonTypeOK /\ WireTypeOK

RemoteInit ==
    /\ Init
    /\ client = "resolve"
    /\ reply = "none"
    /\ warned = FALSE
    /\ verdict = -1
    /\ daemon = "none"
    /\ config \in Requests
    /\ displaced = FALSE
    /\ up = "nothing"
    /\ down = <<>>
    /\ tail = ""
    /\ clientOpen = FALSE
    /\ daemonOpen = FALSE
    /\ clean = TRUE

-----------------------------------------------------------------------------
(* What the daemon sends. conn has the timeout its last read left, at most *)
(* 0.2 s, and _send_line ignores every OSError: with a client that does    *)
(* not read for that long, or a connection that is gone, a line is sent in *)
(* part or not at all, and whatever is sent next is read as its rest.      *)

(* A line as the client will read it, after what is already under way.     *)
Glued(line) ==
    IF tail = "" THEN line
    ELSE IF tail = "other" THEN "junk"
    ELSE IF line = "blank" THEN "blank" ELSE "log"

(* Any number of LOG lines in a row says no more than one.                 *)
Queued(line) ==
    IF Glued(line) = "log" /\ down # <<>> /\ down[Len(down)] = "log"
    THEN down ELSE Append(down, Glued(line))

Sent(line) ==
    IF clientOpen /\ daemonOpen
    THEN \/ down' = Queued(line) /\ tail' = "" /\ UNCHANGED clean
         \/ /\ tail' = (IF tail # "" THEN tail ELSE "other")
            /\ clean' = FALSE /\ UNCHANGED down
         \/ /\ line \in LogLines /\ tail = "" /\ tail' = "LOG"
            /\ clean' = FALSE /\ UNCHANGED down
         \/ clean' = FALSE /\ UNCHANGED <<down, tail>>
    ELSE UNCHANGED <<down, tail, clean>>

(* A step of the handler alone, with and without a line to the client.     *)
Silently(from, to) ==
    /\ daemon = from
    /\ daemon' = to
    /\ UNCHANGED <<hexVars, clientVars, displaced, wireVars, config>>

Saying(line, from, to) ==
    /\ daemon = from
    /\ daemon' = to
    /\ Sent(line)
    /\ UNCHANGED <<hexVars, clientVars, displaced, up, clientOpen, daemonOpen, config>>

-----------------------------------------------------------------------------
(* serve_flash                                                             *)

(* The kernel accepts connections before the AcceptLoop does.              *)
Accept == Silently("backlog", "command")

(* This client sends no AUTH line: with a token set, its FLASH line is     *)
(* taken for one and refused.                                              *)
AuthRefused == config.token /\ Saying("ERR", "command", "close")

(* Header read; or no line within COMMAND_TIMEOUT, or the end of file.     *)
CommandRead  == ~config.token /\ up # "nothing" /\ Silently("command", "guards")
CommandUnread == ~config.token /\ Silently("command", "close")

Refusable == config.noFlash \/ (config.relay /\ ~config.force)

(* Fault: the board is claimed, and its session displaced, before the      *)
(* guards are looked at.                                                   *)
AdmittedLate ==
    /\ daemon = "guards"
    /\ displaced' \in BOOLEAN
    /\ IF Refusable
       THEN daemon' = "close" /\ Sent("ERR")
       ELSE daemon' = "claim" /\ UNCHANGED <<down, tail, clean>>
    /\ UNCHANGED <<hexVars, clientVars, up, clientOpen, daemonOpen, config>>

(* --no-flash, then the relay guard. The header of this client parses.     *)
Refused  == Refusable /\ Saying("ERR", "guards", "close")
Admitted == ~Refusable /\ Silently("guards", "claim")

Busy == Saying("ERR", "claim", "close")

(* claim_flash succeeds; a serial session it displaces is terminated and   *)
(* waited for.                                                             *)
Claimed ==
    /\ daemon = "claim"
    /\ daemon' = "send"
    /\ displaced' \in BOOLEAN
    /\ UNCHANGED <<hexVars, clientVars, wireVars, config>>

OkSend == Saying("OK send", "send", "payload")

(* _read_exact: all the bytes; or fewer, because PAYLOAD_TIMEOUT expired   *)
(* or the client's end is closed.                                          *)
PayloadRead ==
    daemonOpen /\ up \in {"whole", "corrupt"} /\ Silently("payload", "verify")
PayloadShort == Saying("ERR", "payload", "close")

(* The Supervisor closed the connection: settimeout() raises out of the    *)
(* handler, past every line it would have sent.                            *)
PayloadRaises == ~daemonOpen /\ Silently("payload", "close")

(* The sha256 of the header was taken of the bytes the client read.        *)
Acceptable == up = "whole"

DigestOk  == Acceptable /\ Silently("verify", "tempfile")
DigestBad == ~Acceptable /\ Saying("ERR", "verify", "close")

TempFile == Silently("tempfile", "pyocd")

(* No room for the temporary file, or no process for pyocd: the exception  *)
(* ends the handler, through release and _close.                           *)
Raises ==
    /\ daemon \in {"tempfile", "pyocd"}
    /\ at # "returned"
    /\ daemon' = "close"
    /\ clean' = (clean /\ ~clientOpen)
    /\ UNCHANGED <<hexVars, clientVars, displaced, up, down, tail,
                   clientOpen, daemonOpen, config>>

(* Fault: the reflash after the erase runs without the log callback.       *)
LoggedQuietly(step) ==
    IF step = "reflash" THEN UNCHANGED <<down, tail, clean>> ELSE Sent("log")

(* What a step of flash_hex logs: pyocd's output and fixed messages, if    *)
(* there are any, or the message about the blank board after pyocd's own.  *)
Logged(step) ==
    CASE told' # told -> Sent("blank")
      [] step = "validate" /\ hexValid -> UNCHANGED <<down, tail, clean>>
      [] OTHER -> Sent("log") \/ UNCHANGED <<down, tail, clean>>

FlashStep ==
    /\ daemon = "pyocd"
    /\ at # "returned"
    /\ Validate \/ Flash \/ Retry \/ Erase \/ Reflash \/ Reset
    /\ Logged(at)
    /\ UNCHANGED <<clientVars, daemonVars, up, clientOpen, daemonOpen, config>>

(* Fault: what counts is that the image is on the chip, not the reset.     *)
OutcomeByImage == IF firmware = "new" THEN "OK flashed" ELSE "ERR"

Outcome == IF rc = 0 THEN "OK flashed" ELSE "ERR"

Concluded == at = "returned" /\ Saying(Outcome, "pyocd", "close")

(* Fault: the handler ends and leaves its socket to the garbage collector. *)
LeftOpen ==
    /\ daemon = "close"
    /\ daemon' = "done"
    /\ UNCHANGED <<hexVars, clientVars, displaced, wireVars, config>>

(* release, _close: what was sent before is still delivered.               *)
Closed ==
    /\ daemon = "close"
    /\ daemon' = "done"
    /\ daemonOpen' = FALSE
    /\ UNCHANGED <<hexVars, clientVars, displaced, up, down, tail,
                   clientOpen, clean, config>>

Handler ==
    \/ Accept \/ AuthRefused \/ CommandRead \/ CommandUnread
    \/ Refused \/ Admitted \/ Busy \/ Claimed \/ OkSend
    \/ PayloadRead \/ PayloadShort \/ PayloadRaises
    \/ DigestOk \/ DigestBad \/ TempFile \/ Raises
    \/ FlashStep \/ Concluded \/ Closed

-----------------------------------------------------------------------------
(* deploy_over_network                                                     *)

(* Every way out closes the socket; what was not read then is lost.        *)
Returns(value) ==
    /\ client' = "done"
    /\ verdict' = value
    /\ clientOpen' = FALSE
    /\ down' = <<>>
    /\ tail' = ""

(* resolve_board finds no board of this name or several, or the file       *)
(* cannot be read, or the connection is refused or times out.              *)
Unreachable ==
    /\ client \in {"resolve", "connect"}
    /\ Returns(1)
    /\ UNCHANGED <<hexVars, reply, warned, daemonVars, up, daemonOpen, clean, config>>

Resolved ==
    /\ client = "resolve"
    /\ client' = "connect"
    /\ UNCHANGED <<hexVars, reply, warned, verdict, daemonVars, wireVars, config>>

Connected ==
    /\ client = "connect"
    /\ client' = "header"
    /\ daemon' = "backlog"
    /\ clientOpen' = TRUE
    /\ daemonOpen' = TRUE
    /\ UNCHANGED <<hexVars, reply, warned, verdict, displaced,
                   up, down, tail, clean, config>>

(* One sendall: the header, or the payload in as many pieces as it takes,  *)
(* which the network may corrupt but not shorten.                          *)
Sends(from, to, what) ==
    /\ client = from
    /\ client' = to
    /\ up' \in what
    /\ UNCHANGED <<hexVars, reply, warned, verdict, daemonVars,
                   down, tail, clientOpen, daemonOpen, clean, config>>

SendHeader  == Sends("header", "reply", {"header"})
SendPayload == Sends("upload", "listen", {"whole", "corrupt"})

SendFails ==
    /\ client \in {"header", "upload"} /\ ~daemonOpen
    /\ Returns(1)
    /\ UNCHANGED <<hexVars, reply, warned, daemonVars, up, daemonOpen, clean, config>>

(* The answer to the header: literally "OK send", or the end.              *)
HearReply ==
    /\ client = "reply" /\ down # <<>>
    /\ reply' = Head(down)
    /\ IF Head(down) = "OK send"
       THEN /\ client' = "upload" /\ up' = "part" /\ down' = Tail(down)
            /\ UNCHANGED <<verdict, clientOpen, tail>>
       ELSE Returns(1) /\ UNCHANGED up
    /\ UNCHANGED <<hexVars, warned, daemonVars, daemonOpen, clean, config>>

(* Fault: the client reads one line after the payload, whatever it is.     *)
IsLogIgnored(line) == FALSE

IsLog(line) == line \in LogLines

(* LOG lines are printed; the first other line is the verdict.             *)
HearLine ==
    /\ client = "listen" /\ down # <<>>
    /\ warned' = (warned \/ Head(down) = "blank")
    /\ IF IsLog(Head(down))
       THEN /\ down' = Tail(down)
            /\ UNCHANGED <<client, verdict, clientOpen, tail, reply>>
       ELSE /\ Returns(IF Head(down) = "OK flashed" THEN 0 ELSE 1)
            /\ reply' = Head(down)
    /\ UNCHANGED <<hexVars, daemonVars, up, daemonOpen, clean, config>>

(* _read_line's None for the end of file; an incomplete line is not one.   *)
HearEnd ==
    /\ client \in {"reply", "listen"} /\ down = <<>> /\ ~daemonOpen
    /\ Returns(1)
    /\ UNCHANGED <<hexVars, reply, warned, daemonVars, up, daemonOpen, clean, config>>

(* _read_line's None for _FLASH_READ_TIMEOUT, or a sendall that times out. *)
TimesOut ==
    /\ client \in {"header", "reply", "upload", "listen"}
    /\ Returns(1)
    /\ clean' = FALSE
    /\ UNCHANGED <<hexVars, reply, warned, daemonVars, up, daemonOpen, config>>

Caller ==
    \/ Unreachable \/ Resolved \/ Connected \/ SendHeader \/ SendPayload
    \/ SendFails \/ HearReply \/ HearLine \/ HearEnd

-----------------------------------------------------------------------------
(* The Supervisor sees the board depart: take_occupant, then terminate     *)
(* shuts the connection down under the handler, which goes on.             *)
Departure ==
    /\ daemon \in {"send", "payload", "verify", "tempfile", "pyocd"} /\ daemonOpen
    /\ daemonOpen' = FALSE
    /\ clean' = (clean /\ ~clientOpen)
    /\ UNCHANGED <<hexVars, clientVars, daemonVars, up, down, tail, clientOpen, config>>

(* The network, or a reset, cuts the connection: what is under way is lost.*)
Cut ==
    /\ clientOpen /\ daemonOpen
    /\ daemonOpen' = FALSE
    /\ down' = <<>>
    /\ tail' = ""
    /\ clean' = FALSE
    /\ UNCHANGED <<hexVars, clientVars, daemonVars, up, clientOpen, config>>

Ended == client = "done" /\ daemon \in {"none", "done"} /\ UNCHANGED allVars

RemoteNext == Handler \/ Caller \/ TimesOut \/ Departure \/ Cut \/ Ended

RemoteSpec == RemoteInit /\ [][RemoteNext]_allVars

(* The handler's waits for the client have timeouts, and pyocd is assumed  *)
(* to end, for which the code sets no timeout; the client reads            *)
(* what there is to read. Its own timeouts are not counted on.             *)
FairRemoteSpec == RemoteSpec /\ WF_allVars(Handler) /\ WF_allVars(Caller)

-----------------------------------------------------------------------------
(* "return 0 on OK flashed" (remote.py:509): exit code 0 is given only if  *)
(* this very flash of the bytes the client read succeeded, reset included, *)
(* whatever was lost, torn or glued together on the way.                   *)
VerdictIsHonest ==
    verdict = 0 => up = "whole" /\ at = "returned" /\ rc = 0

(* With nothing lost, cut or timed out, the client's exit code is the      *)
(* daemon's outcome: 0 if, and only if, flash_hex returned 0.              *)
VerdictAgrees ==
    client = "done" /\ clean => (verdict = 0 <=> at = "returned" /\ rc = 0)

(* "so a remote operator over deploy --remote sees it too" (flash.py:217): *)
(* a client that heard the daemon out, on a connection nothing befell, has *)
(* printed that the board has no firmware before it returns.               *)
BlankReachesOperator ==
    client = "done" /\ clean /\ told => warned

(* A FLASH that is answered by an error instead of OK send leaves the      *)
(* board alone: nothing is flashed or erased, and unless the OK send was   *)
(* lost on the way nobody's serial session was ended for it.               *)
RefusalHarmless ==
    client = "done" /\ reply = "ERR" /\ up = "header"
        => at = "validate" /\ (clean => ~displaced)

(* The client needs no timeout of its own to learn that an exchange the    *)
(* daemon took up is over: every way out of the handler, an exception, a   *)
(* departed board and a torn last line included, ends the connection.      *)
CallerIsTold == daemon = "command" ~> client = "done"
=============================================================================
