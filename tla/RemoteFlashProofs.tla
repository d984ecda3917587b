------------------------- MODULE RemoteFlashProofs -------------------------
(***************************************************************************)
(* Theorems about RemoteFlash. What flash_hex promises carries over to the *)
(* exchange because the exchange takes only steps of FlashHex. That exit   *)
(* code 0 is honest follows from where an "OK flashed" line can come from, *)
(* on any connection; what a client learns on one that nothing befalls     *)
(* follows from what must be under way at each step of the handler.        *)
(***************************************************************************)
EXTENDS RemoteFlash, FlashHexProofs, SequenceTheorems

(* What exit code 0 stands for.                                            *)
Flashed == up = "whole" /\ at = "returned" /\ rc = 0

(* The lines under way tell where the exchange is: a success follows one,  *)
(* and log lines follow the payload.                                       *)
LinesInTime ==
    /\ \A i \in 1..Len(down) : down[i] = "OK flashed" => Flashed
    /\ \A i \in 1..Len(down) : down[i] \in LogLines => up = "whole"
    /\ tail = "LOG" => up = "whole"

(* What the client has sent, and the control points that depend on it.     *)
SentInTime ==
    /\ verdict = 0 => Flashed
    /\ daemon \in {"tempfile", "pyocd"} => up = "whole"
    /\ up = "whole" => client \in {"listen", "done"}

HonestInv == RemoteTypeOK /\ LinesInTime /\ SentInTime

LEMMA AppendLine ==
    ASSUME NEW S, NEW s \in Seq(S), NEW x \in S
    PROVE  /\ Append(s, x) \in Seq(S)
           /\ \A i \in 1..Len(Append(s, x)) :
                 (i \in 1..Len(s) /\ Append(s, x)[i] = s[i]) \/ Append(s, x)[i] = x
OBVIOUS

LEMMA TailLine ==
    ASSUME NEW S, NEW s \in Seq(S), s # <<>>
    PROVE  /\ Tail(s) \in Seq(S) /\ Head(s) \in S
           /\ Head(s) = s[1] /\ 1 \in 1..Len(s)
           /\ \A i \in 1..Len(Tail(s)) : i + 1 \in 1..Len(s) /\ Tail(s)[i] = s[i + 1]
OBVIOUS

LEMMA NoLine == <<>> \in Seq(Lines) /\ \A i \in 1..Len(<<>>) : FALSE
<1>1. <<>> \in Seq(Lines) /\ Len(<<>>) = 0
  BY EmptySeq, Zenon
<1> QED  BY <1>1

(* _send_line delivers the line itself, a line that is none of the         *)
(* protocol's, a log line completed from a torn one, or nothing.           *)
LEMMA SentLine ==
    ASSUME NEW line \in Lines, WireTypeOK, Sent(line)
    PROVE  /\ down' \in Seq(Lines)
           /\ tail' \in {"", "LOG", "other"}
           /\ clean' \in BOOLEAN
           /\ \A i \in 1..Len(down') :
                 \/ i \in 1..Len(down) /\ down'[i] = down[i]
                 \/ down'[i] = line
                 \/ down'[i] = "junk"
                 \/ down'[i] = "log" /\ tail = "LOG"
           /\ tail' = "LOG" => tail = "LOG" \/ line \in LogLines
<1>1. /\ Glued(line) \in Lines
      /\ Glued(line) \in {line, "junk"} \/ (Glued(line) = "log" /\ tail = "LOG")
  BY DEF Glued, Lines, LogLines, WireTypeOK
<1>2. down \in Seq(Lines)
  BY DEF WireTypeOK
<1>3. tail' \in {"", "LOG", "other"} /\ clean' \in BOOLEAN
  BY DEF Sent, WireTypeOK
<1>4. tail' = "LOG" => tail = "LOG" \/ line \in LogLines
  BY DEF Sent
<1>5. down' = down \/ down' = Append(down, Glued(line))
  BY DEF Sent, Queued
<1>6. CASE down' = down
  BY <1>2, <1>3, <1>4, <1>6
<1>7. CASE down' = Append(down, Glued(line))
  <2>1. down' \in Seq(Lines)
    BY <1>1, <1>2, <1>7, AppendLine
  <2>2. \A i \in 1..Len(down') : (i \in 1..Len(down) /\ down'[i] = down[i])
                                   \/ down'[i] = Glued(line)
    BY <1>1, <1>2, <1>7, AppendLine
  <2> QED  BY <2>1, <2>2, <1>1, <1>3, <1>4
<1> QED  BY <1>5, <1>6, <1>7

LEMMA HonestInit == RemoteInit => HonestInv
<1> SUFFICES ASSUME RemoteInit PROVE HonestInv
  OBVIOUS
<1>1. down \in Seq(Lines) /\ \A i \in 1..Len(down) : FALSE
  BY NoLine DEF RemoteInit
<1>2. ClientTypeOK /\ verdict # 0
  <2>1. client = "resolve" /\ reply = "none" /\ warned = FALSE /\ verdict = -1
    BY Zenon DEF RemoteInit
  <2>2. verdict \in {-1, 0, 1} /\ verdict # 0
    BY <2>1
  <2>3. ClientTypeOK
    BY <2>1, <2>2 DEF ClientTypeOK
  <2> QED  BY <2>2, <2>3
<1>3. DaemonTypeOK /\ daemon = "none"
  BY DEF RemoteInit, DaemonTypeOK
<1>4. up = "nothing" /\ tail = "" /\ clientOpen = FALSE /\ daemonOpen = FALSE /\ clean = TRUE
  BY DEF RemoteInit
<1>5. WireTypeOK
  BY <1>1, <1>4 DEF WireTypeOK
<1>6. LinesInTime /\ SentInTime
  BY <1>1, <1>2, <1>3, <1>4 DEF LinesInTime, SentInTime
<1> QED  BY <1>2, <1>3, <1>5, <1>6 DEF HonestInv, RemoteTypeOK

(* A step of the exchange is a step of flash_hex or leaves it alone.       *)
LEMMA FlashHexOrNot ==
    ASSUME [RemoteNext]_allVars
    PROVE  [Next]_hexVars
<1>1. CASE FlashStep
  BY <1>1 DEF FlashStep, Next, hexVars
<1>2. CASE UNCHANGED allVars
  BY <1>2 DEF allVars
<1>3. CASE Handler /\ ~FlashStep
  BY <1>3 DEF Handler, Silently, Saying, Accept, AuthRefused, CommandRead, CommandUnread,
       Refused, Admitted, Busy, Claimed, OkSend, PayloadRead, PayloadShort, PayloadRaises,
       DigestOk, DigestBad, TempFile, Raises, Concluded, Closed
<1>4. CASE Caller
  BY <1>4 DEF Caller, Unreachable, Resolved, Connected, SendHeader, SendPayload, Sends,
       SendFails, HearReply, HearLine, HearEnd
<1>5. CASE TimesOut \/ Departure \/ Cut \/ Ended
  BY <1>5 DEF TimesOut, Departure, Cut, Ended, allVars
<1> QED  BY <1>1, <1>2, <1>3, <1>4, <1>5 DEF RemoteNext

(* The daemon's flash_hex, seen alone, is FlashHex: the exchange adds what *)
(* is said and who listens, and takes no step of its own on the board.     *)
THEOREM ExchangeImplementsFlashHex == RemoteSpec => Spec
<1>1. RemoteInit => Init
  BY DEF RemoteInit
<1>2. [RemoteNext]_allVars => [Next]_vars
  BY FlashHexOrNot DEF hexVars
<1> QED  BY <1>1, <1>2, PTL DEF RemoteSpec, Spec

(* So what flash_hex promises, alone, of a board holds of the board of a   *)
(* remote deploy, whoever leaves while pyocd is at work.                   *)
THEOREM FlashHexPromisesCarryOver ==
    RemoteSpec => []TypeOK /\ []SuccessIsReal /\ []BlankIsTold /\ ErasesOnlyLocked
BY ExchangeImplementsFlashHex, TypeCorrect, SuccessMeansFlashed, BlankBoardsAreTold,
   EraseIsJustified, PTL

-----------------------------------------------------------------------------
(* Steps of the handler that say nothing.                                  *)
LEMMA SilentStep ==
    ASSUME HonestInv, NEW from, NEW to, Silently(from, to),
           to \in {"command", "guards", "claim", "close", "verify", "tempfile", "pyocd"},
           to \in {"tempfile", "pyocd"} => up = "whole"
    PROVE  HonestInv'
<1>1. ClientTypeOK'
  BY DEF HonestInv, RemoteTypeOK, ClientTypeOK, Silently, clientVars
<1>2. DaemonTypeOK'
  BY DEF HonestInv, RemoteTypeOK, DaemonTypeOK, Silently
<1>3. WireTypeOK'
  BY DEF HonestInv, RemoteTypeOK, WireTypeOK, Silently, wireVars
<1>4. LinesInTime' /\ SentInTime'
  BY DEF HonestInv, LinesInTime, SentInTime, Flashed, Silently, clientVars, wireVars,
       hexVars, vars
<1> QED  BY <1>1, <1>2, <1>3, <1>4 DEF HonestInv, RemoteTypeOK

(* Steps that say something: a success only after one.                     *)
LEMMA SayingStep ==
    ASSUME HonestInv, NEW line \in Lines \ LogLines, NEW from, NEW to,
           Saying(line, from, to),
           to \in {"close", "payload"},
           line = "OK flashed" => Flashed
    PROVE  HonestInv'
<1>1. WireTypeOK /\ Sent(line)
  BY DEF Saying, HonestInv, RemoteTypeOK
<1>2. /\ UNCHANGED <<client, reply, warned, verdict, displaced, config, up, clientOpen,
                     daemonOpen, at, rc>>
      /\ daemon' = to
  BY DEF Saying, clientVars, hexVars, vars
<1>3. ClientTypeOK' /\ DaemonTypeOK'
  BY <1>2 DEF HonestInv, RemoteTypeOK, ClientTypeOK, DaemonTypeOK
<1>4. WireTypeOK'
  BY <1>1, <1>2, SentLine DEF WireTypeOK
<1>5. Flashed' = Flashed
  BY <1>2 DEF Flashed
<1>6. LinesInTime'
  <2>1. "junk" \notin LogLines \cup {"OK flashed"} /\ "log" # "OK flashed"
    BY DEF LogLines
  <2> QED  BY <1>1, <1>2, <1>5, <2>1, SentLine DEF HonestInv, LinesInTime
<1>7. SentInTime'
  BY <1>2, <1>5 DEF HonestInv, SentInTime
<1> QED  BY <1>3, <1>4, <1>6, <1>7 DEF HonestInv, RemoteTypeOK

(* A step of flash_hex says log lines, after the payload and before any    *)
(* success.                                                                *)
LEMMA FlashStepHonest ==
    ASSUME HonestInv, FlashStep
    PROVE  HonestInv'
<1>1. UNCHANGED <<down, tail, clean>> \/ \E line \in LogLines : Sent(line)
  BY DEF FlashStep, Logged, LogLines
<1>2. /\ \A line \in LogLines : line \in Lines /\ line # "OK flashed"
      /\ "junk" # "OK flashed" /\ "log" # "OK flashed"
  BY DEF LogLines, Lines
<1>3. /\ down' \in Seq(Lines) /\ tail' \in {"", "LOG", "other"} /\ clean' \in BOOLEAN
      /\ \A i \in 1..Len(down') : down'[i] = "OK flashed"
            => i \in 1..Len(down) /\ down[i] = "OK flashed"
  BY <1>1, <1>2, SentLine DEF HonestInv, RemoteTypeOK, WireTypeOK
<1>4. UNCHANGED <<client, reply, warned, verdict, daemon, displaced, config, up,
                  clientOpen, daemonOpen>> /\ daemon = "pyocd"
  BY DEF FlashStep, clientVars, daemonVars
<1>5. RemoteTypeOK'
  <2>1. ClientTypeOK'
    BY <1>3, <1>4 DEF HonestInv, RemoteTypeOK, ClientTypeOK
  <2>2. DaemonTypeOK'
    BY <1>3, <1>4 DEF HonestInv, RemoteTypeOK, DaemonTypeOK
  <2>3. WireTypeOK'
    BY <1>3, <1>4 DEF HonestInv, RemoteTypeOK, WireTypeOK
  <2> QED  BY <2>1, <2>2, <2>3 DEF RemoteTypeOK
<1>6. ~Flashed /\ up = "whole" /\ up' = "whole"
  BY <1>4 DEF FlashStep, Flashed, HonestInv, SentInTime
<1>7. LinesInTime' /\ SentInTime'
  BY <1>3, <1>4, <1>6 DEF HonestInv, LinesInTime, SentInTime
<1> QED  BY <1>5, <1>7 DEF HonestInv, RemoteTypeOK

LEMMA HandlerHonest ==
    ASSUME HonestInv, Handler
    PROVE  HonestInv'
<1>1. CASE Accept \/ CommandRead \/ CommandUnread \/ Admitted \/ PayloadRead
             \/ PayloadRaises
  BY <1>1, SilentStep DEF Accept, CommandRead, CommandUnread, Admitted, PayloadRead,
       PayloadRaises
<1>2. CASE DigestOk
  BY <1>2, SilentStep DEF DigestOk, Acceptable
<1>3. CASE TempFile
  <2>1. up = "whole"
    BY <1>3 DEF TempFile, Silently, HonestInv, SentInTime
  <2> QED  BY <1>3, <2>1, SilentStep DEF TempFile
<1>4. CASE AuthRefused \/ Refused \/ Busy \/ OkSend \/ PayloadShort \/ DigestBad
  <2>1. {"ERR", "OK send"} \subseteq Lines \ LogLines
    BY DEF Lines, LogLines
  <2> QED  BY <1>4, <2>1, SayingStep
             DEF AuthRefused, Refused, Busy, OkSend, PayloadShort, DigestBad
<1>5. CASE Concluded
  <2>1. Outcome \in Lines \ LogLines
    BY DEF Outcome, Lines, LogLines
  <2>2. Outcome = "OK flashed" => Flashed
    BY <1>5 DEF Concluded, Saying, Outcome, Flashed, HonestInv, SentInTime
  <2> QED  BY <1>5, <2>1, <2>2, SayingStep DEF Concluded
<1>6. CASE Claimed \/ Raises \/ Closed
  <2>1. /\ UNCHANGED <<client, reply, warned, verdict, config, up, down, tail, clientOpen,
                       at, rc>>
        /\ daemon' \in {"send", "close", "done"}
        /\ displaced' \in {displaced, TRUE, FALSE}
        /\ daemonOpen' \in {daemonOpen, FALSE}
        /\ clean' \in {clean, TRUE, FALSE}
    BY <1>6 DEF Claimed, Raises, Closed, clientVars, wireVars, hexVars, vars
  <2>2. RemoteTypeOK'
    <3>1. ClientTypeOK'
      BY <2>1 DEF HonestInv, RemoteTypeOK, ClientTypeOK
    <3>2. DaemonTypeOK'
      BY <2>1 DEF HonestInv, RemoteTypeOK, DaemonTypeOK
    <3>3. WireTypeOK'
      BY <2>1 DEF HonestInv, RemoteTypeOK, WireTypeOK
    <3> QED  BY <3>1, <3>2, <3>3 DEF RemoteTypeOK
  <2>3. LinesInTime' /\ SentInTime'
    BY <2>1 DEF HonestInv, LinesInTime, SentInTime, Flashed
  <2> QED  BY <2>2, <2>3 DEF HonestInv, RemoteTypeOK
<1>7. CASE FlashStep
  BY <1>7, FlashStepHonest
<1> QED  BY <1>1, <1>2, <1>3, <1>4, <1>5, <1>6, <1>7 DEF Handler

-----------------------------------------------------------------------------
(* The client, and what befalls the connection: only a success that was    *)
(* under way becomes exit code 0.                                          *)
LEMMA ClientEnds ==
    ASSUME HonestInv, NEW value \in {0, 1}, Returns(value), value = 0 => Flashed,
           UNCHANGED <<config, displaced, daemon, daemonOpen, up, at, rc>>,
           reply' \in {"none"} \cup (Lines \ LogLines),
           warned' \in BOOLEAN, clean' \in BOOLEAN
    PROVE  HonestInv'
<1>1. down' \in Seq(Lines) /\ \A i \in 1..Len(down') : FALSE
  BY NoLine DEF Returns
<1>2. client' = "done" /\ verdict' = value /\ clientOpen' = FALSE /\ tail' = ""
  BY DEF Returns
<1>3. RemoteTypeOK'
  <2>1. ClientTypeOK'
    BY <1>1, <1>2 DEF HonestInv, RemoteTypeOK, ClientTypeOK
  <2>2. DaemonTypeOK'
    BY <1>1, <1>2 DEF HonestInv, RemoteTypeOK, DaemonTypeOK
  <2>3. WireTypeOK'
    BY <1>1, <1>2 DEF HonestInv, RemoteTypeOK, WireTypeOK
  <2> QED  BY <2>1, <2>2, <2>3 DEF RemoteTypeOK
<1>4. LinesInTime' /\ SentInTime'
  BY <1>1, <1>2 DEF HonestInv, LinesInTime, SentInTime, Flashed
<1> QED  BY <1>3, <1>4 DEF HonestInv, RemoteTypeOK

LEMMA HearReplyHonest ==
    ASSUME HonestInv, HearReply
    PROVE  HonestInv'
<1>1. /\ Tail(down) \in Seq(Lines) /\ Head(down) \in Lines
      /\ Head(down) = down[1] /\ 1 \in 1..Len(down)
      /\ \A i \in 1..Len(Tail(down)) : i + 1 \in 1..Len(down) /\ Tail(down)[i] = down[i + 1]
  BY TailLine DEF HearReply, HonestInv, RemoteTypeOK, WireTypeOK
<1>2. up # "whole" /\ ~Flashed
  BY DEF HearReply, HonestInv, SentInTime, Flashed
<1>3. /\ reply' \in Lines \ LogLines
      /\ UNCHANGED <<warned, config, displaced, daemon, daemonOpen, clean, at, rc>>
  BY <1>1, <1>2 DEF HearReply, daemonVars, hexVars, vars, HonestInv, LinesInTime
<1>4. CASE Head(down) = "OK send"
  <2>1. client' = "upload" /\ up' = "part" /\ down' = Tail(down)
        /\ UNCHANGED <<verdict, clientOpen, tail>>
    BY <1>4 DEF HearReply
  <2>2. RemoteTypeOK'
    <3>1. ClientTypeOK'
      BY <1>1, <1>3, <2>1 DEF HonestInv, RemoteTypeOK, ClientTypeOK
    <3>2. DaemonTypeOK'
      BY <1>1, <1>3, <2>1 DEF HonestInv, RemoteTypeOK, DaemonTypeOK
    <3>3. WireTypeOK'
      BY <1>1, <1>3, <2>1 DEF HonestInv, RemoteTypeOK, WireTypeOK
    <3> QED  BY <3>1, <3>2, <3>3 DEF RemoteTypeOK
  <2>3. LinesInTime'
    BY <1>1, <1>2, <2>1 DEF HonestInv, LinesInTime
  <2>4. SentInTime'
    BY <1>2, <1>3, <2>1 DEF HonestInv, SentInTime
  <2> QED  BY <2>2, <2>3, <2>4 DEF HonestInv, RemoteTypeOK
<1>5. CASE Head(down) # "OK send"
  <2>1. Returns(1) /\ UNCHANGED up
    BY <1>5 DEF HearReply
  <2>2. reply' \in {"none"} \cup (Lines \ LogLines) /\ warned' \in BOOLEAN
    BY <1>3 DEF HonestInv, RemoteTypeOK, ClientTypeOK
  <2>3. clean' \in BOOLEAN
    BY <1>3 DEF HonestInv, RemoteTypeOK, WireTypeOK
  <2>4. UNCHANGED <<config, displaced, daemon, daemonOpen, up, at, rc>>
    BY <1>3, <2>1
  <2> QED  BY <2>1, <2>2, <2>3, <2>4, ClientEnds
<1> QED  BY <1>4, <1>5

LEMMA HearLineHonest ==
    ASSUME HonestInv, HearLine
    PROVE  HonestInv'
<1>1. /\ Tail(down) \in Seq(Lines) /\ Head(down) \in Lines
      /\ Head(down) = down[1] /\ 1 \in 1..Len(down)
      /\ \A i \in 1..Len(Tail(down)) : i + 1 \in 1..Len(down) /\ Tail(down)[i] = down[i + 1]
  BY TailLine DEF HearLine, HonestInv, RemoteTypeOK, WireTypeOK
<1>2. /\ warned' \in BOOLEAN
      /\ UNCHANGED <<config, displaced, daemon, up, daemonOpen, clean, at, rc>>
  BY DEF HearLine, daemonVars, hexVars, vars, HonestInv, RemoteTypeOK, ClientTypeOK
<1>3. CASE IsLog(Head(down))
  <2>1. down' = Tail(down) /\ UNCHANGED <<client, verdict, clientOpen, tail, reply>>
    BY <1>3 DEF HearLine
  <2>2. RemoteTypeOK'
    <3>1. ClientTypeOK'
      BY <1>1, <1>2, <2>1 DEF HonestInv, RemoteTypeOK, ClientTypeOK
    <3>2. DaemonTypeOK'
      BY <1>1, <1>2, <2>1 DEF HonestInv, RemoteTypeOK, DaemonTypeOK
    <3>3. WireTypeOK'
      BY <1>1, <1>2, <2>1 DEF HonestInv, RemoteTypeOK, WireTypeOK
    <3> QED  BY <3>1, <3>2, <3>3 DEF RemoteTypeOK
  <2>3. LinesInTime' /\ SentInTime'
    BY <1>1, <1>2, <2>1 DEF HonestInv, LinesInTime, SentInTime, Flashed
  <2> QED  BY <2>2, <2>3 DEF HonestInv, RemoteTypeOK
<1>4. CASE ~IsLog(Head(down))
  <2>1. /\ Returns(IF Head(down) = "OK flashed" THEN 0 ELSE 1)
        /\ reply' \in Lines \ LogLines
    BY <1>1, <1>4 DEF HearLine, IsLog
  <2>2. Head(down) = "OK flashed" => Flashed
    BY <1>1 DEF HonestInv, LinesInTime
  <2>3. reply' \in {"none"} \cup (Lines \ LogLines)
    BY <2>1
  <2>4. clean' \in BOOLEAN
    BY <1>2 DEF HonestInv, RemoteTypeOK, WireTypeOK
  <2>5. CASE Head(down) = "OK flashed"
    BY <1>2, <2>1, <2>2, <2>3, <2>4, <2>5, ClientEnds
  <2>6. CASE Head(down) # "OK flashed"
    <3>1. Returns(1)
      BY <2>1, <2>6
    <3> QED  BY <1>2, <2>3, <2>4, <3>1, ClientEnds
  <2> QED  BY <2>5, <2>6
<1> QED  BY <1>3, <1>4

LEMMA CallerHonest ==
    ASSUME HonestInv, Caller \/ TimesOut
    PROVE  HonestInv'
<1>1. CASE Unreachable \/ SendFails \/ HearEnd \/ TimesOut
  <2>1. /\ Returns(1)
        /\ UNCHANGED <<reply, warned, config, displaced, up, daemon, daemonOpen, at, rc>>
        /\ clean' \in {clean, FALSE}
    BY <1>1 DEF Unreachable, SendFails, HearEnd, TimesOut, daemonVars, hexVars, vars
  <2>2. reply' \in {"none"} \cup (Lines \ LogLines) /\ warned' \in BOOLEAN
    BY <2>1 DEF HonestInv, RemoteTypeOK, ClientTypeOK
  <2>3. clean' \in BOOLEAN
    BY <2>1 DEF HonestInv, RemoteTypeOK, WireTypeOK
  <2> QED  BY <2>1, <2>2, <2>3, ClientEnds
<1>2. CASE Resolved \/ Connected
  <2>1. /\ UNCHANGED <<reply, warned, verdict, config, displaced, up, down, tail, clean, at, rc>>
        /\ client' \in {"connect", "header"} /\ client \in {"resolve", "connect"}
        /\ daemon' \in {daemon, "backlog"}
        /\ clientOpen' \in {clientOpen, TRUE} /\ daemonOpen' \in {daemonOpen, TRUE}
    BY <1>2 DEF Resolved, Connected, daemonVars, wireVars, hexVars, vars
  <2>2. RemoteTypeOK'
    <3>1. ClientTypeOK'
      BY <2>1 DEF HonestInv, RemoteTypeOK, ClientTypeOK
    <3>2. DaemonTypeOK'
      BY <2>1 DEF HonestInv, RemoteTypeOK, DaemonTypeOK
    <3>3. WireTypeOK'
      BY <2>1 DEF HonestInv, RemoteTypeOK, WireTypeOK
    <3> QED  BY <3>1, <3>2, <3>3 DEF RemoteTypeOK
  <2>3. LinesInTime' /\ SentInTime'
    BY <2>1 DEF HonestInv, LinesInTime, SentInTime, Flashed
  <2> QED  BY <2>2, <2>3 DEF HonestInv, RemoteTypeOK
<1>3. CASE SendHeader \/ SendPayload
  <2>1. /\ UNCHANGED <<reply, warned, verdict, config, displaced, daemon, down, tail,
                       clientOpen, daemonOpen, clean, at, rc>>
        /\ client' \in {"reply", "listen"} /\ client \in {"header", "upload"}
        /\ up' \in {"header", "whole", "corrupt"}
        /\ up' = "whole" => client' = "listen"
    BY <1>3 DEF SendHeader, SendPayload, Sends, daemonVars, hexVars, vars
  <2>2. RemoteTypeOK'
    <3>1. ClientTypeOK'
      BY <2>1 DEF HonestInv, RemoteTypeOK, ClientTypeOK
    <3>2. DaemonTypeOK'
      BY <2>1 DEF HonestInv, RemoteTypeOK, DaemonTypeOK
    <3>3. WireTypeOK'
      BY <2>1 DEF HonestInv, RemoteTypeOK, WireTypeOK
    <3> QED  BY <3>1, <3>2, <3>3 DEF RemoteTypeOK
  <2>3. up # "whole"
    BY <2>1 DEF HonestInv, SentInTime
  <2>4. LinesInTime' /\ SentInTime'
    BY <2>1, <2>3 DEF HonestInv, LinesInTime, SentInTime, Flashed
  <2> QED  BY <2>2, <2>4 DEF HonestInv, RemoteTypeOK
<1>4. CASE HearReply
  BY <1>4, HearReplyHonest
<1>5. CASE HearLine
  BY <1>5, HearLineHonest
<1> QED  BY <1>1, <1>2, <1>3, <1>4, <1>5 DEF Caller

LEMMA HonestStep == HonestInv /\ [RemoteNext]_allVars => HonestInv'
<1> SUFFICES ASSUME HonestInv, [RemoteNext]_allVars PROVE HonestInv'
  OBVIOUS
<1>1. CASE Handler
  BY <1>1, HandlerHonest
<1>2. CASE Caller \/ TimesOut
  BY <1>2, CallerHonest
<1>3. CASE Departure \/ Cut
  <2>1. /\ UNCHANGED <<client, reply, warned, verdict, config, displaced, up, daemon,
                       clientOpen, at, rc>>
        /\ daemonOpen' = FALSE
        /\ clean' \in {clean, TRUE, FALSE}
        /\ UNCHANGED <<down, tail>> \/ (down' = <<>> /\ tail' = "")
    BY <1>3 DEF Departure, Cut, clientVars, daemonVars, hexVars, vars
  <2>2. RemoteTypeOK'
    <3>1. ClientTypeOK'
      BY <2>1 DEF HonestInv, RemoteTypeOK, ClientTypeOK
    <3>2. DaemonTypeOK'
      BY <2>1 DEF HonestInv, RemoteTypeOK, DaemonTypeOK
    <3>3. WireTypeOK'
      BY <2>1, NoLine DEF HonestInv, RemoteTypeOK, WireTypeOK
    <3> QED  BY <3>1, <3>2, <3>3 DEF RemoteTypeOK
  <2>3. LinesInTime' /\ SentInTime'
    BY <2>1, NoLine DEF HonestInv, LinesInTime, SentInTime, Flashed
  <2> QED  BY <2>2, <2>3 DEF HonestInv, RemoteTypeOK
<1>4. CASE UNCHANGED allVars
  <2>1. UNCHANGED <<client, reply, warned, verdict, config, displaced, up, daemon, down,
                    tail, clientOpen, daemonOpen, clean, at, rc>>
    BY <1>4 DEF allVars, clientVars, daemonVars, wireVars, hexVars, vars
  <2>2. RemoteTypeOK'
    <3>1. ClientTypeOK'
      BY <2>1 DEF HonestInv, RemoteTypeOK, ClientTypeOK
    <3>2. DaemonTypeOK'
      BY <2>1 DEF HonestInv, RemoteTypeOK, DaemonTypeOK
    <3>3. WireTypeOK'
      BY <2>1 DEF HonestInv, RemoteTypeOK, WireTypeOK
    <3> QED  BY <3>1, <3>2, <3>3 DEF RemoteTypeOK
  <2>3. LinesInTime' /\ SentInTime'
    BY <2>1 DEF HonestInv, LinesInTime, SentInTime, Flashed
  <2> QED  BY <2>2, <2>3 DEF HonestInv, RemoteTypeOK
<1> QED  BY <1>1, <1>2, <1>3, <1>4 DEF RemoteNext, Ended

LEMMA Honesty == RemoteSpec => []HonestInv
BY HonestInit, HonestStep, PTL DEF RemoteSpec

(* Every variable of the exchange keeps its type, whatever is torn, lost   *)
(* or glued together.                                                      *)
THEOREM ExchangeTypeCorrect == RemoteSpec => []RemoteTypeOK
BY Honesty, PTL DEF HonestInv

(* deploy_over_network returns 0 only after this flash, of the bytes it    *)
(* read, succeeded at the daemon (remote.py:509).                          *)
THEOREM ExitZeroIsHonest == RemoteSpec => []VerdictIsHonest
<1>1. HonestInv => VerdictIsHonest
  BY DEF HonestInv, SentInTime, Flashed, VerdictIsHonest
<1> QED  BY <1>1, Honesty, PTL

(* End to end: when `deploy --remote` exits with 0, the new firmware is on *)
(* the remote chip, it was reset since, and the chip is not locked.        *)
THEOREM ExitZeroIsReal ==
    RemoteSpec => [](verdict = 0 => firmware = "new" /\ restarted /\ ~locked)
<1>1. VerdictIsHonest /\ SuccessIsReal
        => (verdict = 0 => firmware = "new" /\ restarted /\ ~locked)
  BY DEF VerdictIsHonest, SuccessIsReal
<1>2. RemoteSpec => []SuccessIsReal
  BY ExchangeImplementsFlashHex, SuccessMeansFlashed, PTL
<1> QED  BY <1>1, <1>2, ExitZeroIsHonest, PTL

-----------------------------------------------------------------------------
(* The exchange nothing has befallen: what is under way is what the        *)
(* handler has said up to where it is, less what the client has heard.     *)

(* How far the client is, and what it has sent by then.                    *)
ClientPhases ==
    /\ clientOpen <=> client \in {"header", "reply", "upload", "listen"}
    /\ client \in {"resolve", "connect"} =>
          daemon = "none" /\ up = "nothing" /\ down = <<>> /\ tail = ""
    /\ client \in {"header"} => up = "nothing"
    /\ client \in {"reply"} => up = "header"
    /\ client \in {"upload"} => up = "part"
    /\ client \in {"listen"} => up \in {"whole", "corrupt"}
    /\ client # "done" => reply \in {"none", "OK send"}

(* How far the handler is, and what that says of board and payload.        *)
DaemonPhases ==
    /\ daemon \in {"none", "backlog", "command", "guards", "claim"} => ~displaced
    /\ daemon \in {"verify", "tempfile", "pyocd"} => up \in {"whole", "corrupt"}
    /\ at # "validate" => daemon \in {"pyocd", "close", "done"} /\ up = "whole"
    /\ told => at # "validate"

Among(line, lines)  == \E i \in 1..Len(lines) : lines[i] = line

(* Log lines and, at the end, one other.                                   *)
AllLogs(lines)      == \A i \in 1..Len(lines) : lines[i] \in LogLines
EndsIn(lines, line) ==
    /\ Len(lines) # 0 /\ lines[Len(lines)] = line
    /\ \A i \in 1..Len(lines) : i # Len(lines) => lines[i] \in LogLines

(* While the client has not heard the answer to its header ...             *)
BeforeOk ==
    /\ daemon \in {"backlog", "command", "guards", "claim", "send"} => down = <<>>
    /\ daemon = "payload" => down = <<"OK send">>
    /\ daemon \in {"close", "done"} => \/ down = <<>> /\ ~displaced
                                       \/ down = <<"ERR">> /\ ~displaced
                                       \/ down = <<"OK send", "ERR">>

(* ... and since it heard that it was OK send.                             *)
AfterOk ==
    /\ daemon \in {"payload", "verify", "tempfile", "pyocd", "close", "done"}
    /\ daemon \in {"payload", "verify", "tempfile"} => down = <<>>
    /\ daemon = "pyocd" => AllLogs(down)
    /\ daemon \in {"close", "done"} =>
          IF at = "returned" /\ rc = 0 THEN EndsIn(down, "OK flashed") ELSE EndsIn(down, "ERR")

Awaited == IF up \in {"nothing", "header"} THEN BeforeOk ELSE AfterOk

BlankUnderWay == told => warned \/ Among("blank", down)

Expected ==
    /\ tail = "" /\ daemon # "none"
    /\ daemonOpen <=> daemon # "done"
    /\ Awaited
    /\ BlankUnderWay

Orderly == clean /\ clientOpen => Expected

(* The client left because it had heard the daemon out.                    *)
Settled ==
    client = "done" /\ clean =>
        /\ up = "whole" => /\ daemon \in {"close", "done"}
                           /\ at = "returned" /\ rc = 0 => verdict = 0
                           /\ told => warned
        /\ up = "header" /\ reply = "ERR" => daemon \in {"close", "done"} /\ ~displaced

ExchangeInv == HonestInv /\ ClientPhases /\ DaemonPhases /\ Orderly /\ Settled

LEMMA ShortLines ==
    ASSUME NEW x \in Lines
    PROVE  /\ Append(<<>>, x) = <<x>> /\ <<x>> \in Seq(Lines) /\ <<x>> # <<>>
           /\ Len(<<x>>) = 1 /\ <<x>>[1] = x
           /\ Head(<<x>>) = x /\ Tail(<<x>>) = <<>>
OBVIOUS

LEMMA TwoLines ==
    ASSUME NEW x \in Lines, NEW y \in Lines
    PROVE  /\ Append(<<x>>, y) = <<x, y>>
           /\ Head(<<x, y>>) = x /\ Tail(<<x, y>>) = <<y>> /\ <<x, y>> # <<>>
<1>1. Append(<<x>>, y) = <<x, y>>
  <2>1. <<x>> \in Seq(Lines) /\ <<x, y>> \in Seq(Lines) /\ Len(<<x>>) = 1 /\ Len(<<x, y>>) = 2
    OBVIOUS
  <2>2. Append(<<x>>, y) \in Seq(Lines) /\ Len(Append(<<x>>, y)) = 2
    BY <2>1, AppendProperties
  <2>3. Append(<<x>>, y)[1] = x /\ Append(<<x>>, y)[2] = y
    BY <2>1, AppendProperties
  <2>4. \A i \in 1..2 : Append(<<x>>, y)[i] = <<x, y>>[i]
    BY <2>3
  <2> QED  BY <2>1, <2>2, <2>4, SeqEqual
<1>2. Head(<<x, y>>) = x
  OBVIOUS
<1>3. Tail(<<x, y>>) = <<y>>
  OBVIOUS
<1>4. <<x, y>> # <<>>
  OBVIOUS
<1> QED  BY <1>1, <1>2, <1>3, <1>4

LEMMA LogsGrow ==
    ASSUME NEW s \in Seq(Lines), NEW x \in Lines, AllLogs(s)
    PROVE  /\ x \in LogLines => AllLogs(Append(s, x))
           /\ x \notin LogLines => EndsIn(Append(s, x), x)
<1>1. /\ Append(s, x) \in Seq(Lines) /\ Len(s) \in Nat /\ Len(Append(s, x)) = Len(s) + 1
      /\ \A i \in 1..Len(s) : Append(s, x)[i] = s[i]
      /\ Append(s, x)[Len(s) + 1] = x
  BY AppendProperties, LenProperties
<1>2. \A i \in 1..Len(Append(s, x)) : i = Len(s) + 1 \/ i \in 1..Len(s)
  BY <1>1
<1> QED  BY <1>1, <1>2 DEF AllLogs, EndsIn

LEMMA SomeLogGrows ==
    ASSUME NEW s \in Seq(Lines), NEW x \in Lines, NEW y
    PROVE  /\ Among(y, s) => Among(y, Append(s, x))
           /\ Among(x, Append(s, x))
<1>1. /\ Len(s) \in Nat /\ Len(Append(s, x)) = Len(s) + 1
      /\ \A i \in 1..Len(s) : Append(s, x)[i] = s[i]
      /\ Append(s, x)[Len(s) + 1] = x
  BY AppendProperties, LenProperties
<1>2. /\ \A i \in 1..Len(s) : i \in 1..Len(Append(s, x))
      /\ Len(s) + 1 \in 1..Len(Append(s, x))
  BY <1>1
<1> QED  BY <1>1, <1>2 DEF Among

LEMMA HeardLog ==
    ASSUME NEW s \in Seq(Lines), s # <<>>, Head(s) \in LogLines
    PROVE  /\ AllLogs(s) => AllLogs(Tail(s))
           /\ \A x \in Lines \ LogLines : EndsIn(s, x) => EndsIn(Tail(s), x)
           /\ \A y : Among(y, s) => Head(s) = y \/ Among(y, Tail(s))
<1>1. /\ Head(s) = s[1] /\ Len(Tail(s)) = Len(s) - 1 /\ Len(s) \in Nat /\ Len(s) # 0
      /\ \A i \in 1..Len(Tail(s)) : Tail(s)[i] = s[i + 1]
  BY HeadTailProperties, LenProperties, EmptySeq
<1>2. /\ \A i \in 1..Len(Tail(s)) : i + 1 \in 1..Len(s)
      /\ \A i \in 1..Len(s) : i = 1 \/ (i - 1 \in 1..Len(Tail(s)) /\ (i - 1) + 1 = i)
  BY <1>1
<1>3. AllLogs(s) => AllLogs(Tail(s))
  BY <1>1, <1>2 DEF AllLogs
<1>4. ASSUME NEW x \in Lines \ LogLines, EndsIn(s, x)
      PROVE  EndsIn(Tail(s), x)
  <2>1. s[Len(s)] = x /\ Len(s) # 1
    BY <1>1, <1>4 DEF EndsIn
  <2>2. /\ Len(Tail(s)) # 0 /\ Len(Tail(s)) \in 1..Len(Tail(s))
        /\ Len(Tail(s)) + 1 = Len(s)
        /\ \A i \in 1..Len(Tail(s)) : i # Len(Tail(s)) => i + 1 # Len(s)
    <3>1. \A n \in Nat : n # 0 /\ n # 1 => /\ n - 1 # 0 /\ n - 1 \in 1..(n - 1)
                                            /\ (n - 1) + 1 = n
                                            /\ \A i \in 1..(n - 1) : i # n - 1 => i + 1 # n
      OBVIOUS
    <3>2. Len(s) \in Nat /\ Len(s) # 0 /\ Len(s) # 1 /\ Len(Tail(s)) = Len(s) - 1
      BY <1>1, <2>1
    <3> QED  BY <3>1, <3>2, Zenon
  <2>3. Tail(s)[Len(Tail(s))] = x
    BY <1>1, <2>1, <2>2
  <2> QED  BY <1>1, <1>2, <1>4, <2>2, <2>3 DEF EndsIn
<1>5. ASSUME NEW y, Among(y, s)
      PROVE  Head(s) = y \/ Among(y, Tail(s))
  <2>1. PICK i \in 1..Len(s) : s[i] = y
    BY <1>5 DEF Among
  <2>2. CASE i = 1
    BY <1>1, <2>1, <2>2
  <2>3. CASE i - 1 \in 1..Len(Tail(s)) /\ (i - 1) + 1 = i
    BY <1>1, <2>1, <2>3 DEF Among
  <2> QED  BY <1>2, <2>2, <2>3
<1> QED  BY <1>3, <1>4, <1>5

(* What ends in a line that is no log line and begins with one is one line *)
LEMMA HeardLast ==
    ASSUME NEW s \in Seq(Lines), s # <<>>, Head(s) \notin LogLines, NEW x, EndsIn(s, x)
    PROVE  Head(s) = x /\ \A y : Among(y, s) => y = x
<1>1. Head(s) = s[1] /\ Len(s) \in Nat /\ Len(s) # 0
  BY HeadTailProperties, LenProperties, EmptySeq
<1>2. 1 \in 1..Len(s)
  BY <1>1
<1>3. Len(s) = 1
  BY <1>1, <1>2 DEF EndsIn
<1>4. \A i \in 1..Len(s) : i = 1
  BY <1>3
<1> QED  BY <1>1, <1>3, <1>4 DEF EndsIn, Among

(* On a connection nothing befalls, _send_line adds its line, or a LOG     *)
(* line says no more than the one before it.                               *)
LEMMA SentClean ==
    ASSUME NEW line \in Lines, WireTypeOK, Sent(line), clean', tail = "",
           daemonOpen, clientOpen
    PROVE  /\ clean /\ tail' = ""
           /\ down' = Append(down, line) \/ (line = "log" /\ down' = down)
BY DEF Sent, Queued, Glued

LEMMA SentKeeps ==
    ASSUME NEW line \in Lines, WireTypeOK, Sent(line), clean'
    PROVE  /\ clean
           /\ ~clientOpen => UNCHANGED <<down, tail>>
BY DEF Sent, WireTypeOK

LEMMA ExchangeInit == RemoteInit => ExchangeInv
<1> SUFFICES ASSUME RemoteInit PROVE ExchangeInv
  OBVIOUS
<1>1. /\ client = "resolve" /\ reply = "none" /\ daemon = "none" /\ displaced = FALSE
      /\ up = "nothing" /\ down = <<>> /\ tail = "" /\ clientOpen = FALSE
      /\ at = "validate" /\ told = FALSE
  BY Zenon DEF RemoteInit, Init
<1>2. ClientPhases
  BY <1>1 DEF ClientPhases
<1>3. DaemonPhases
  BY <1>1 DEF DaemonPhases
<1>4. Orderly /\ Settled
  BY <1>1 DEF Orderly, Settled
<1> QED  BY <1>2, <1>3, <1>4, HonestInit DEF ExchangeInv

-----------------------------------------------------------------------------
(* What the handler leaves alone, and where its steps begin.               *)
LEMMA HandlerFrame ==
    ASSUME Handler
    PROVE  /\ UNCHANGED <<client, reply, warned, verdict, up, clientOpen, config>>
           /\ daemon \notin {"none", "done"} /\ daemon' # "none"
<1>1. CASE Accept \/ CommandRead \/ CommandUnread \/ Admitted \/ PayloadRead
             \/ PayloadRaises \/ DigestOk \/ TempFile
  BY <1>1 DEF Silently, clientVars, wireVars, Accept, CommandRead, CommandUnread, Admitted,
       PayloadRead, PayloadRaises, DigestOk, TempFile
<1>2. CASE AuthRefused \/ Refused \/ Busy \/ OkSend \/ PayloadShort \/ DigestBad \/ Concluded
  BY <1>2 DEF Saying, clientVars, AuthRefused, Refused, Busy, OkSend, PayloadShort, DigestBad,
       Concluded
<1>3. CASE Claimed \/ Raises \/ FlashStep \/ Closed
  BY <1>3 DEF Claimed, Raises, FlashStep, Closed, clientVars, daemonVars, wireVars
<1> QED  BY <1>1, <1>2, <1>3 DEF Handler

LEMMA ClientPhasesStep ==
    ASSUME ExchangeInv, [RemoteNext]_allVars
    PROVE  ClientPhases'
<1> USE DEF ExchangeInv, ClientPhases
<1>1. CASE Handler
  <2>1. /\ UNCHANGED <<client, reply, up, clientOpen>>
        /\ client \notin {"resolve", "connect"}
    BY <1>1, HandlerFrame
  <2> QED  BY <2>1
<1>2. CASE Unreachable \/ SendFails \/ HearEnd \/ TimesOut
  BY <1>2 DEF Unreachable, SendFails, HearEnd, TimesOut, Returns
<1>3. CASE Resolved
  BY <1>3 DEF Resolved, daemonVars, wireVars
<1>9. CASE Connected
  BY <1>9 DEF Connected
<1>4. CASE SendHeader \/ SendPayload
  BY <1>4 DEF SendHeader, SendPayload, Sends
<1>5. CASE HearReply
  BY <1>5 DEF HearReply, Returns
<1>6. CASE HearLine
  BY <1>6 DEF HearLine, Returns
<1>7. CASE Departure \/ Cut
  <2>1. /\ UNCHANGED <<client, reply, up, clientOpen, daemon>>
        /\ client \notin {"resolve", "connect"}
    BY <1>7 DEF Departure, Cut, clientVars, daemonVars
  <2> QED  BY <2>1
<1>8. CASE UNCHANGED allVars
  BY <1>8 DEF allVars, clientVars, daemonVars, wireVars
<1> QED  BY <1>1, <1>2, <1>3, <1>4, <1>5, <1>6, <1>7, <1>8, <1>9 DEF RemoteNext, Caller, Ended

(* flash_hex goes on, and never back to where it has yet to touch a board. *)
LEMMA HexLeavesValidate ==
    ASSUME FlashStep
    PROVE  at' # "validate"
BY DEF FlashStep, Validate, Flash, Retry, Erase, Reflash, Reset, Decided

LEMMA DaemonPhasesStep ==
    ASSUME ExchangeInv, [RemoteNext]_allVars
    PROVE  DaemonPhases'
<1> USE DEF ExchangeInv, DaemonPhases
<1>1. CASE Accept \/ CommandRead \/ CommandUnread \/ Admitted \/ PayloadRead
             \/ PayloadRaises \/ DigestOk \/ TempFile
  BY <1>1 DEF Silently, clientVars, wireVars, hexVars, vars, Accept, CommandRead,
       CommandUnread, Admitted, PayloadRead, PayloadRaises, DigestOk, TempFile, Acceptable
<1>2. CASE AuthRefused \/ Refused \/ Busy \/ OkSend \/ PayloadShort \/ DigestBad \/ Concluded
  <2>1. UNCHANGED <<displaced, up, at, told>>
    BY <1>2 DEF Saying, hexVars, vars, AuthRefused, Refused, Busy, OkSend,
         PayloadShort, DigestBad, Concluded
  <2>2. daemon' = "close" \/ (daemon = "send" /\ daemon' = "payload")
    BY <1>2 DEF Saying, AuthRefused, Refused, Busy, OkSend, PayloadShort, DigestBad, Concluded
  <2> QED  BY <2>1, <2>2
<1>3. CASE Claimed \/ Raises \/ Closed
  BY <1>3 DEF Claimed, Raises, Closed, clientVars, wireVars, hexVars, vars
<1>4. CASE FlashStep
  BY <1>4, HexLeavesValidate DEF FlashStep, clientVars, daemonVars, HonestInv, SentInTime
<1>5. CASE Caller \/ TimesOut
  <2>1. UNCHANGED <<displaced, at, told>>
    BY <1>5 DEF Caller, Unreachable, Resolved, Connected, SendHeader, SendPayload, Sends,
         SendFails, HearReply, HearLine, HearEnd, TimesOut, hexVars, vars, daemonVars
  <2>2. CASE Connected
    <3>1. UNCHANGED up /\ daemon' = "backlog" /\ daemon = "none"
      BY <2>2 DEF Connected, ClientPhases
    <3> QED  BY <2>1, <3>1
  <2>3. CASE ~Connected
    <3>1. UNCHANGED daemon
      BY <1>5, <2>3 DEF Caller, Unreachable, Resolved, SendHeader, SendPayload, Sends,
           SendFails, HearReply, HearLine, HearEnd, TimesOut, daemonVars
    <3>2. UNCHANGED up \/ (up \notin {"whole", "corrupt"} /\ daemon \notin {"verify", "tempfile", "pyocd"})
      BY <1>5, <2>3 DEF Caller, Unreachable, Resolved, SendHeader, SendPayload, Sends,
           SendFails, HearReply, HearLine, HearEnd, TimesOut, wireVars, ClientPhases
    <3> QED  BY <2>1, <3>1, <3>2
  <2> QED  BY <2>2, <2>3
<1>6. CASE Departure \/ Cut
  <2>1. UNCHANGED <<displaced, daemon, up, at, told>>
    BY <1>6 DEF Departure, Cut, daemonVars, hexVars, vars
  <2> QED  BY <2>1
<1>7. CASE UNCHANGED allVars
  BY <1>7 DEF allVars, clientVars, daemonVars, wireVars, hexVars, vars
<1> QED  BY <1>1, <1>2, <1>3, <1>4, <1>5, <1>6, <1>7 DEF RemoteNext, Handler, Ended

-----------------------------------------------------------------------------
(* Each step of the handler takes an exchange nothing befalls on, as the   *)
(* client expects.                                                         *)
LEMMA SilentOrderly ==
    ASSUME ExchangeInv, clean', clientOpen',
           \/ Accept \/ CommandRead \/ CommandUnread \/ Admitted
           \/ PayloadRead \/ PayloadRaises \/ DigestOk \/ TempFile
    PROVE  Expected'
<1>1. UNCHANGED <<warned, up, down, tail, clientOpen, daemonOpen, clean, displaced, at, rc, told>>
  BY DEF Silently, clientVars, wireVars, hexVars, vars, Accept, CommandRead, CommandUnread,
     Admitted, PayloadRead, PayloadRaises, DigestOk, TempFile
<1>2. Expected /\ DaemonPhases
  BY <1>1 DEF ExchangeInv, Orderly
<1>3. \/ daemon = "backlog" /\ daemon' = "command"
      \/ daemon = "command" /\ daemon' \in {"guards", "close"}
      \/ daemon = "guards" /\ daemon' = "claim"
      \/ daemon = "payload" /\ daemon' = "verify" /\ up \in {"whole", "corrupt"}
      \/ daemon = "verify" /\ daemon' = "tempfile"
      \/ daemon = "tempfile" /\ daemon' = "pyocd"
  <2>1. CASE PayloadRaises
    BY <1>2, <2>1 DEF PayloadRaises, Silently, Expected
  <2>2. CASE ~PayloadRaises
    BY <2>2 DEF Silently, Accept, CommandRead, CommandUnread, Admitted, PayloadRead,
       DigestOk, TempFile
  <2> QED  BY <2>1, <2>2
<1>4. daemon' \notin {"none", "done"} /\ daemon # "done"
  BY <1>3
<1>5. CASE up \in {"nothing", "header"}
  <2>1. BeforeOk
    BY <1>2, <1>5 DEF Expected, Awaited
  <2>2. daemon \in {"backlog", "command", "guards"} /\ ~displaced
    BY <1>2, <1>3, <1>5 DEF DaemonPhases
  <2>3. down = <<>> /\ daemon' \in {"command", "guards", "claim", "close"}
    BY <1>3, <2>1, <2>2 DEF BeforeOk
  <2>4. BeforeOk'
    BY <1>1, <2>2, <2>3 DEF BeforeOk
  <2> QED  BY <1>1, <1>2, <1>4, <1>5, <2>4 DEF Expected, Awaited, BlankUnderWay
<1>6. CASE up \notin {"nothing", "header"}
  <2>1. AfterOk
    BY <1>2, <1>6 DEF Expected, Awaited
  <2>2. down = <<>> /\ daemon' \in {"verify", "tempfile", "pyocd"}
    BY <1>3, <2>1 DEF AfterOk
  <2>3. AllLogs(down)
    BY <2>2, NoLine DEF AllLogs
  <2>4. AfterOk'
    BY <1>1, <2>2, <2>3 DEF AfterOk, AllLogs
  <2> QED  BY <1>1, <1>2, <1>4, <1>6, <2>4 DEF Expected, Awaited, BlankUnderWay
<1> QED  BY <1>5, <1>6

LEMMA SayingOrderly ==
    ASSUME ExchangeInv, clean', clientOpen',
           \/ AuthRefused \/ Refused \/ Busy \/ OkSend
           \/ PayloadShort \/ DigestBad \/ Concluded
    PROVE  Expected'
<1>1. UNCHANGED <<warned, up, clientOpen, daemonOpen, displaced, at, rc, told>>
  BY DEF Saying, clientVars, hexVars, vars, AuthRefused, Refused, Busy, OkSend,
     PayloadShort, DigestBad, Concluded
<1>2. PICK line \in {"ERR", "OK send", "OK flashed"} :
        /\ Sent(line)
        /\ \/ daemon \in {"command", "guards", "claim"} /\ daemon' = "close" /\ line = "ERR"
           \/ daemon = "send" /\ daemon' = "payload" /\ line = "OK send"
           \/ daemon \in {"payload", "verify"} /\ daemon' = "close" /\ line = "ERR"
           \/ daemon = "pyocd" /\ at = "returned" /\ daemon' = "close" /\ line = Outcome
  BY DEF Saying, AuthRefused, Refused, Busy, OkSend, PayloadShort, DigestBad, Concluded,
     Outcome
<1>3. line \in Lines /\ line \notin LogLines /\ line # "log"
  BY DEF Lines, LogLines
<1>4. WireTypeOK /\ DaemonPhases
  BY DEF ExchangeInv, HonestInv, RemoteTypeOK
<1>5. clean /\ clientOpen
  BY <1>1, <1>2, <1>3, <1>4, SentKeeps
<1>6. Expected
  BY <1>5 DEF ExchangeInv, Orderly
<1>7. daemon' \notin {"none", "done"} /\ daemon # "done"
  BY <1>2
<1>8. tail = "" /\ daemonOpen
  BY <1>6, <1>7 DEF Expected
<1>9. tail' = "" /\ down' = Append(down, line)
  BY <1>2, <1>3, <1>4, <1>5, <1>8, SentClean
<1>10. down \in Seq(Lines)
  BY <1>4 DEF WireTypeOK
<1>11. BlankUnderWay'
  <2>1. Among("blank", down) => Among("blank", down')
    BY <1>3, <1>9, <1>10, SomeLogGrows
  <2> QED  BY <1>1, <1>6, <1>9, <2>1 DEF Expected, BlankUnderWay
<1>12. CASE up \in {"nothing", "header"}
  <2>1. BeforeOk
    BY <1>6, <1>12 DEF Expected, Awaited
  <2>5. daemon \in {"command", "guards", "claim", "send", "payload"}
    BY <1>2, <1>4, <1>12 DEF DaemonPhases
  <2>6. BeforeOk'
    <3>2. CASE daemon \in {"command", "guards", "claim"}
      <4>1. daemon' = "close" /\ line = "ERR" /\ ~displaced /\ down = <<>>
        BY <1>2, <1>4, <2>1, <3>2 DEF DaemonPhases, BeforeOk
      <4>2. down' = <<"ERR">>
        BY <1>3, <1>9, <4>1, ShortLines
      <4> QED  BY <1>1, <4>1, <4>2 DEF BeforeOk, Awaited
    <3>3. CASE daemon = "send"
      <4>1. daemon' = "payload" /\ line = "OK send" /\ down = <<>>
        BY <1>2, <2>1, <3>3 DEF BeforeOk
      <4>2. down' = <<"OK send">>
        BY <1>3, <1>9, <4>1, ShortLines
      <4> QED  BY <4>1, <4>2 DEF BeforeOk
    <3>4. CASE daemon = "payload"
      <4>1. daemon' = "close" /\ line = "ERR" /\ down = <<"OK send">>
        BY <1>2, <2>1, <3>4 DEF BeforeOk
      <4>2. down' = <<"OK send", "ERR">>
        BY <1>3, <1>9, <4>1, TwoLines DEF Lines
      <4> QED  BY <4>1, <4>2 DEF BeforeOk
    <3> QED  BY <2>5, <3>2, <3>3, <3>4
  <2> QED  BY <1>1, <1>7, <1>8, <1>9, <1>11, <1>12, <2>6 DEF Expected, Awaited
<1>13. CASE up \notin {"nothing", "header"}
  <2>1. AfterOk
    BY <1>6, <1>13 DEF Expected, Awaited
  <2>2. AllLogs(down)
    BY <1>2, <2>1, NoLine DEF AfterOk, AllLogs
  <2>3. EndsIn(down', line)
    BY <1>3, <1>9, <1>10, <2>2, LogsGrow
  <2>4. daemon' = "close" /\ line = IF at = "returned" /\ rc = 0 THEN "OK flashed" ELSE "ERR"
    BY <1>2, <1>4, <2>1 DEF AfterOk, DaemonPhases, Outcome
  <2>5. AfterOk'
    BY <1>1, <2>3, <2>4 DEF AfterOk, EndsIn
  <2> QED  BY <1>1, <1>7, <1>8, <1>9, <1>11, <1>13, <2>5 DEF Expected, Awaited
<1> QED  BY <1>12, <1>13

LEMMA FlashOrderly ==
    ASSUME ExchangeInv, clean', clientOpen', FlashStep
    PROVE  Expected'
<1>1. /\ UNCHANGED <<warned, daemon, up, clientOpen, daemonOpen>>
      /\ daemon = "pyocd" /\ at # "returned" /\ Logged(at)
  BY DEF FlashStep, clientVars, daemonVars
<1>2. /\ UNCHANGED <<down, tail, clean>> \/ \E line \in LogLines : Sent(line)
      /\ told' # told => Sent("blank")
  <2>1. told' # told => Sent("blank")
    <3>1. at = "validate" => told' = told
      BY DEF FlashStep, Validate, Flash, Retry, Erase, Reflash, Reset
    <3> QED  BY <1>1, <3>1 DEF Logged
  <2>2. told' = told => UNCHANGED <<down, tail, clean>> \/ Sent("log")
    BY <1>1 DEF Logged
  <2>3. "log" \in LogLines /\ "blank" \in LogLines
    BY DEF LogLines
  <2> QED  BY <2>1, <2>2, <2>3
<1>3. \A line \in LogLines : line \in Lines
  BY DEF Lines
<1>4. WireTypeOK /\ DaemonPhases
  BY DEF ExchangeInv, HonestInv, RemoteTypeOK
<1>5. clean /\ clientOpen
  BY <1>1, <1>2, <1>3, <1>4, SentKeeps
<1>6. Expected
  BY <1>5 DEF ExchangeInv, Orderly
<1>7. tail = "" /\ daemonOpen /\ up \notin {"nothing", "header"}
  BY <1>1, <1>4, <1>6 DEF Expected, DaemonPhases
<1>8. down \in Seq(Lines) /\ AllLogs(down)
  BY <1>1, <1>4, <1>6, <1>7 DEF WireTypeOK, Expected, Awaited, AfterOk
<1>9. /\ tail' = ""
      /\ down' = down \/ \E line \in LogLines : down' = Append(down, line)
      /\ told' # told => down' = Append(down, "blank")
  <2>1. /\ tail' = ""
        /\ down' = down \/ \E line \in LogLines : down' = Append(down, line)
    BY <1>2, <1>3, <1>4, <1>5, <1>7, SentClean
  <2>2. told' # told => down' = Append(down, "blank")
    <3>1. "blank" \in Lines /\ "blank" # "log"
      BY DEF Lines, LogLines
    <3> QED  BY <1>2, <1>4, <1>5, <1>7, <3>1, SentClean
  <2> QED  BY <2>1, <2>2
<1>10. AllLogs(down')
  BY <1>3, <1>8, <1>9, LogsGrow
<1>11. AfterOk'
  BY <1>1, <1>10 DEF AfterOk, AllLogs
<1>12. BlankUnderWay'
  <2>1. CASE told' # told
    <3>1. "blank" \in Lines
      BY DEF Lines, LogLines
    <3>2. Among("blank", down')
      BY <1>8, <1>9, <2>1, <3>1, SomeLogGrows
    <3> QED  BY <3>2 DEF BlankUnderWay
  <2>2. CASE told' = told
    <3>1. Among("blank", down) => Among("blank", down')
      BY <1>3, <1>8, <1>9, SomeLogGrows
    <3> QED  BY <1>1, <1>6, <2>2, <3>1 DEF Expected, BlankUnderWay
  <2> QED  BY <2>1, <2>2
<1> QED  BY <1>1, <1>6, <1>7, <1>9, <1>11, <1>12 DEF Expected, Awaited

LEMMA HandlerOrderly ==
    ASSUME ExchangeInv, clean', clientOpen', Handler
    PROVE  Expected'
<1>1. CASE Accept \/ CommandRead \/ CommandUnread \/ Admitted
              \/ PayloadRead \/ PayloadRaises \/ DigestOk \/ TempFile
  BY <1>1, SilentOrderly
<1>2. CASE AuthRefused \/ Refused \/ Busy \/ OkSend \/ PayloadShort \/ DigestBad \/ Concluded
  BY <1>2, SayingOrderly
<1>3. CASE FlashStep
  BY <1>3, FlashOrderly
<1>4. CASE Raises
  BY <1>4 DEF Raises
<1>5. CASE Claimed
  <2>1. /\ UNCHANGED <<warned, up, down, tail, clientOpen, daemonOpen, clean, told>>
        /\ daemon = "claim" /\ daemon' = "send"
    BY <1>5 DEF Claimed, clientVars, wireVars, hexVars, vars
  <2>2. Expected
    BY <2>1 DEF ExchangeInv, Orderly
  <2>3. up \in {"nothing", "header"} /\ BeforeOk
    BY <2>1, <2>2 DEF Expected, Awaited, AfterOk
  <2>4. BeforeOk'
    BY <2>1, <2>3 DEF BeforeOk
  <2> QED  BY <2>1, <2>2, <2>3, <2>4 DEF Expected, Awaited, BlankUnderWay
<1>6. CASE Closed
  <2>1. /\ UNCHANGED <<warned, up, down, tail, clientOpen, clean, displaced, at, rc, told>>
        /\ daemon = "close" /\ daemon' = "done" /\ daemonOpen' = FALSE
    BY <1>6 DEF Closed, clientVars, hexVars, vars
  <2>2. Expected
    BY <2>1 DEF ExchangeInv, Orderly
  <2>3. up \in {"nothing", "header"} => BeforeOk'
    BY <2>1, <2>2 DEF BeforeOk, Expected, Awaited
  <2>4. up \notin {"nothing", "header"} => AfterOk'
    BY <2>1, <2>2 DEF AfterOk, EndsIn, Expected, Awaited
  <2> QED  BY <2>1, <2>2, <2>3, <2>4 DEF Expected, Awaited, BlankUnderWay
<1> QED  BY <1>1, <1>2, <1>3, <1>4, <1>5, <1>6 DEF Handler

(* While the client stays, what it hears is the head of what is under way. *)
LEMMA CallerOrderly ==
    ASSUME ExchangeInv, clean', clientOpen', Caller \/ TimesOut
    PROVE  Expected'
<1>1. CASE Unreachable \/ SendFails \/ HearEnd \/ TimesOut
  BY <1>1 DEF Unreachable, SendFails, HearEnd, TimesOut, Returns
<1>2. CASE Resolved
  BY <1>2 DEF Resolved, wireVars, ExchangeInv, ClientPhases
<1>3. CASE Connected
  <2>1. /\ client = "connect" /\ daemon' = "backlog" /\ daemonOpen' = TRUE
        /\ UNCHANGED <<up, down, tail, told>>
    BY <1>3 DEF Connected, hexVars, vars
  <2>2. up = "nothing" /\ down = <<>> /\ tail = "" /\ daemon = "none"
    BY <2>1 DEF ExchangeInv, ClientPhases
  <2>3. ~told
    BY <2>2 DEF ExchangeInv, DaemonPhases
  <2>4. BeforeOk'
    BY <2>1, <2>2 DEF BeforeOk
  <2> QED  BY <2>1, <2>2, <2>3, <2>4 DEF Expected, Awaited, BlankUnderWay
<1>4. CASE SendHeader \/ SendPayload
  <2>1. /\ UNCHANGED <<warned, daemon, displaced, down, tail, clientOpen, daemonOpen, clean,
                       at, rc, told>>
        /\ \/ client = "header" /\ up' = "header"
           \/ client = "upload" /\ up' \in {"whole", "corrupt"}
    BY <1>4 DEF SendHeader, SendPayload, Sends, clientVars, daemonVars, hexVars, vars
  <2>2. Expected
    BY <2>1 DEF ExchangeInv, Orderly
  <2>3. up' \in {"nothing", "header"} <=> up \in {"nothing", "header"}
    BY <2>1 DEF ExchangeInv, ClientPhases
  <2>4. up \in {"nothing", "header"} => BeforeOk'
    BY <2>1, <2>2 DEF BeforeOk, Expected, Awaited
  <2>5. up \notin {"nothing", "header"} => AfterOk'
    BY <2>1, <2>2 DEF AfterOk, AllLogs, EndsIn, Expected, Awaited
  <2> QED  BY <2>1, <2>2, <2>3, <2>4, <2>5 DEF Expected, Awaited, BlankUnderWay
<1>5. CASE HearReply
  <2>1. /\ client = "reply" /\ down # <<>> /\ Head(down) = "OK send"
        /\ up' = "part" /\ down' = Tail(down)
        /\ UNCHANGED <<warned, daemon, displaced, clientOpen, tail, daemonOpen, clean,
                       at, rc, told>>
    BY <1>5 DEF HearReply, Returns, daemonVars, hexVars, vars
  <2>2. Expected
    BY <2>1 DEF ExchangeInv, Orderly
  <2>3. up = "header" /\ BeforeOk
    BY <2>1, <2>2 DEF Expected, Awaited, ExchangeInv, ClientPhases
  <2>4. "OK send" \in Lines /\ "ERR" \in Lines /\ "ERR" \notin LogLines
    BY DEF Lines, LogLines
  <2>5. at = "validate" /\ ~told
    BY <2>3 DEF ExchangeInv, DaemonPhases
  <2>6. down # <<"ERR">>
    BY <2>1, <2>4, ShortLines
  <2>7. \/ daemon = "payload" /\ down = <<"OK send">>
        \/ daemon \in {"close", "done"} /\ down = <<"OK send", "ERR">>
    <3>1. daemon \in {"payload", "close", "done"}
      BY <2>1, <2>2, <2>3 DEF Expected, BeforeOk, DaemonPhases, ExchangeInv, HonestInv,
         RemoteTypeOK, DaemonTypeOK
    <3> QED  BY <2>1, <2>3, <2>6, <3>1 DEF BeforeOk
  <2>8. AfterOk'
    <3>1. CASE daemon = "payload" /\ down = <<"OK send">>
      <4>1. down' = <<>>
        BY <2>1, <2>4, <3>1, ShortLines
      <4> QED  BY <2>1, <3>1, <4>1 DEF AfterOk
    <3>2. CASE daemon \in {"close", "done"} /\ down = <<"OK send", "ERR">>
      <4>1. down' = <<"ERR">>
        BY <2>1, <2>4, <3>2, TwoLines
      <4>2. EndsIn(<<"ERR">>, "ERR")
        <5>1. /\ <<"ERR">> = Append(<<>>, "ERR") /\ AllLogs(<<>>) /\ <<>> \in Seq(Lines)
          BY <2>4, ShortLines, NoLine DEF AllLogs
        <5> QED  BY <2>4, <5>1, LogsGrow
      <4>3. EndsIn(down', "ERR")
        BY <4>1, <4>2
      <4> QED  BY <2>1, <2>5, <3>2, <4>3 DEF AfterOk, EndsIn
    <3> QED  BY <2>7, <3>1, <3>2
  <2> QED  BY <2>1, <2>2, <2>5, <2>8 DEF Expected, Awaited, BlankUnderWay
<1>6. CASE HearLine
  <2>1. /\ client = "listen" /\ down # <<>> /\ Head(down) \in LogLines
        /\ down' = Tail(down) /\ warned' = (warned \/ Head(down) = "blank")
        /\ UNCHANGED <<daemon, displaced, up, clientOpen, tail, daemonOpen, clean, at, rc, told>>
    BY <1>6 DEF HearLine, IsLog, Returns, daemonVars, hexVars, vars
  <2>2. Expected
    BY <2>1 DEF ExchangeInv, Orderly
  <2>3. up \in {"whole", "corrupt"} /\ AfterOk /\ BlankUnderWay
    BY <2>1, <2>2 DEF Expected, Awaited, ExchangeInv, ClientPhases
  <2>4. down \in Seq(Lines)
    BY DEF ExchangeInv, HonestInv, RemoteTypeOK, WireTypeOK
  <2>5. /\ AllLogs(down) => AllLogs(down')
        /\ \A x \in Lines \ LogLines : EndsIn(down, x) => EndsIn(down', x)
        /\ Among("blank", down) => Head(down) = "blank" \/ Among("blank", down')
    BY <2>1, <2>4, HeardLog
  <2>6. {"ERR", "OK flashed"} \subseteq Lines \ LogLines
    BY DEF Lines, LogLines
  <2>7. daemon \in {"pyocd", "close", "done"}
    BY <2>1, <2>3 DEF AfterOk
  <2>8. AfterOk'
    <3>1. daemon = "pyocd" => AllLogs(down')
      BY <2>3, <2>5 DEF AfterOk
    <3>2. daemon \in {"close", "done"} =>
            IF at = "returned" /\ rc = 0 THEN EndsIn(down', "OK flashed") ELSE EndsIn(down', "ERR")
      BY <2>3, <2>5, <2>6 DEF AfterOk
    <3> QED  BY <2>1, <2>7, <3>1, <3>2 DEF AfterOk, AllLogs, EndsIn
  <2>9. BlankUnderWay'
    BY <2>1, <2>3, <2>5 DEF BlankUnderWay
  <2> QED  BY <2>1, <2>2, <2>3, <2>8, <2>9 DEF Expected, Awaited
<1> QED  BY <1>1, <1>2, <1>3, <1>4, <1>5, <1>6 DEF Caller

(* Once the handler is past what the client waited for, it only closes.    *)
LEMMA HandlerSettled ==
    ASSUME ExchangeInv, Handler
    PROVE  Settled'
<1> SUFFICES ASSUME client' = "done", clean' PROVE Settled'
  BY DEF Settled
<1>1. /\ UNCHANGED <<client, reply, warned, verdict, up>> /\ client = "done"
      /\ daemon \notin {"none", "done"}
  BY HandlerFrame
<1>2. clean
  <2>1. CASE Accept \/ CommandRead \/ CommandUnread \/ Admitted
              \/ PayloadRead \/ PayloadRaises \/ DigestOk \/ TempFile \/ Claimed \/ Closed
    BY <2>1 DEF Accept, CommandRead, CommandUnread, Admitted, PayloadRead, PayloadRaises,
         DigestOk, TempFile, Silently, wireVars, Claimed, Closed
  <2>2. CASE AuthRefused \/ Refused \/ Busy \/ OkSend \/ PayloadShort \/ DigestBad \/ Concluded
    <3>1. PICK line \in {"ERR", "OK send", "OK flashed"} : Sent(line)
      BY <2>2 DEF Saying, AuthRefused, Refused, Busy, OkSend, PayloadShort, DigestBad,
           Concluded, Outcome
    <3>2. line \in Lines
      BY DEF Lines
    <3> QED  BY <3>1, <3>2, SentKeeps DEF ExchangeInv, HonestInv, RemoteTypeOK
  <2>3. CASE Raises
    BY <2>3 DEF Raises
  <2>4. CASE FlashStep
    <3>1. UNCHANGED clean \/ Sent("log") \/ Sent("blank")
      BY <2>4 DEF FlashStep, Logged
    <3>2. "log" \in Lines /\ "blank" \in Lines
      BY DEF Lines, LogLines
    <3> QED  BY <3>1, <3>2, SentKeeps DEF ExchangeInv, HonestInv, RemoteTypeOK
  <2> QED  BY <2>1, <2>2, <2>3, <2>4 DEF Handler
<1>3. CASE Closed
  BY <1>1, <1>2, <1>3 DEF Closed, hexVars, vars, ExchangeInv, Settled
<1>4. CASE ~Closed
  <2>1. daemon # "close"
    BY <1>4 DEF Handler, Accept, AuthRefused, CommandRead, CommandUnread, Refused, Admitted,
         Busy, Claimed, OkSend, PayloadRead, PayloadShort, PayloadRaises, DigestOk, DigestBad,
         TempFile, Raises, FlashStep, Concluded, Silently, Saying
  <2>2. up # "whole" /\ ~(up = "header" /\ reply = "ERR")
    BY <1>1, <1>2, <2>1 DEF ExchangeInv, Settled
  <2> QED  BY <1>1, <2>2 DEF Settled
<1> QED  BY <1>3, <1>4

LEMMA CallerSettled ==
    ASSUME ExchangeInv, Caller \/ TimesOut
    PROVE  Settled'
<1> SUFFICES ASSUME client' = "done", clean' PROVE Settled'
  BY DEF Settled
<1>1. CASE Unreachable \/ SendFails
  <2>1. UNCHANGED up /\ client \in {"resolve", "connect", "header", "upload"}
    BY <1>1 DEF Unreachable, SendFails
  <2>2. up' \in {"nothing", "part"}
    BY <2>1 DEF ExchangeInv, ClientPhases
  <2> QED  BY <2>2 DEF Settled
<1>2. CASE HearEnd
  <2>1. /\ UNCHANGED <<up, reply, clean>> /\ clean /\ down = <<>> /\ ~daemonOpen
        /\ client \in {"reply", "listen"}
    BY <1>2 DEF HearEnd
  <2>2. CASE client = "reply"
    BY <2>1, <2>2 DEF ExchangeInv, ClientPhases, Settled
  <2>3. CASE client = "listen"
    <3>1. clientOpen /\ up \in {"whole", "corrupt"}
      BY <2>3 DEF ExchangeInv, ClientPhases
    <3>2. daemon = "done" /\ AfterOk
      BY <2>1, <3>1 DEF ExchangeInv, Orderly, Expected, Awaited
    <3>3. Len(down) # 0
      BY <3>2 DEF AfterOk, EndsIn
    <3> QED  BY <2>1, <3>3, EmptySeq
  <2> QED  BY <2>1, <2>2, <2>3
<1>3. CASE TimesOut
  BY <1>3 DEF TimesOut
<1>4. CASE Resolved \/ Connected \/ SendHeader \/ SendPayload
  BY <1>4 DEF Resolved, Connected, SendHeader, SendPayload, Sends
<1>5. CASE HearReply
  <2>1. /\ client = "reply" /\ down # <<>> /\ reply' = Head(down) /\ clean
        /\ UNCHANGED <<up, daemon, displaced>>
    BY <1>5 DEF HearReply, daemonVars
  <2>2. clientOpen /\ up = "header"
    BY <2>1 DEF ExchangeInv, ClientPhases
  <2>3. BeforeOk
    BY <2>1, <2>2 DEF ExchangeInv, Orderly, Expected, Awaited
  <2>4. Head(<<"OK send">>) = "OK send" /\ Head(<<"OK send", "ERR">>) = "OK send"
    BY ShortLines, TwoLines DEF Lines
  <2>5. daemon \in {"payload", "close", "done"}
    BY <2>1, <2>2, <2>3 DEF ExchangeInv, Orderly, Expected, BeforeOk, DaemonPhases, HonestInv,
       RemoteTypeOK, DaemonTypeOK
  <2>6. Head(down) = "ERR" => daemon \in {"close", "done"} /\ ~displaced
    BY <2>1, <2>3, <2>4, <2>5 DEF BeforeOk
  <2> QED  BY <2>1, <2>2, <2>6 DEF Settled
<1>6. CASE HearLine
  <2>1. /\ client = "listen" /\ down # <<>> /\ Head(down) \notin LogLines /\ clean
        /\ warned' = (warned \/ Head(down) = "blank")
        /\ verdict' = IF Head(down) = "OK flashed" THEN 0 ELSE 1
        /\ UNCHANGED <<up, daemon, at, rc, told>>
    BY <1>6 DEF HearLine, IsLog, Returns, ExchangeInv, ClientPhases, daemonVars, hexVars, vars
  <2>2. clientOpen /\ up \in {"whole", "corrupt"}
    BY <2>1 DEF ExchangeInv, ClientPhases
  <2>3. AfterOk /\ BlankUnderWay
    BY <2>1, <2>2 DEF ExchangeInv, Orderly, Expected, Awaited
  <2>4. down \in Seq(Lines)
    BY DEF ExchangeInv, HonestInv, RemoteTypeOK, WireTypeOK
  <2>5. Head(down) = down[1] /\ 1 \in 1..Len(down)
    BY <2>1, <2>4, TailLine
  <2>6. daemon \in {"close", "done"}
    BY <2>1, <2>3, <2>5 DEF AfterOk, AllLogs
  <2>7. PICK last : /\ EndsIn(down, last) /\ last \in {"OK flashed", "ERR"}
                    /\ at = "returned" /\ rc = 0 => last = "OK flashed"
    BY <2>3, <2>6 DEF AfterOk
  <2>8. Head(down) = last /\ ~Among("blank", down)
    <3>1. Head(down) = last /\ \A y : Among(y, down) => y = last
      BY <2>1, <2>4, <2>7, HeardLast, Zenon
    <3> QED  BY <2>7, <3>1
  <2> QED  BY <2>1, <2>2, <2>3, <2>6, <2>7, <2>8 DEF BlankUnderWay, Settled
<1> QED  BY <1>1, <1>2, <1>3, <1>4, <1>5, <1>6 DEF Caller

LEMMA ExchangeStep == ExchangeInv /\ [RemoteNext]_allVars => ExchangeInv'
<1> SUFFICES ASSUME ExchangeInv, [RemoteNext]_allVars PROVE ExchangeInv'
  OBVIOUS
<1>1. HonestInv'
  BY HonestStep DEF ExchangeInv
<1>2. Orderly' /\ Settled'
  <2>1. CASE Handler
    BY <2>1, HandlerOrderly, HandlerSettled DEF Orderly
  <2>2. CASE Caller \/ TimesOut
    BY <2>2, CallerOrderly, CallerSettled DEF Orderly
  <2>3. CASE Departure
    BY <2>3 DEF Departure, clientVars, daemonVars, hexVars, vars, ExchangeInv, Orderly, Settled
  <2>4. CASE Cut
    BY <2>4 DEF Cut, Orderly, Settled
  <2>5. CASE UNCHANGED allVars
    <3>1. UNCHANGED <<client, reply, warned, verdict, daemon, displaced, up, down, tail,
                      clientOpen, daemonOpen, clean, at, rc, told>>
      BY <2>5 DEF allVars, clientVars, daemonVars, wireVars, hexVars, vars
    <3>2. Settled'
      BY <3>1 DEF ExchangeInv, Settled
    <3>3. Orderly'
      BY <3>1 DEF ExchangeInv, Orderly, Expected, Awaited, BeforeOk, AfterOk, BlankUnderWay,
           AllLogs, EndsIn, Among
    <3> QED  BY <3>2, <3>3
  <2> QED  BY <2>1, <2>2, <2>3, <2>4, <2>5 DEF RemoteNext, Ended
<1> QED  BY <1>1, <1>2, ClientPhasesStep, DaemonPhasesStep DEF ExchangeInv

LEMMA ExchangeInvariance == RemoteSpec => []ExchangeInv
BY ExchangeInit, ExchangeStep, PTL DEF RemoteSpec

(* On a connection nothing befell the exit code is the daemon's outcome: a *)
(* board that was flashed is never reported as a failure, nor the reverse. *)
THEOREM ExitCodeAgrees == RemoteSpec => []VerdictAgrees
<1>1. ExchangeInv => VerdictAgrees
  BY DEF ExchangeInv, HonestInv, SentInTime, Flashed, DaemonPhases, Settled, VerdictAgrees
<1> QED  BY <1>1, ExchangeInvariance, PTL

(* "so a remote operator over deploy --remote sees it too" (flash.py:217): *)
(* the message about the blank board was among the lines under way until   *)
(* the client read it, and the client reads on until the line that follows.*)
THEOREM BlankIsHeard == RemoteSpec => []BlankReachesOperator
<1>1. ExchangeInv => BlankReachesOperator
  BY DEF ExchangeInv, DaemonPhases, Settled, BlankReachesOperator
<1> QED  BY <1>1, ExchangeInvariance, PTL

(* A FLASH that is answered by an error leaves the board alone: flash_hex  *)
(* is not begun, and nobody's session was ended for it.                    *)
THEOREM RefusalIsHarmless == RemoteSpec => []RefusalHarmless
<1>1. ExchangeInv => RefusalHarmless
  BY DEF ExchangeInv, DaemonPhases, Settled, RefusalHarmless
<1> QED  BY <1>1, ExchangeInvariance, PTL

(* An upload that is refused, torn, corrupted or cut short costs the board *)
(* nothing: until every byte the client read has arrived, pyocd has not    *)
(* been started on it, whatever has befallen the connection.               *)
THEOREM BoardWaitsForPayload ==
    RemoteSpec => [](up # "whole" => attempts = 0 /\ erase = "none")
<1>1. ExchangeInv /\ IInv => (up # "whole" => attempts = 0 /\ erase = "none")
  BY DEF ExchangeInv, DaemonPhases, IInv, Progress
<1>2. RemoteSpec => []IInv
  BY ExchangeImplementsFlashHex, Invariance, PTL
<1> QED  BY <1>1, <1>2, ExchangeInvariance, PTL
=============================================================================
