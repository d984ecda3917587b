--------------------------- MODULE SerialPipeProofs ---------------------------
(***************************************************************************)
(* Proofs about SerialPipe, for any number of bytes and any room on the    *)
(* way. The inductive invariant PipeInv accounts for every byte: what was  *)
(* written, is in the hands of the relay's main loop and is under way up   *)
(* is, in this order, the beginning of what was typed, and all of it while *)
(* the connection lasts; likewise what the user has, what SocketSerial     *)
(* buffers, what is under way down and in the hands of the reader thread,  *)
(* and what the board said. Every operation moves bytes across one of the  *)
(* boundaries in these concatenations, or loses some for good.             *)
(***************************************************************************)
EXTENDS SerialPipe, SequenceTheorems, TLAPS

-----------------------------------------------------------------------------
(* Prefixes                                                                *)

(* Element by element.                                                     *)
LEMMA PrefixPointwise ==
    ASSUME NEW S, NEW s \in Seq(S), NEW t \in Seq(S)
    PROVE  IsPrefix(s, t) <=> Len(s) <= Len(t) /\ \A i \in 1..Len(s) : s[i] = t[i]
<1>1. Len(s) \in Nat /\ Len(t) \in Nat
  BY LenProperties
<1>2. SubSeq(s, 1, Len(s)) = s
  BY SubSeqFull
<1> SUFFICES ASSUME Len(s) <= Len(t)
             PROVE  s = SubSeq(t, 1, Len(s)) <=> \A i \in 1..Len(s) : s[i] = t[i]
  BY <1>2 DEF IsPrefix
<1> DEFINE r == SubSeq(t, 1, Len(s))
<1>3. r \in Seq(S) /\ Len(r) = Len(s) /\ \A i \in 1..Len(s) : r[i] = t[i]
  <2>1. \A i \in 1..Len(s) : t[i] \in S
    BY <1>1, ElementOfSeq
  <2>2. Len(s) - 1 + 1 = Len(s) /\ (1 <= Len(s) \/ Len(s) = 0)
    BY <1>1
  <2>3. \A i \in 1..Len(s) : 1 + i - 1 = i
    BY <1>1
  <2>4. /\ r \in Seq(S)
        /\ Len(r) = IF 1 <= Len(s) THEN Len(s) - 1 + 1 ELSE 0
        /\ \A i \in 1..(Len(s) - 1 + 1) : r[i] = t[1 + i - 1]
    BY <1>1, <2>1, SubSeqProperties
  <2> QED  BY <2>2, <2>3, <2>4
<1> HIDE DEF r
<1>4. (\A i \in 1..Len(s) : s[i] = t[i]) => s = r
  BY <1>3, SeqEqual
<1> QED  BY <1>3, <1>4 DEF r

LEMMA PrefixOfConcat ==
    ASSUME NEW S, NEW s \in Seq(S), NEW t \in Seq(S)
    PROVE  IsPrefix(s, s \o t)
<1>1. Len(s) \in Nat /\ Len(t) \in Nat
  BY LenProperties
<1>2. s \o t \in Seq(S) /\ Len(s \o t) = Len(s) + Len(t)
      /\ \A i \in 1..Len(s) : (s \o t)[i] = s[i]
  <2>1. \A i \in 1..Len(s) : i \in 1..(Len(s) + Len(t)) /\ i <= Len(s)
    BY <1>1
  <2> QED  BY <2>1, ConcatProperties
<1>3. Len(s) <= Len(s \o t)
  BY <1>1, <1>2
<1> QED  BY <1>2, <1>3, PrefixPointwise

LEMMA PrefixTransitive ==
    ASSUME NEW S, NEW s \in Seq(S), NEW t \in Seq(S), NEW u \in Seq(S),
           IsPrefix(s, t), IsPrefix(t, u)
    PROVE  IsPrefix(s, u)
<1>1. Len(s) \in Nat /\ Len(t) \in Nat /\ Len(u) \in Nat
  BY LenProperties
<1>2. Len(s) <= Len(t) /\ \A i \in 1..Len(s) : s[i] = t[i]
  BY PrefixPointwise
<1>3. Len(t) <= Len(u) /\ \A i \in 1..Len(t) : t[i] = u[i]
  BY PrefixPointwise
<1>4. Len(s) <= Len(u) /\ \A i \in 1..Len(s) : s[i] = u[i]
  BY <1>1, <1>2, <1>3
<1> QED  BY <1>4, PrefixPointwise

LEMMA PrefixReflexive ==
    ASSUME NEW S, NEW s \in Seq(S)
    PROVE  IsPrefix(s, s) /\ IsPrefix(<<>>, s)
<1>1. Len(s) \in Nat
  BY LenProperties
<1>2. <<>> \in Seq(S) /\ Len(<<>>) = 0
  BY EmptySeq
<1>3. IsPrefix(s, s)
  BY <1>1, PrefixPointwise
<1>4. IsPrefix(<<>>, s)
  <2>1. Len(<<>>) <= Len(s) /\ \A i \in 1..Len(<<>>) : <<>>[i] = s[i]
    BY <1>1, <1>2
  <2> QED  BY <1>2, <2>1, PrefixPointwise
<1> QED  BY <1>3, <1>4

(* Of a prefix, its own beginning; of a sequence, what grew at its end.    *)
LEMMA PrefixShorter ==
    ASSUME NEW S, NEW s \in Seq(S), NEW t \in Seq(S), NEW u \in Seq(S),
           IsPrefix(s \o t, u)
    PROVE  IsPrefix(s, u)
BY ConcatProperties, PrefixOfConcat, PrefixTransitive

LEMMA PrefixLonger ==
    ASSUME NEW S, NEW s \in Seq(S), NEW t \in Seq(S), NEW u \in Seq(S),
           IsPrefix(s, t)
    PROVE  IsPrefix(s, t \o u)
BY ConcatProperties, PrefixOfConcat, PrefixTransitive

(* What a send or a read takes, and what it leaves.                        *)
LEMMA FrontAndAfter ==
    ASSUME NEW S, NEW s \in Seq(S), NEW data \in Fronts(s)
    PROVE  /\ data \in Seq(S) /\ After(s, Len(data)) \in Seq(S)
           /\ s = data \o After(s, Len(data))
           /\ Len(data) <= Len(s) /\ Len(After(s, Len(data))) <= Len(s)
<1>1. PICK n \in 0..Len(s) : data = SubSeq(s, 1, n)
  BY DEF Fronts
<1>2. Len(s) \in Nat /\ n \in Nat /\ n <= Len(s) /\ Len(s) + 1 \in Int
  BY LenProperties
<1>3. \A i \in 1..Len(s) : s[i] \in S
  BY ElementOfSeq
<1>4. data \in Seq(S) /\ Len(data) = n
  <2>1. \A i \in 1..n : s[i] \in S
    BY <1>2, <1>3
  <2>2. data \in Seq(S) /\ Len(data) = IF 1 <= n THEN n - 1 + 1 ELSE 0
    BY <1>1, <1>2, <2>1, SubSeqProperties
  <2> QED  BY <1>2, <2>2
<1>5. After(s, n) \in Seq(S) /\ Len(After(s, n)) <= Len(s)
  <2>1. \A i \in (n + 1)..Len(s) : s[i] \in S
    BY <1>2, <1>3
  <2>2. /\ After(s, n) \in Seq(S)
        /\ Len(After(s, n)) = IF n + 1 <= Len(s) THEN Len(s) - (n + 1) + 1 ELSE 0
    BY <1>2, <2>1, SubSeqProperties DEF After
  <2> QED  BY <1>2, <2>2
<1>6. SubSeq(s, 1, n) \o SubSeq(s, n + 1, Len(s)) = SubSeq(s, 1, Len(s))
  <2>1. 1 \in 1..(Len(s) + 1) /\ n \in (1 - 1)..Len(s) /\ Len(s) \in n..Len(s)
    BY <1>2
  <2> QED  BY <2>1, ConcatAdjacentSubSeq
<1>7. s = data \o After(s, n)
  BY <1>1, <1>6, SubSeqFull DEF After
<1> QED  BY <1>2, <1>4, <1>5, <1>7

LEMMA HeadAndTail ==
    ASSUME NEW S, NEW s \in Seq(S), s # <<>>
    PROVE  /\ Head(s) \in S /\ Tail(s) \in Seq(S) /\ <<Head(s)>> \in Seq(S)
           /\ s = <<Head(s)>> \o Tail(s)
<1>1. Len(s) \in Nat /\ Len(s) # 0
  BY EmptySeq, LenProperties
<1>2. Head(s) \in S /\ Tail(s) \in Seq(S)
  BY HeadTailProperties
<1>3. SubSeq(s, 1, Len(s)) = <<s[1]>> \o SubSeq(s, 2, Len(s))
  <2>1. 1 \in 1..Len(s) /\ Len(s) \in 1..Len(s)
    BY <1>1
  <2>2. SubSeq(s, 1, Len(s)) = <<s[1]>> \o SubSeq(s, 1 + 1, Len(s))
    BY <2>1, SubSeqRecursiveFirst
  <2> QED  BY <2>2
<1>4. Head(s) = s[1]
  OBVIOUS
<1> QED  BY <1>2, <1>3, <1>4, SubSeqFull, TailIsSubSeq

LEMMA AppendedIsConcat ==
    ASSUME NEW S, NEW s \in Seq(S), NEW x \in S
    PROVE  Append(s, x) = s \o <<x>> /\ <<x>> \in Seq(S)
<1>1. Append(s, x) = s \o <<x>>
  BY AppendIsConcat
<1>2. <<x>> \in Seq(S)
  OBVIOUS
<1> QED  BY <1>1, <1>2

-----------------------------------------------------------------------------
(* What stands, at any time, between what went in and what came out.       *)

ClientControl ==
    /\ main \in {"peek", "session", "reset", "command", "listen", "drain",
                 "join", "close", "done"}
    /\ reader \in {"none", "poll", "read", "ended"}
    /\ eof \in BOOLEAN /\ stopped \in BOOLEAN /\ clientOpen \in BOOLEAN

DaemonControl ==
    /\ relay \in {"open", "recv", "write", "join", "port", "close", "done"}
    /\ pump \in {"none", "read", "send", "ended"}
    /\ stop \in BOOLEAN /\ connOpen \in BOOLEAN

EventTypes ==
    events \subseteq {"client left", "port gone", "terminated", "stalled", "cut", "refused"}

ControlTypes == ClientControl /\ DaemonControl /\ EventTypes

InNumber(s, n) == s \in {Upto(k) : k \in 0..n}

UpTypes ==
    /\ InNumber(typed, Types)
    /\ written \in Seq(Bytes) /\ taken \in Seq(Bytes)
    /\ up \in Seq(Bytes) /\ Len(up) <= Room

DownTypes ==
    /\ InNumber(said, Says)
    /\ unread \in Seq(Bytes) /\ load \in Seq(Bytes)
    /\ down \in Seq(Bytes) /\ Len(down) <= Room
    /\ buf \in Seq(Bytes) /\ dropped \in Seq(Bytes) /\ shown \in Seq(Bytes)

(* Buffers that are empty at the points where it matters.                  *)
ClientPhases ==
    /\ main \in {"peek", "reset", "command", "listen"} => reader = "none"
    /\ main \in {"peek", "reset"} => shown = <<>>
    /\ main \in {"peek", "reset", "command"} => typed = <<>>
    /\ reader = "none" => buf = <<>>

DaemonPhases ==
    /\ relay # "write" => taken = <<>>
    /\ pump # "send" => load = <<>>
    /\ relay = "open" => pump = "none" /\ said = <<>> /\ unread = <<>>
    /\ relay = "open" => "refused" \notin events
    /\ "refused" \in events => relay \in {"close", "done"} /\ pump = "none" /\ said = <<>>

NothingYet ==
    relay = "open" => down = <<>> /\ buf = <<>> /\ dropped = <<>> /\ shown = <<>>

Phases == ClientPhases /\ DaemonPhases /\ NothingYet

InSession == main \in {"peek", "session", "drain", "reset", "command", "listen"}
Receiving == relay \in {"open", "recv", "write"}

(* What was typed is written, in the relay's hands, under way, or lost; it *)
(* is lost only behind a connection, a relay or a client that has ended.   *)
UpInv ==
    /\ IsPrefix(written, typed)
    /\ Receiving => IsPrefix((written \o taken) \o up, typed)
    /\ Receiving /\ connOpen /\ InSession => (written \o taken) \o up = typed

Heard   == (dropped \o shown) \o buf
Source  == IF "refused" \in events THEN <<0>> ELSE said
Pumping == clientOpen /\ connOpen /\ pump # "ended"

(* The same of what the board said.                                        *)
DownInv ==
    /\ IsPrefix(Heard \o down, Source)
    /\ Pumping /\ "refused" \notin events => IsPrefix((Heard \o down) \o load, said)
    /\ Pumping /\ PortOpen => ((Heard \o down) \o load) \o unread = said

(* An end has a reason before it is one.                                   *)
Reasons ==
    stop \/ ~connOpen \/ ~clientOpen \/ main = "done"
         \/ relay \in {"join", "port", "close", "done"}
        => events # {}

(* The reader thread does not end without telling the main loop.           *)
EndTold == pump = "ended" => stop

PipeInv == ControlTypes /\ UpTypes /\ DownTypes /\ Phases /\ UpInv /\ DownInv

-----------------------------------------------------------------------------
(* Numbered bytes                                                          *)

LEMMA Numbered ==
    ASSUME NEW n \in Nat
    PROVE  /\ Upto(n) \in Seq(1..n) /\ Len(Upto(n)) = n
           /\ \A i \in 1..n : Upto(n)[i] = i
<1>1. \A i \in 1..n : i \in 1..n
  OBVIOUS
<1>2. Upto(n) \in Seq(1..n)
  BY <1>1, IsASeq DEF Upto
<1>3. Len(Upto(n)) = n
  BY DEF Upto
<1> QED  BY <1>2, <1>3 DEF Upto

LEMMA NumberedBytes ==
    ASSUME NEW limit \in Nat, limit <= Types + Says, NEW s, InNumber(s, limit)
    PROVE  s \in Seq(Bytes) /\ s = Upto(Len(s)) /\ Len(s) \in 0..limit
<1>1. PICK n \in 0..limit : s = Upto(n)
  BY DEF InNumber
<1>2. n \in Nat /\ 1..n \subseteq Bytes
  BY <1>1, PipeAssumption DEF Bytes
<1>3. s \in Seq(1..n) /\ Len(s) = n
  BY <1>1, <1>2, Numbered
<1>4. s \in Seq(Bytes)
  BY <1>2, <1>3, SeqMonotonic
<1> QED  BY <1>1, <1>3, <1>4

LEMMA NextNumber ==
    ASSUME NEW limit \in Nat, limit <= Types + Says, NEW s, InNumber(s, limit),
           Len(s) < limit
    PROVE  /\ InNumber(Append(s, Len(s) + 1), limit)
           /\ Append(s, Len(s) + 1) = s \o <<Len(s) + 1>>
           /\ <<Len(s) + 1>> \in Seq(Bytes) /\ Len(s) + 1 \in Bytes
<1> DEFINE n == Len(s)
<1>1. s \in Seq(Bytes) /\ s = Upto(n) /\ n \in Nat /\ n + 1 \in 0..limit
  BY NumberedBytes
<1>2. n + 1 \in Bytes
  BY <1>1, PipeAssumption DEF Bytes
<1>3. /\ Append(s, n + 1) \in Seq(Bytes) /\ Len(Append(s, n + 1)) = n + 1
      /\ \A i \in 1..n : Append(s, n + 1)[i] = s[i]
      /\ Append(s, n + 1)[n + 1] = n + 1
  BY <1>1, <1>2, AppendProperties
<1>4. /\ Upto(n + 1) \in Seq(Bytes) /\ Len(Upto(n + 1)) = n + 1
      /\ \A i \in 1..(n + 1) : Upto(n + 1)[i] = i
  <2>1. InNumber(Upto(n + 1), limit)
    BY <1>1 DEF InNumber
  <2>2. n + 1 \in Nat
    BY <1>1
  <2> QED  BY <2>1, <2>2, Numbered, NumberedBytes
<1>5. \A i \in 1..n : s[i] = i
  BY <1>1, Numbered
<1> HIDE DEF n
<1>6. \A i \in 1..(n + 1) : Append(s, n + 1)[i] = Upto(n + 1)[i]
  <2> SUFFICES ASSUME NEW i \in 1..(n + 1)
               PROVE  Append(s, n + 1)[i] = Upto(n + 1)[i]
    OBVIOUS
  <2>1. i \in 1..n \/ i = n + 1
    BY <1>1
  <2> QED  BY <1>3, <1>4, <1>5, <2>1
<1>7. Append(s, n + 1) = Upto(n + 1)
  BY <1>3, <1>4, <1>6, SeqEqual
<1>8. InNumber(Append(s, n + 1), limit)
  BY <1>1, <1>7 DEF InNumber
<1> QED  BY <1>1, <1>2, <1>8, AppendedIsConcat DEF n

LEMMA NumberedPrefix ==
    ASSUME NEW limit \in Nat, limit <= Types + Says, NEW s, InNumber(s, limit),
           NEW r \in Seq(Bytes), IsPrefix(r, s)
    PROVE  InNumber(r, limit)
<1> DEFINE n == Len(s)
           m == Len(r)
<1>1. s \in Seq(Bytes) /\ s = Upto(n) /\ n \in 0..limit /\ n \in Nat
  BY NumberedBytes
<1>2. m \in Nat /\ m <= n /\ m \in 0..limit /\ \A i \in 1..m : r[i] = s[i]
  BY <1>1, PrefixPointwise, LenProperties
<1>3. \A i \in 1..n : s[i] = i
  BY <1>1, Numbered
<1>4. InNumber(Upto(m), limit)
  BY <1>2 DEF InNumber
<1>5. Upto(m) \in Seq(Bytes) /\ Len(Upto(m)) = m /\ \A i \in 1..m : Upto(m)[i] = i
  BY <1>2, <1>4, Numbered, NumberedBytes
<1> HIDE DEF n, m
<1>6. \A i \in 1..m : r[i] = Upto(m)[i]
  BY <1>1, <1>2, <1>3, <1>5
<1>7. r = Upto(m)
  BY <1>2, <1>5, <1>6, SeqEqual DEF m
<1> QED  BY <1>4, <1>7

LEMMA Regroup ==
    ASSUME NEW r \in Seq(Bytes), NEW s \in Seq(Bytes), NEW t \in Seq(Bytes)
    PROVE  (r \o s) \o t = r \o (s \o t)
BY ConcatAssociative

(* All the sequences of the model, as sequences of bytes.                  *)
LEMMA ByteSequences ==
    ASSUME UpTypes, DownTypes
    PROVE  /\ typed \in Seq(Bytes) /\ written \in Seq(Bytes) /\ taken \in Seq(Bytes)
           /\ up \in Seq(Bytes) /\ written \o taken \in Seq(Bytes)
           /\ (written \o taken) \o up \in Seq(Bytes)
           /\ said \in Seq(Bytes) /\ unread \in Seq(Bytes) /\ load \in Seq(Bytes)
           /\ down \in Seq(Bytes) /\ buf \in Seq(Bytes) /\ dropped \in Seq(Bytes)
           /\ shown \in Seq(Bytes) /\ dropped \o shown \in Seq(Bytes)
           /\ Heard \in Seq(Bytes) /\ Heard \o down \in Seq(Bytes)
           /\ (Heard \o down) \o load \in Seq(Bytes)
           /\ <<0>> \in Seq(Bytes) /\ <<>> \in Seq(Bytes)
<1>1. typed \in Seq(Bytes) /\ said \in Seq(Bytes)
  <2>1. Types \in Nat /\ Says \in Nat /\ Types <= Types + Says /\ Says <= Types + Says
    BY PipeAssumption
  <2> QED  BY <2>1, NumberedBytes DEF UpTypes, DownTypes
<1>2. 0 \in Bytes
  BY PipeAssumption DEF Bytes
<1>3. <<0>> \in Seq(Bytes) /\ <<>> \in Seq(Bytes)
  BY <1>2
<1>4. written \o taken \in Seq(Bytes) /\ (written \o taken) \o up \in Seq(Bytes)
  BY ConcatProperties DEF UpTypes
<1>5. dropped \o shown \in Seq(Bytes)
  BY ConcatProperties DEF DownTypes
<1>6. Heard \in Seq(Bytes)
  BY <1>5, ConcatProperties DEF DownTypes, Heard
<1>7. Heard \o down \in Seq(Bytes)
  BY <1>6, ConcatProperties DEF DownTypes
<1>8. (Heard \o down) \o load \in Seq(Bytes)
  BY <1>7, ConcatProperties DEF DownTypes
<1> QED  BY <1>1, <1>3, <1>4, <1>5, <1>6, <1>7, <1>8 DEF UpTypes, DownTypes

-----------------------------------------------------------------------------
(* Control points                                                          *)

LEMMA ClientControlStep ==
    ASSUME ClientControl, [Next]_vars
    PROVE  ClientControl'
<1> USE DEF vars, clientVars, readerVars, daemonVars, relayVars, pumpVars, boardVars,
            wireVars
<1>1. CASE Refuse \/ StartRelay \/ Receives
  BY <1>1 DEF ClientControl, Refuse, StartRelay, Receives
<1>2. CASE SeesStop \/ ReceiveEnds \/ Writes
  BY <1>2 DEF ClientControl, SeesStop, ReceiveEnds, LoopEnds, Leaves, Writes
<1>3. CASE Joins \/ ClosesPort \/ ClosesConn
  BY <1>3 DEF ClientControl, Joins, ClosesPort, ClosesConn
<1>4. CASE Pump
  BY <1>4 DEF ClientControl, Pump, PumpSeesStop, PumpEnds, PumpReads, PumpReadFails, PumpSends,
              PumpSendFails
<1>5. CASE BoardSays \/ Unplugged \/ Terminated \/ Cut
  BY <1>5 DEF ClientControl, BoardSays, Unplugged, Terminated, Cut
<1>6. CASE PeekPasses \/ PeekRefused \/ StdinEnds \/ Stops \/ Resets \/ ReadsLine
  BY <1>6 DEF ClientControl, PeekPasses, PeekRefused, MainGoes, StdinEnds, Stops, Resets,
              ReadsLine
<1>7. CASE TypesLine \/ SendsCommand
  BY <1>7 DEF ClientControl, TypesLine, SendsCommand, Sends
<1>8. CASE Deadline \/ JoinsReader \/ ClosesSocket
  BY <1>8 DEF ClientControl, Deadline, JoinsReader, MainGoes, ClosesSocket
<1>9. CASE Polls \/ Reads \/ ReaderStops
  BY <1>9 DEF ClientControl, Polls, Reads, ReaderStops
<1>10. CASE UNCHANGED vars
  BY <1>10 DEF ClientControl
<1> QED  BY <1>1, <1>2, <1>3, <1>4, <1>5, <1>6, <1>7, <1>8, <1>9, <1>10
            DEF Next, RelayMain, ClientMain, ClientReader, Ended

LEMMA DaemonControlStep ==
    ASSUME DaemonControl, [Next]_vars
    PROVE  DaemonControl'
<1> USE DEF vars, clientVars, readerVars, daemonVars, relayVars, pumpVars, boardVars,
            wireVars
<1>1. CASE Refuse \/ StartRelay \/ Receives
  BY <1>1 DEF DaemonControl, Refuse, StartRelay, Receives
<1>2. CASE SeesStop \/ ReceiveEnds \/ Writes
  BY <1>2 DEF DaemonControl, SeesStop, ReceiveEnds, LoopEnds, Leaves, Writes
<1>3. CASE Joins \/ ClosesPort \/ ClosesConn
  BY <1>3 DEF DaemonControl, Joins, ClosesPort, ClosesConn
<1>4. CASE Pump
  BY <1>4 DEF DaemonControl, Pump, PumpSeesStop, PumpEnds, PumpReads, PumpReadFails, PumpSends,
              PumpSendFails
<1>5. CASE BoardSays \/ Unplugged \/ Terminated \/ Cut
  BY <1>5 DEF DaemonControl, BoardSays, Unplugged, Terminated, Cut
<1>6. CASE PeekPasses \/ PeekRefused \/ StdinEnds \/ Stops \/ Resets \/ ReadsLine
  BY <1>6 DEF DaemonControl, PeekPasses, PeekRefused, MainGoes, StdinEnds, Stops, Resets,
              ReadsLine
<1>7. CASE TypesLine \/ SendsCommand
  BY <1>7 DEF DaemonControl, TypesLine, SendsCommand, Sends
<1>8. CASE Deadline \/ JoinsReader \/ ClosesSocket
  BY <1>8 DEF DaemonControl, Deadline, JoinsReader, MainGoes, ClosesSocket
<1>9. CASE Polls \/ Reads \/ ReaderStops
  BY <1>9 DEF DaemonControl, Polls, Reads, ReaderStops
<1>10. CASE UNCHANGED vars
  BY <1>10 DEF DaemonControl
<1> QED  BY <1>1, <1>2, <1>3, <1>4, <1>5, <1>6, <1>7, <1>8, <1>9, <1>10
            DEF Next, RelayMain, ClientMain, ClientReader, Ended

LEMMA EventStep ==
    ASSUME EventTypes, [Next]_vars
    PROVE  EventTypes'
<1> USE DEF vars, clientVars, readerVars, daemonVars, relayVars, pumpVars, boardVars,
            wireVars
<1>1. CASE Refuse \/ StartRelay \/ Receives
  BY <1>1 DEF EventTypes, Refuse, StartRelay, Receives
<1>2. CASE SeesStop \/ ReceiveEnds \/ Writes
  BY <1>2 DEF EventTypes, SeesStop, ReceiveEnds, LoopEnds, Leaves, Writes
<1>3. CASE Joins \/ ClosesPort \/ ClosesConn
  BY <1>3 DEF EventTypes, Joins, ClosesPort, ClosesConn
<1>4. CASE Pump
  BY <1>4 DEF EventTypes, Pump, PumpSeesStop, PumpEnds, PumpReads, PumpReadFails, PumpSends,
              PumpSendFails
<1>5. CASE BoardSays \/ Unplugged \/ Terminated \/ Cut
  BY <1>5 DEF EventTypes, BoardSays, Unplugged, Terminated, Cut
<1>6. CASE PeekPasses \/ PeekRefused \/ StdinEnds \/ Stops \/ Resets \/ ReadsLine
  BY <1>6 DEF EventTypes, PeekPasses, PeekRefused, MainGoes, StdinEnds, Stops, Resets,
              ReadsLine
<1>7. CASE TypesLine \/ SendsCommand
  BY <1>7 DEF EventTypes, TypesLine, SendsCommand, Sends
<1>8. CASE Deadline \/ JoinsReader \/ ClosesSocket
  BY <1>8 DEF EventTypes, Deadline, JoinsReader, MainGoes, ClosesSocket
<1>9. CASE Polls \/ Reads \/ ReaderStops
  BY <1>9 DEF EventTypes, Polls, Reads, ReaderStops
<1>10. CASE UNCHANGED vars
  BY <1>10 DEF EventTypes
<1> QED  BY <1>1, <1>2, <1>3, <1>4, <1>5, <1>6, <1>7, <1>8, <1>9, <1>10
            DEF Next, RelayMain, ClientMain, ClientReader, Ended

LEMMA ReasonStep ==
    ASSUME ControlTypes, Phases, Reasons, [Next]_vars
    PROVE  Reasons'
<1> USE DEF vars, clientVars, readerVars, daemonVars, relayVars, pumpVars, boardVars,
            wireVars, Reasons
<1>1. CASE Refuse \/ StartRelay \/ Receives
  BY <1>1 DEF Refuse, StartRelay, Receives
<1>2. CASE SeesStop \/ ReceiveEnds \/ Writes
  BY <1>2 DEF SeesStop, ReceiveEnds, LoopEnds, Leaves, Writes, PortThere
<1>3. CASE Joins \/ ClosesPort \/ ClosesConn
  BY <1>3 DEF Joins, ClosesPort, ClosesConn
<1>4. CASE PumpSeesStop \/ PumpReads \/ PumpSends
  BY <1>4 DEF PumpSeesStop, PumpEnds, PumpReads, PumpSends
<1>5. CASE PumpReadFails
  BY <1>5 DEF PumpReadFails, PumpEnds, PortOpen, PortThere, Phases, DaemonPhases,
              ControlTypes, DaemonControl
<1>6. CASE PumpSendFails
  BY <1>6 DEF PumpSendFails
<1>7. CASE BoardSays \/ Unplugged \/ Terminated \/ Cut
  BY <1>7 DEF BoardSays, Unplugged, Terminated, Cut
<1>8. CASE PeekPasses \/ PeekRefused \/ StdinEnds \/ Stops \/ Resets \/ ReadsLine
  BY <1>8 DEF PeekPasses, PeekRefused, MainGoes, StdinEnds, Stops, Resets, ReadsLine
<1>9. CASE TypesLine \/ SendsCommand
  BY <1>9 DEF TypesLine, SendsCommand, Sends
<1>10. CASE Deadline \/ JoinsReader \/ ClosesSocket
  BY <1>10 DEF Deadline, JoinsReader, MainGoes, ClosesSocket
<1>11. CASE Polls \/ Reads \/ ReaderStops
  BY <1>11 DEF Polls, Reads, ReaderStops
<1>12. CASE UNCHANGED vars
  BY <1>12
<1> QED  BY <1>1, <1>2, <1>3, <1>4, <1>5, <1>6, <1>7, <1>8, <1>9, <1>10, <1>11, <1>12
            DEF Next, RelayMain, Pump, ClientMain, ClientReader, Ended

LEMMA EndToldStep ==
    ASSUME EndTold, [Next]_vars
    PROVE  EndTold'
<1> USE DEF vars, clientVars, readerVars, daemonVars, relayVars, pumpVars, boardVars,
            wireVars, EndTold
<1>1. CASE Refuse \/ StartRelay \/ Receives
  BY <1>1 DEF Refuse, StartRelay, Receives
<1>2. CASE SeesStop \/ ReceiveEnds \/ Writes
  BY <1>2 DEF SeesStop, ReceiveEnds, LoopEnds, Leaves, Writes
<1>3. CASE Joins \/ ClosesPort \/ ClosesConn
  BY <1>3 DEF Joins, ClosesPort, ClosesConn
<1>4. CASE Pump
  BY <1>4 DEF Pump, PumpSeesStop, PumpEnds, PumpReads, PumpReadFails, PumpSends, PumpSendFails
<1>5. CASE BoardSays \/ Unplugged \/ Terminated \/ Cut
  BY <1>5 DEF BoardSays, Unplugged, Terminated, Cut
<1>6. CASE PeekPasses \/ PeekRefused \/ StdinEnds \/ Stops \/ Resets \/ ReadsLine
  BY <1>6 DEF PeekPasses, PeekRefused, MainGoes, StdinEnds, Stops, Resets, ReadsLine
<1>7. CASE TypesLine \/ SendsCommand
  BY <1>7 DEF TypesLine, SendsCommand, Sends
<1>8. CASE Deadline \/ JoinsReader \/ ClosesSocket
  BY <1>8 DEF Deadline, JoinsReader, MainGoes, ClosesSocket
<1>9. CASE Polls \/ Reads \/ ReaderStops
  BY <1>9 DEF Polls, Reads, ReaderStops
<1>10. CASE UNCHANGED vars
  BY <1>10
<1> QED  BY <1>1, <1>2, <1>3, <1>4, <1>5, <1>6, <1>7, <1>8, <1>9, <1>10
            DEF Next, RelayMain, ClientMain, ClientReader, Ended

LEMMA ClientPhaseStep ==
    ASSUME ControlTypes, ClientPhases, [Next]_vars
    PROVE  ClientPhases'
<1> USE DEF vars, clientVars, readerVars, daemonVars, relayVars, pumpVars, boardVars,
            wireVars, ClientPhases
<1>1. CASE Refuse \/ StartRelay \/ Receives
  BY <1>1 DEF Refuse, StartRelay, Receives
<1>2. CASE SeesStop \/ ReceiveEnds \/ Writes
  BY <1>2 DEF SeesStop, ReceiveEnds, LoopEnds, Leaves, Writes
<1>3. CASE Joins \/ ClosesPort \/ ClosesConn
  BY <1>3 DEF Joins, ClosesPort, ClosesConn
<1>4. CASE Pump
  BY <1>4 DEF Pump, PumpSeesStop, PumpEnds, PumpReads, PumpReadFails, PumpSends, PumpSendFails
<1>5. CASE BoardSays \/ Unplugged \/ Terminated \/ Cut
  BY <1>5 DEF BoardSays, Unplugged, Terminated, Cut
<1>6. CASE PeekPasses \/ PeekRefused \/ StdinEnds \/ Stops \/ Resets \/ ReadsLine
  BY <1>6 DEF PeekPasses, PeekRefused, MainGoes, StdinEnds, Stops, Resets, ReadsLine
<1>7. CASE TypesLine \/ SendsCommand
  BY <1>7 DEF TypesLine, SendsCommand, Sends
<1>8. CASE Deadline \/ JoinsReader \/ ClosesSocket
  BY <1>8 DEF Deadline, JoinsReader, MainGoes, ClosesSocket
<1>9. CASE Polls \/ Reads \/ ReaderStops
  BY <1>9 DEF Polls, Reads, ReaderStops
<1>10. CASE UNCHANGED vars
  BY <1>10
<1> QED  BY <1>1, <1>2, <1>3, <1>4, <1>5, <1>6, <1>7, <1>8, <1>9, <1>10
            DEF Next, RelayMain, ClientMain, ClientReader, Ended

LEMMA DaemonPhaseStep ==
    ASSUME ControlTypes, DaemonPhases, [Next]_vars
    PROVE  DaemonPhases'
<1> USE DEF vars, clientVars, readerVars, daemonVars, relayVars, pumpVars, boardVars,
            wireVars, DaemonPhases, PortOpen, PortThere
<1>1. CASE Refuse \/ StartRelay \/ Receives
  BY <1>1 DEF Refuse, StartRelay, Receives
<1>2. CASE SeesStop \/ ReceiveEnds \/ Writes
  BY <1>2 DEF SeesStop, ReceiveEnds, LoopEnds, Leaves, Writes
<1>3. CASE Joins \/ ClosesPort \/ ClosesConn
  BY <1>3 DEF Joins, ClosesPort, ClosesConn
<1>4. CASE Pump
  BY <1>4 DEF Pump, PumpSeesStop, PumpEnds, PumpReads, PumpReadFails, PumpSends, PumpSendFails
<1>5. CASE BoardSays \/ Unplugged \/ Terminated \/ Cut
  BY <1>5 DEF BoardSays, Unplugged, Terminated, Cut
<1>6. CASE PeekPasses \/ PeekRefused \/ StdinEnds \/ Stops \/ Resets \/ ReadsLine
  BY <1>6 DEF PeekPasses, PeekRefused, MainGoes, StdinEnds, Stops, Resets, ReadsLine
<1>7. CASE TypesLine \/ SendsCommand
  BY <1>7 DEF TypesLine, SendsCommand, Sends
<1>8. CASE Deadline \/ JoinsReader \/ ClosesSocket
  BY <1>8 DEF Deadline, JoinsReader, MainGoes, ClosesSocket
<1>9. CASE Polls \/ Reads \/ ReaderStops
  BY <1>9 DEF Polls, Reads, ReaderStops
<1>10. CASE UNCHANGED vars
  BY <1>10
<1> QED  BY <1>1, <1>2, <1>3, <1>4, <1>5, <1>6, <1>7, <1>8, <1>9, <1>10
            DEF Next, RelayMain, ClientMain, ClientReader, Ended

LEMMA NothingYetStep ==
    ASSUME DownTypes, Phases, [Next]_vars
    PROVE  NothingYet'
<1> USE DEF vars, clientVars, readerVars, daemonVars, relayVars, pumpVars, boardVars,
            wireVars, Phases, DaemonPhases, NothingYet, PortOpen
<1>1. CASE Refuse \/ StartRelay \/ Receives
  BY <1>1 DEF Refuse, StartRelay, Receives
<1>2. CASE SeesStop \/ ReceiveEnds \/ Writes
  BY <1>2 DEF SeesStop, ReceiveEnds, LoopEnds, Leaves, Writes
<1>3. CASE Joins \/ ClosesPort \/ ClosesConn
  BY <1>3 DEF Joins, ClosesPort, ClosesConn
<1>4. CASE Pump
  BY <1>4 DEF Pump, PumpSeesStop, PumpEnds, PumpReads, PumpReadFails, PumpSends, PumpSendFails
<1>5. CASE BoardSays \/ Unplugged \/ Terminated \/ Cut
  BY <1>5 DEF BoardSays, Unplugged, Terminated, Cut
<1>6. CASE PeekPasses \/ PeekRefused \/ StdinEnds \/ Stops \/ Resets \/ ReadsLine
  BY <1>6 DEF PeekPasses, PeekRefused, MainGoes, StdinEnds, Stops, Resets, ReadsLine
<1>7. CASE TypesLine \/ SendsCommand
  BY <1>7 DEF TypesLine, SendsCommand, Sends
<1>8. CASE Deadline \/ JoinsReader \/ ClosesSocket
  BY <1>8 DEF Deadline, JoinsReader, MainGoes, ClosesSocket
<1>9. CASE Polls \/ Reads \/ ReaderStops
  BY <1>9 DEF Polls, Reads, ReaderStops
<1>10. CASE UNCHANGED vars
  BY <1>10
<1> QED  BY <1>1, <1>2, <1>3, <1>4, <1>5, <1>6, <1>7, <1>8, <1>9, <1>10
            DEF Next, RelayMain, ClientMain, ClientReader, Ended

(* The steps in which bytes of the one direction move or are lost.         *)
LEMMA UpFrame ==
    ASSUME [Next]_vars
    PROVE  \/ Receives \/ Writes \/ TypesLine \/ SendsCommand \/ Cut \/ ClosesSocket
           \/ /\ UNCHANGED <<typed, written, taken, up>>
              /\ Receiving' => Receiving
              /\ connOpen' => connOpen
              /\ InSession' => InSession
<1> USE DEF vars, clientVars, readerVars, daemonVars, relayVars, pumpVars, boardVars,
            wireVars, Receiving, InSession
<1>1. CASE Refuse \/ StartRelay
  BY <1>1 DEF Refuse, StartRelay
<1>2. CASE SeesStop \/ ReceiveEnds \/ Writes
  BY <1>2 DEF SeesStop, ReceiveEnds, LoopEnds, Leaves, Writes
<1>3. CASE Joins \/ ClosesPort \/ ClosesConn
  BY <1>3 DEF Joins, ClosesPort, ClosesConn
<1>4. CASE Pump
  BY <1>4 DEF Pump, PumpSeesStop, PumpEnds, PumpReads, PumpReadFails, PumpSends, PumpSendFails
<1>5. CASE BoardSays \/ Unplugged \/ Terminated \/ Cut
  BY <1>5 DEF BoardSays, Unplugged, Terminated, Cut
<1>6. CASE PeekPasses \/ PeekRefused \/ StdinEnds \/ Stops \/ Resets \/ ReadsLine
  BY <1>6 DEF PeekPasses, PeekRefused, MainGoes, StdinEnds, Stops, Resets, ReadsLine
<1>7. CASE TypesLine \/ SendsCommand
  BY <1>7 DEF TypesLine, SendsCommand, Sends
<1>8. CASE Deadline \/ JoinsReader \/ ClosesSocket
  BY <1>8 DEF Deadline, JoinsReader, MainGoes, ClosesSocket
<1>9. CASE Polls \/ Reads \/ ReaderStops
  BY <1>9 DEF Polls, Reads, ReaderStops
<1>10. CASE UNCHANGED vars
  BY <1>10
<1> QED  BY <1>1, <1>2, <1>3, <1>4, <1>5, <1>6, <1>7, <1>8, <1>9, <1>10
            DEF Next, RelayMain, ClientMain, ClientReader, Ended

LEMMA DownFrame ==
    ASSUME [Next]_vars
    PROVE  \/ Refuse \/ StartRelay \/ PumpReads \/ PumpSends \/ PumpSendFails \/ BoardSays
           \/ Cut \/ ClosesConn \/ ClosesSocket
           \/ Resets \/ ReadsLine \/ Polls \/ Reads
           \/ /\ UNCHANGED <<dropped, shown, buf, down, load, said>>
              /\ unread' \in {unread, <<>>}
              /\ "refused" \in events' <=> "refused" \in events
              /\ clientOpen' => clientOpen
              /\ connOpen' => connOpen
              /\ pump' # "ended" => pump # "ended"
              /\ PortOpen' => PortOpen /\ unread' = unread
<1> USE DEF vars, clientVars, readerVars, daemonVars, relayVars, pumpVars, boardVars,
            wireVars, PortOpen, PortThere
<1>1. CASE Refuse \/ StartRelay \/ Receives
  BY <1>1 DEF Refuse, StartRelay, Receives
<1>2. CASE SeesStop \/ ReceiveEnds \/ Writes
  BY <1>2 DEF SeesStop, ReceiveEnds, LoopEnds, Leaves, Writes
<1>3. CASE Joins \/ ClosesPort \/ ClosesConn
  BY <1>3 DEF Joins, ClosesPort, ClosesConn
<1>4. CASE Pump
  BY <1>4 DEF Pump, PumpSeesStop, PumpEnds, PumpReads, PumpReadFails, PumpSends, PumpSendFails
<1>5. CASE Terminated
  <2>1. "refused" \in events' <=> "refused" \in events
    BY <1>5 DEF Terminated
  <2>2. "port gone" \in events' <=> "port gone" \in events
    BY <1>5 DEF Terminated
  <2> QED  BY <1>5, <2>1, <2>2 DEF Terminated
<1>11. CASE Unplugged
  BY <1>11 DEF Unplugged
<1>6. CASE PeekPasses \/ PeekRefused \/ StdinEnds \/ Stops \/ Resets \/ ReadsLine
  BY <1>6 DEF PeekPasses, PeekRefused, MainGoes, StdinEnds, Stops, Resets, ReadsLine
<1>7. CASE TypesLine \/ SendsCommand
  BY <1>7 DEF TypesLine, SendsCommand, Sends
<1>8. CASE Deadline \/ JoinsReader \/ ClosesSocket
  BY <1>8 DEF Deadline, JoinsReader, MainGoes, ClosesSocket
<1>9. CASE Polls \/ Reads \/ ReaderStops
  BY <1>9 DEF Polls, Reads, ReaderStops
<1>10. CASE UNCHANGED vars
  BY <1>10
<1> QED  BY <1>1, <1>2, <1>3, <1>4, <1>5, <1>6, <1>7, <1>8, <1>9, <1>10, <1>11
            DEF Next, RelayMain, ClientMain, ClientReader, Ended

-----------------------------------------------------------------------------
(* From the user to the port                                               *)

(* The two steps that send what was typed.                                 *)
LEMMA SendsNext ==
    ASSUME UpTypes, DownTypes, ClientPhases, TypesLine \/ SendsCommand
    PROVE  \E data \in Seq(Bytes) :
              /\ Len(data) = 1
              /\ typed' = typed \o data /\ InNumber(typed', Types)
              /\ main \in {"session", "command"}
              /\ \/ Len(up) < Room /\ connOpen /\ up' = up \o data
                 \/ ~connOpen /\ up' = up
                 \/ main' \in {"join", "close"} /\ up' = up
              /\ UNCHANGED <<written, taken, relay, connOpen>>
<1> DEFINE data == <<Len(typed) + 1>>
<1>1. Len(typed) < Types
  <2>1. Len(<<>>) = 0
    OBVIOUS
  <2>2. CASE TypesLine
    BY <2>2 DEF TypesLine
  <2>3. CASE SendsCommand
    BY <2>1, <2>3, PipeAssumption DEF SendsCommand, Sends, ClientPhases
  <2> QED  BY <2>2, <2>3
<1>2. /\ data \in Seq(Bytes) /\ typed \o data = Append(typed, Len(typed) + 1)
      /\ InNumber(typed \o data, Types)
  <2>1. Types \in Nat /\ Says \in Nat /\ Types <= Types + Says
    BY PipeAssumption
  <2>2. /\ InNumber(Append(typed, Len(typed) + 1), Types)
        /\ Append(typed, Len(typed) + 1) = typed \o <<Len(typed) + 1>>
        /\ <<Len(typed) + 1>> \in Seq(Bytes)
    BY <1>1, <2>1, NextNumber DEF UpTypes
  <2> QED  BY <2>2
<1>3. Len(data) = 1
  OBVIOUS
<1>4. \/ Sends(data, "session", "session") \/ Sends(data, "command", "listen")
  BY DEF TypesLine, SendsCommand
<1> HIDE DEF data
<1>5. /\ typed' = typed \o data /\ main \in {"session", "command"}
      /\ \/ Len(up) < Room /\ connOpen /\ up' = up \o data
         \/ ~connOpen /\ up' = up
         \/ main' \in {"join", "close"} /\ up' = up
      /\ UNCHANGED <<written, taken, relay, connOpen>>
  BY <1>4 DEF Sends, daemonVars, relayVars, boardVars
<1> QED  BY <1>2, <1>3, <1>5

LEMMA UpTypesStep ==
    ASSUME UpTypes, DownTypes, Phases, [Next]_vars
    PROVE  UpTypes'
<1> USE DEF vars, clientVars, daemonVars, relayVars, boardVars, wireVars
<1>1. CASE Receives
  <2>1. PICK data \in Fronts(up) : taken' = data /\ up' = After(up, Len(data))
    BY <1>1 DEF Receives
  <2>2. /\ data \in Seq(Bytes) /\ After(up, Len(data)) \in Seq(Bytes)
        /\ Len(After(up, Len(data))) <= Len(up)
    BY FrontAndAfter DEF UpTypes
  <2>3. Len(After(up, Len(data))) \in Nat /\ Len(up) \in Nat
    BY <2>2, LenProperties DEF UpTypes
  <2>4. Len(up') <= Room
    BY <2>1, <2>2, <2>3, PipeAssumption DEF UpTypes
  <2>5. UNCHANGED <<typed, written>>
    BY <1>1 DEF Receives
  <2> QED  BY <2>1, <2>2, <2>4, <2>5 DEF UpTypes, InNumber
<1>2. CASE Writes
  <2>1. UNCHANGED <<typed, up>> /\ taken' = <<>> /\ written' \in {written, written \o taken}
    BY <1>2 DEF Writes
  <2>2. written \o taken \in Seq(Bytes) /\ <<>> \in Seq(Bytes)
    BY ByteSequences
  <2> QED  BY <2>1, <2>2 DEF UpTypes, InNumber
<1>3. CASE TypesLine \/ SendsCommand
  <2>1. PICK data \in Seq(Bytes) :
              /\ Len(data) = 1
              /\ InNumber(typed', Types)
              /\ (Len(up) < Room /\ up' = up \o data) \/ up' = up
              /\ UNCHANGED <<written, taken>>
    BY <1>3, SendsNext DEF Phases
  <2>2. up \in Seq(Bytes) /\ Len(up) \in Nat /\ Len(up) <= Room /\ Room \in Nat
    BY LenProperties, PipeAssumption DEF UpTypes
  <2>3. up \o data \in Seq(Bytes) /\ Len(up \o data) = Len(up) + Len(data)
    BY <2>2, ConcatProperties
  <2>4. Len(up) < Room => Len(up \o data) <= Room
    BY <2>1, <2>2, <2>3
  <2>5. up' \in Seq(Bytes) /\ Len(up') <= Room
    BY <2>1, <2>2, <2>3, <2>4
  <2> QED  BY <2>1, <2>5 DEF UpTypes
<1>4. CASE Cut \/ ClosesSocket
  <2>1. UNCHANGED <<typed, written, taken>> /\ up' \in {up, <<>>}
    BY <1>4 DEF Cut, ClosesSocket
  <2>2. <<>> \in Seq(Bytes) /\ Len(<<>>) <= Room
    BY PipeAssumption, ByteSequences
  <2> QED  BY <2>1, <2>2 DEF UpTypes, InNumber
<1>5. CASE UNCHANGED <<typed, written, taken, up>>
  BY <1>5 DEF UpTypes, InNumber
<1> QED  BY <1>1, <1>2, <1>3, <1>4, <1>5, UpFrame

(* Nothing is typed and sent past what was lost.                           *)
LEMMA UpStep ==
    ASSUME UpTypes, DownTypes, Phases, UpInv, [Next]_vars
    PROVE  UpInv'
<1> USE DEF vars, clientVars, daemonVars, relayVars, boardVars, wireVars
<1>0. /\ typed \in Seq(Bytes) /\ written \in Seq(Bytes) /\ taken \in Seq(Bytes)
      /\ up \in Seq(Bytes) /\ written \o taken \in Seq(Bytes)
      /\ (written \o taken) \o up \in Seq(Bytes)
  BY ByteSequences
<1>1. CASE Receives
  <2>1. PICK data \in Fronts(up) : taken' = data /\ up' = After(up, Len(data))
    BY <1>1 DEF Receives
  <2>2. UNCHANGED <<typed, written, connOpen, main>> /\ Receiving /\ taken = <<>>
    BY <1>1 DEF Receives, Receiving, Phases, DaemonPhases
  <2>3. data \in Seq(Bytes) /\ up' \in Seq(Bytes) /\ up = data \o up'
    BY <1>0, <2>1, FrontAndAfter
  <2>4. (written' \o taken') \o up' = (written \o taken) \o up
    <3>0. written \in Seq(Bytes) /\ data \in Seq(Bytes) /\ up' \in Seq(Bytes)
      BY <1>0, <2>3
    <3>1. (written \o data) \o up' = written \o (data \o up')
      BY <3>0, Regroup
    <3>2. written \o taken = written
      BY <1>0, <2>2, ConcatEmptySeq
    <3> QED  BY <2>1, <2>2, <2>3, <3>1, <3>2
  <2> QED  BY <2>2, <2>4 DEF UpInv, InSession
<1>2. CASE Writes
  <2>1. UNCHANGED <<typed, up, connOpen, main>> /\ taken' = <<>> /\ Receiving
    BY <1>2 DEF Writes, Receiving
  <2>2. IsPrefix(written \o taken, typed)
    BY <1>0, <2>1, PrefixShorter DEF UpInv
  <2>3. CASE written' = written \o taken
    <3>1. (written' \o taken') \o up' = (written \o taken) \o up
      BY <1>0, <2>1, <2>3, ConcatEmptySeq
    <3> QED  BY <2>1, <2>2, <2>3, <3>1 DEF UpInv, InSession
  <2>4. CASE written' = written /\ ~Receiving'
    BY <2>1, <2>4 DEF UpInv
  <2> QED  BY <1>2, <2>3, <2>4 DEF Writes, Leaves, Receiving
<1>3. CASE TypesLine \/ SendsCommand
  <2>1. PICK data \in Seq(Bytes) :
              /\ typed' = typed \o data
              /\ main \in {"session", "command"}
              /\ \/ connOpen /\ up' = up \o data
                 \/ ~connOpen /\ up' = up
                 \/ main' \in {"join", "close"} /\ up' = up
              /\ UNCHANGED <<written, taken, relay, connOpen>>
    BY <1>3, SendsNext DEF Phases
  <2>2. InSession /\ Receiving' = Receiving
    BY <2>1 DEF InSession, Receiving
  <2>3. typed \o data \in Seq(Bytes)
    BY <1>0, ConcatProperties
  <2>4. IsPrefix(written', typed')
    BY <1>0, <2>1, PrefixLonger DEF UpInv
  <2>5. CASE ~Receiving
    BY <2>2, <2>4, <2>5 DEF UpInv
  <2>6. CASE Receiving /\ connOpen /\ up' = up \o data
    <3>1. (written \o taken) \o up = typed
      BY <2>2, <2>6 DEF UpInv
    <3>2. (written' \o taken') \o up' = typed'
      <4> DEFINE w == written \o taken
      <4>1. w \in Seq(Bytes)
        BY <1>0
      <4> HIDE DEF w
      <4>2. w \in Seq(Bytes) /\ up \in Seq(Bytes) /\ data \in Seq(Bytes)
        BY <1>0, <4>1
      <4>3. (w \o up) \o data = w \o (up \o data)
        BY <4>2, Regroup
      <4> QED  BY <2>1, <2>6, <3>1, <4>3 DEF w
    <3>3. IsPrefix((written' \o taken') \o up', typed')
      BY <2>1, <2>3, <3>2, PrefixReflexive
    <3> QED  BY <2>4, <3>2, <3>3 DEF UpInv
  <2>7. CASE Receiving /\ up' = up /\ (~connOpen \/ main' \in {"join", "close"})
    <3>1. IsPrefix((written' \o taken') \o up', typed')
      BY <1>0, <2>1, <2>7, PrefixLonger DEF UpInv
    <3>2. ~(connOpen' /\ InSession')
      BY <2>1, <2>7 DEF InSession
    <3> QED  BY <2>4, <3>1, <3>2 DEF UpInv
  <2> QED  BY <2>1, <2>5, <2>6, <2>7
<1>4. CASE Cut \/ ClosesSocket
  <2>1. /\ UNCHANGED <<typed, written, taken, relay>> /\ up' \in {up, <<>>}
        /\ ~(connOpen' /\ InSession')
    BY <1>4 DEF Cut, ClosesSocket, InSession
  <2>2. Receiving => IsPrefix(written \o taken, typed)
    BY <1>0, PrefixShorter DEF UpInv
  <2>3. (written \o taken) \o <<>> = written \o taken
    BY <1>0, ConcatEmptySeq
  <2>4. Receiving' = Receiving
    BY <2>1 DEF Receiving
  <2>5. Receiving' => IsPrefix((written' \o taken') \o up', typed')
    BY <2>1, <2>2, <2>3, <2>4 DEF UpInv
  <2> QED  BY <2>1, <2>5 DEF UpInv
<1>5. CASE /\ UNCHANGED <<typed, written, taken, up>>
           /\ Receiving' => Receiving
           /\ connOpen' => connOpen
           /\ InSession' => InSession
  BY <1>5 DEF UpInv
<1> QED  BY <1>1, <1>2, <1>3, <1>4, <1>5, UpFrame

-----------------------------------------------------------------------------
(* From the board to the user                                              *)

(* What the client does with bytes keeps them in order.                    *)
LEMMA ClientMoves ==
    ASSUME UpTypes, DownTypes, Phases, Resets \/ ReadsLine \/ Polls \/ Reads
    PROVE  /\ dropped' \in Seq(Bytes) /\ shown' \in Seq(Bytes) /\ buf' \in Seq(Bytes)
           /\ down' \in Seq(Bytes) /\ Len(down') <= Len(down)
           /\ Heard' \o down' = Heard \o down
           /\ UNCHANGED <<said, unread, load, events, clientOpen, connOpen, pump, relay>>
<1> USE DEF daemonVars, relayVars, pumpVars, boardVars, readerVars
<1>0. /\ down \in Seq(Bytes) /\ buf \in Seq(Bytes) /\ dropped \in Seq(Bytes)
      /\ shown \in Seq(Bytes) /\ dropped \o shown \in Seq(Bytes)
      /\ Heard \in Seq(Bytes) /\ <<>> \in Seq(Bytes)
      /\ Len(<<>>) = 0 /\ Len(down) \in Nat
  BY ByteSequences, LenProperties
<1>1. UNCHANGED <<said, unread, load, events, clientOpen, connOpen, pump, relay>>
  BY DEF Resets, ReadsLine, Polls, Reads
<1> DEFINE d == dropped \o shown
<1>2. d \in Seq(Bytes)
  BY <1>0
<1>3. CASE Resets
  <2>1. /\ dropped' = (dropped \o buf) \o down /\ down' = <<>>
        /\ UNCHANGED <<shown, buf>> /\ shown = <<>> /\ buf = <<>>
    BY <1>3 DEF Resets, Phases, ClientPhases
  <2>2. dropped' = dropped \o down /\ dropped' \in Seq(Bytes)
    BY <1>0, <2>1, ConcatEmptySeq, ConcatProperties
  <2>3. Heard = dropped /\ Heard' \o down' = dropped'
    BY <1>0, <2>1, <2>2, ConcatEmptySeq DEF Heard
  <2> QED  BY <1>0, <1>1, <2>1, <2>2, <2>3
<1>4. CASE ReadsLine
  <2>1. PICK data \in Fronts(down) : shown' = shown \o data /\ down' = After(down, Len(data))
    BY <1>4 DEF ReadsLine
  <2>2. UNCHANGED <<dropped, buf>> /\ buf = <<>>
    BY <1>4 DEF ReadsLine, Phases, ClientPhases
  <2>3. /\ data \in Seq(Bytes) /\ down' \in Seq(Bytes) /\ down = data \o down'
        /\ Len(down') <= Len(down)
    BY <1>0, <2>1, FrontAndAfter
  <2>4. shown' \in Seq(Bytes)
    BY <1>0, <2>1, <2>3, ConcatProperties
  <2>5. dropped \o (shown \o data) = d \o data
    <3>1. dropped \in Seq(Bytes) /\ shown \in Seq(Bytes) /\ data \in Seq(Bytes)
      BY <1>0, <2>3
    <3> QED  BY <3>1, Regroup
  <2>6. d \o data \in Seq(Bytes)
    BY <1>2, <2>3, ConcatProperties
  <2> HIDE DEF d
  <2>7. Heard' = d \o data /\ Heard = d
    BY <1>2, <2>1, <2>2, <2>5, <2>6, ConcatEmptySeq DEF Heard, d
  <2>8. (d \o data) \o down' = d \o down
    BY <1>2, <2>3, Regroup
  <2> QED  BY <1>0, <1>1, <2>2, <2>3, <2>4, <2>7, <2>8
<1>5. CASE Polls
  <2>1. buf' = buf \o down /\ down' = <<>> /\ UNCHANGED <<dropped, shown>>
    BY <1>5 DEF Polls
  <2>2. buf' \in Seq(Bytes)
    BY <1>0, <2>1, ConcatProperties
  <2> HIDE DEF d
  <2>3. d \o (buf \o down) = (d \o buf) \o down
    <3>1. d \in Seq(Bytes) /\ buf \in Seq(Bytes) /\ down \in Seq(Bytes)
      BY <1>0, <1>2
    <3> QED  BY <3>1, Regroup
  <2>4. Heard' = d \o buf' /\ Heard = d \o buf
    BY <2>1 DEF Heard, d
  <2>5. Heard' \o down' = Heard'
    BY <1>2, <2>1, <2>2, <2>4, ConcatProperties, ConcatEmptySeq
  <2>6. Heard' \o down' = Heard \o down
    BY <2>1, <2>3, <2>4, <2>5
  <2> QED  BY <1>0, <1>1, <2>1, <2>2, <2>6
<1>6. CASE Reads
  <2>1. UNCHANGED dropped
    BY <1>6 DEF Reads
  <2>2. CASE shown' = shown \o buf /\ buf' = <<>> /\ UNCHANGED down
    <3>1. shown' \in Seq(Bytes)
      BY <1>0, <2>2, ConcatProperties
    <3>2. dropped \o (shown \o buf) = d \o buf
      <4>1. dropped \in Seq(Bytes) /\ shown \in Seq(Bytes) /\ buf \in Seq(Bytes)
        BY <1>0
      <4> QED  BY <4>1, Regroup
    <3>3. d \o buf \in Seq(Bytes)
      BY <1>0, <1>2, ConcatProperties
    <3> HIDE DEF d
    <3>4. Heard' = d \o buf /\ Heard = d \o buf
      BY <2>1, <2>2, <3>2, <3>3, ConcatEmptySeq DEF Heard, d
    <3> QED  BY <1>0, <1>1, <2>1, <2>2, <3>1, <3>4
  <2>3. CASE /\ buf = <<>> /\ down # <<>> /\ shown' = Append(shown, Head(down))
             /\ buf' = Tail(down) /\ down' = <<>>
    <3> DEFINE first == <<Head(down)>>
    <3>1. /\ Head(down) \in Bytes /\ first \in Seq(Bytes) /\ Tail(down) \in Seq(Bytes)
          /\ down = first \o Tail(down)
      BY <1>0, <2>3, HeadAndTail
    <3>2. shown' = shown \o first
      BY <1>0, <2>3, <3>1, AppendedIsConcat
    <3> HIDE DEF first
    <3>3. shown' \in Seq(Bytes)
      BY <1>0, <3>1, <3>2, ConcatProperties
    <3>4. dropped \o (shown \o first) = d \o first
      <4>1. dropped \in Seq(Bytes) /\ shown \in Seq(Bytes) /\ first \in Seq(Bytes)
        BY <1>0, <3>1
      <4> QED  BY <4>1, Regroup
    <3> HIDE DEF d
    <3>5. Heard' = (d \o first) \o Tail(down)
      BY <2>1, <2>3, <3>2, <3>4 DEF Heard
    <3>6. Heard' = d \o down
      <4>1. (d \o first) \o Tail(down) = d \o (first \o Tail(down))
        BY <1>2, <3>1, Regroup
      <4> QED  BY <3>1, <3>5, <4>1
    <3>7. Heard = d
      BY <1>2, <2>3, ConcatEmptySeq DEF Heard, d
    <3>8. Heard' \o down' = Heard'
      BY <1>0, <1>2, <2>3, <3>6, ConcatProperties, ConcatEmptySeq
    <3> QED  BY <1>0, <1>1, <2>1, <2>3, <3>1, <3>3, <3>6, <3>7, <3>8
  <2>4. CASE UNCHANGED <<buf, shown, down>>
    <3>1. Heard' = Heard
      BY <2>1, <2>4 DEF Heard
    <3> QED  BY <1>0, <1>1, <2>1, <2>4, <3>1
  <2> QED  BY <1>6, <2>2, <2>3, <2>4 DEF Reads
<1> QED  BY <1>3, <1>4, <1>5, <1>6

LEMMA DownTypesStep ==
    ASSUME UpTypes, DownTypes, Phases, [Next]_vars
    PROVE  DownTypes'
<1> USE DEF vars, clientVars, daemonVars, relayVars, pumpVars, boardVars, wireVars, readerVars
<1>0. /\ <<>> \in Seq(Bytes) /\ <<0>> \in Seq(Bytes) /\ Len(<<>>) = 0 /\ Len(<<0>>) = 1
      /\ Len(down) \in Nat /\ Room \in Nat /\ 1 <= Room /\ 0 <= Room
  BY ByteSequences, LenProperties, PipeAssumption DEF DownTypes
<1>1. CASE Refuse \/ ClosesConn \/ Cut \/ ClosesSocket
  <2>1. /\ UNCHANGED <<dropped, shown, buf, load, said, unread>>
        /\ down' \in {down, <<>>, <<0>>}
    BY <1>1 DEF Refuse, ClosesConn, Cut, ClosesSocket
  <2> QED  BY <1>0, <2>1 DEF DownTypes, InNumber
<1>2. CASE StartRelay
  BY <1>2 DEF StartRelay, DownTypes, InNumber
<1>3. CASE PumpReads
  <2>1. PICK data \in Fronts(unread) : load' = data /\ unread' = After(unread, Len(data))
    BY <1>3 DEF PumpReads
  <2>2. load' \in Seq(Bytes) /\ unread' \in Seq(Bytes)
    BY <2>1, FrontAndAfter DEF DownTypes
  <2>3. UNCHANGED <<dropped, shown, buf, down, said>>
    BY <1>3 DEF PumpReads
  <2> QED  BY <2>2, <2>3 DEF DownTypes, InNumber
<1>4. CASE PumpSends \/ PumpSendFails
  <2>1. \E part \in Fronts(load) \cup {<<>>, load} :
           (Len(down) + Len(part) <= Room \/ part = <<>>) /\ down' \in {down, down \o part}
    BY <1>4 DEF PumpSends, PumpSendFails, SentInPart
  <2>2. PICK part \in Fronts(load) \cup {<<>>, load} :
           (Len(down) + Len(part) <= Room \/ part = <<>>) /\ down' \in {down, down \o part}
    BY <2>1
  <2>3. part \in Seq(Bytes)
    BY <1>0, FrontAndAfter DEF DownTypes
  <2>4. /\ down \o part \in Seq(Bytes) /\ Len(down \o part) = Len(down) + Len(part)
        /\ Len(part) \in Nat
    BY <2>3, ConcatProperties, LenProperties DEF DownTypes
  <2>5. Len(down \o part) <= Room
    BY <1>0, <2>2, <2>4 DEF DownTypes
  <2>6. down' \in Seq(Bytes) /\ Len(down') <= Room
    BY <2>2, <2>4, <2>5 DEF DownTypes
  <2>7. UNCHANGED <<dropped, shown, buf, said, unread>> /\ load' = <<>>
    BY <1>4 DEF PumpSends, PumpSendFails
  <2> QED  BY <1>0, <2>6, <2>7 DEF DownTypes, InNumber
<1>5. CASE BoardSays
  <2>1. /\ said' = Append(said, Len(said) + 1) /\ unread' = Append(unread, Len(said) + 1)
        /\ Len(said) < Says /\ UNCHANGED <<dropped, shown, buf, down, load>>
    BY <1>5 DEF BoardSays
  <2>2. Says \in Nat /\ Types \in Nat /\ Says <= Types + Says
    BY PipeAssumption
  <2>3. InNumber(said', Says) /\ Len(said) + 1 \in Bytes
    BY <2>1, <2>2, NextNumber DEF DownTypes
  <2>4. unread' \in Seq(Bytes)
    BY <2>1, <2>3, AppendProperties DEF DownTypes
  <2> QED  BY <2>1, <2>3, <2>4 DEF DownTypes
<1>6. CASE Resets \/ ReadsLine \/ Polls \/ Reads
  <2>1. /\ dropped' \in Seq(Bytes) /\ shown' \in Seq(Bytes) /\ buf' \in Seq(Bytes)
        /\ down' \in Seq(Bytes) /\ Len(down') <= Len(down)
        /\ UNCHANGED <<said, unread, load>>
    BY <1>6, ClientMoves
  <2>2. Len(down') \in Nat /\ Len(down') <= Room
    BY <1>0, <2>1, LenProperties DEF DownTypes
  <2> QED  BY <2>1, <2>2 DEF DownTypes, InNumber
<1>7. CASE UNCHANGED <<dropped, shown, buf, down, load, said>> /\ unread' \in {unread, <<>>}
  BY <1>0, <1>7 DEF DownTypes, InNumber
<1> QED  BY <1>1, <1>2, <1>3, <1>4, <1>5, <1>6, <1>7, DownFrame

(* A direction that can grow no more keeps what came through it.           *)
LEMMA DownCut ==
    ASSUME UpTypes, DownTypes, DownInv,
           UNCHANGED <<dropped, shown, buf>>, down' \in {down, <<>>},
           Source' = Source, ~(clientOpen' /\ connOpen')
    PROVE  DownInv'
<1>0. /\ Heard \in Seq(Bytes) /\ down \in Seq(Bytes)
      /\ (said \in Seq(Bytes)) /\ <<0>> \in Seq(Bytes)
  BY ByteSequences
<1>1. Source \in Seq(Bytes)
  BY <1>0 DEF Source
<1>2. Heard \o <<>> = Heard
  BY <1>0, ConcatEmptySeq
<1>3. IsPrefix(Heard, Source)
  BY <1>0, <1>1, PrefixShorter DEF DownInv
<1>4. Heard' = Heard
  BY DEF Heard
<1>5. IsPrefix(Heard' \o down', Source')
  BY <1>2, <1>3, <1>4 DEF DownInv
<1> QED  BY <1>5 DEF DownInv, Pumping

LEMMA DownStep ==
    ASSUME UpTypes, DownTypes, Phases, DownInv, [Next]_vars
    PROVE  DownInv'
<1> USE DEF vars, clientVars, daemonVars, relayVars, pumpVars, boardVars, wireVars, readerVars
<1> DEFINE heard == Heard \o down
<1>0. /\ said \in Seq(Bytes) /\ unread \in Seq(Bytes) /\ load \in Seq(Bytes)
      /\ Heard \in Seq(Bytes) /\ down \in Seq(Bytes) /\ heard \in Seq(Bytes)
      /\ heard \o load \in Seq(Bytes)
      /\ <<0>> \in Seq(Bytes) /\ <<>> \in Seq(Bytes)
  BY ByteSequences
<1>1. CASE Refuse
  <2>1. /\ UNCHANGED <<dropped, shown, buf>> /\ down' \in {down, <<0>>}
        /\ "refused" \in events' /\ relay' = "close" /\ relay = "open"
    BY <1>1 DEF Refuse
  <2>2. Heard' = <<>> /\ down = <<>>
    <3>1. dropped = <<>> /\ shown = <<>> /\ buf = <<>> /\ down = <<>>
      BY <2>1 DEF Phases, NothingYet
    <3>2. <<>> \o <<>> = <<>>
      BY <1>0, ConcatEmptySeq
    <3> QED  BY <2>1, <3>1, <3>2 DEF Heard
  <2>3. Heard' \o down' \in {<<>>, <<0>>}
    BY <1>0, <2>1, <2>2, ConcatEmptySeq
  <2>4. IsPrefix(<<>>, <<0>>) /\ IsPrefix(<<0>>, <<0>>)
    BY <1>0, PrefixReflexive
  <2>5. Source' = <<0>> /\ ~PortOpen'
    BY <2>1 DEF Source, PortOpen
  <2> QED  BY <2>1, <2>3, <2>4, <2>5 DEF DownInv
<1>2. CASE StartRelay
  <2>1. /\ UNCHANGED <<dropped, shown, buf, down, load, said, unread, events>>
        /\ relay = "open"
    BY <1>2 DEF StartRelay
  <2>2. /\ dropped = <<>> /\ shown = <<>> /\ buf = <<>> /\ down = <<>> /\ load = <<>>
        /\ said = <<>> /\ unread = <<>> /\ "refused" \notin events
    BY <2>1 DEF Phases, NothingYet, DaemonPhases
  <2>3. <<>> \o <<>> = <<>> /\ IsPrefix(<<>>, <<>>)
    BY <1>0, ConcatEmptySeq, PrefixReflexive
  <2> QED  BY <2>1, <2>2, <2>3 DEF DownInv, Heard, Source
<1>3. CASE PumpReads
  <2>1. PICK data \in Fronts(unread) : load' = data /\ unread' = After(unread, Len(data))
    BY <1>3 DEF PumpReads
  <2>2. /\ UNCHANGED <<dropped, shown, buf, down, said, events, relay, clientOpen, connOpen>>
        /\ pump = "read" /\ PortOpen /\ load = <<>>
    BY <1>3 DEF PumpReads, Phases, DaemonPhases
  <2>3. load' \in Seq(Bytes) /\ unread' \in Seq(Bytes) /\ unread = load' \o unread'
    <3>1. unread \in Seq(Bytes)
      BY <1>0
    <3> QED  BY <2>1, <3>1, FrontAndAfter
  <2>4. Heard' = Heard /\ Source' = Source
    BY <2>2 DEF Heard, Source
  <2>5. heard \o load = heard
    BY <1>0, <2>2, ConcatEmptySeq
  <2>6. CASE Pumping
    <3> HIDE DEF heard
    <3>1. heard \o unread = said
      BY <2>2, <2>5, <2>6 DEF DownInv, heard
    <3>2. heard \in Seq(Bytes) /\ load' \in Seq(Bytes) /\ unread' \in Seq(Bytes)
      BY <1>0, <2>3
    <3>3. (heard \o load') \o unread' = heard \o (load' \o unread')
      BY <3>2, Regroup
    <3>4. (heard \o load') \o unread' = said
      BY <2>3, <3>1, <3>3
    <3>5. heard \o load' \in Seq(Bytes)
      BY <1>0, <2>3, ConcatProperties
    <3>6. IsPrefix(heard \o load', said)
      BY <2>3, <3>4, <3>5, PrefixOfConcat
    <3> QED  BY <2>2, <2>4, <3>4, <3>6 DEF DownInv, heard
  <2>7. CASE ~Pumping
    <3>1. ~Pumping'
      BY <2>2, <2>7 DEF Pumping
    <3> QED  BY <2>2, <2>4, <3>1 DEF DownInv
  <2> QED  BY <2>6, <2>7
<1>4. CASE PumpSends
  <2>1. /\ UNCHANGED <<dropped, shown, buf, said, unread, events, relay, clientOpen, connOpen>>
        /\ load' = <<>> /\ pump = "send" /\ connOpen
        /\ down' = IF clientOpen THEN down \o load ELSE down
    BY <1>4 DEF PumpSends
  <2>2. Heard' = Heard /\ Source' = Source /\ "refused" \notin events
    BY <2>1 DEF Heard, Source, Phases, DaemonPhases
  <2>3. CASE clientOpen
    <3>1. Heard \in Seq(Bytes) /\ down \in Seq(Bytes) /\ load \in Seq(Bytes)
      BY <1>0
    <3>2. (Heard \o down) \o load = Heard \o (down \o load)
      BY <3>1, Regroup
    <3>3. Heard' \o down' = heard \o load
      BY <2>1, <2>2, <2>3, <3>2
    <3>4. (Heard' \o down') \o load' = heard \o load
      BY <1>0, <2>1, <3>3, ConcatEmptySeq
    <3>5. IsPrefix(heard \o load, said) /\ (PortOpen => (heard \o load) \o unread = said)
      BY <2>1, <2>2, <2>3 DEF DownInv, Pumping
    <3>6. PortOpen' = PortOpen
      BY <2>1 DEF PortOpen, PortThere
    <3> HIDE DEF heard
    <3> QED  BY <2>1, <2>2, <3>3, <3>4, <3>5, <3>6 DEF DownInv, Source
  <2>4. CASE ~clientOpen
    BY <2>1, <2>2, <2>4 DEF DownInv, Pumping
  <2> QED  BY <2>3, <2>4
<1>5. CASE PumpSendFails
  <2>1. PICK part \in SentInPart : down' = down \o part
    BY <1>5 DEF PumpSendFails
  <2>2. /\ UNCHANGED <<dropped, shown, buf, said>>
        /\ pump = "send" /\ pump' = "ended"
        /\ "refused" \in events' <=> "refused" \in events
    BY <1>5 DEF PumpSendFails
  <2>3. Heard' = Heard /\ Source' = Source /\ "refused" \notin events /\ Source = said
    BY <2>2 DEF Heard, Source, Phases, DaemonPhases
  <2>4. part = <<>> \/ (part \in Fronts(load) /\ Pumping)
    BY <2>1, <2>2 DEF SentInPart, Pumping
  <2>5. CASE part = <<>>
    <3>1. Heard' \o down' = heard
      BY <1>0, <2>1, <2>3, <2>5, ConcatEmptySeq
    <3> QED  BY <2>2, <2>3, <3>1 DEF DownInv, Pumping
  <2>6. CASE part \in Fronts(load) /\ Pumping
    <3> DEFINE rest == After(load, Len(part))
    <3>1. part \in Seq(Bytes) /\ rest \in Seq(Bytes) /\ load = part \o rest
      BY <1>0, <2>6, FrontAndAfter
    <3> HIDE DEF rest
    <3>2. Heard \in Seq(Bytes) /\ down \in Seq(Bytes) /\ part \in Seq(Bytes)
      BY <1>0, <3>1
    <3>3. (Heard \o down) \o part = Heard \o (down \o part)
      BY <3>2, Regroup
    <3>4. Heard' \o down' = heard \o part
      BY <2>1, <2>3, <3>3
    <3>5. IsPrefix(heard \o load, said)
      BY <2>3, <2>6 DEF DownInv
    <3> HIDE DEF heard
    <3>6. heard \in Seq(Bytes) /\ part \in Seq(Bytes) /\ rest \in Seq(Bytes)
      BY <1>0, <3>1
    <3>7. (heard \o part) \o rest = heard \o (part \o rest)
      BY <3>6, Regroup
    <3>8. heard \o part \in Seq(Bytes)
      BY <3>6, ConcatProperties
    <3>9. heard \o load = (heard \o part) \o rest /\ heard \o part \in Seq(Bytes)
      BY <3>1, <3>7, <3>8
    <3>10. IsPrefix(heard \o part, said)
      BY <1>0, <3>1, <3>5, <3>9, PrefixShorter
    <3> QED  BY <2>2, <2>3, <3>4, <3>10 DEF DownInv, Pumping
  <2> QED  BY <2>4, <2>5, <2>6
<1>6. CASE BoardSays
  <2> DEFINE next == <<Len(said) + 1>>
  <2>1. /\ said' = Append(said, Len(said) + 1) /\ unread' = Append(unread, Len(said) + 1)
        /\ Len(said) < Says /\ PortOpen
        /\ UNCHANGED <<dropped, shown, buf, down, load, events, relay, pump, clientOpen,
                       connOpen>>
    BY <1>6 DEF BoardSays
  <2>2. Says \in Nat /\ Types \in Nat /\ Says <= Types + Says
    BY PipeAssumption
  <2>3. said' = said \o next /\ next \in Seq(Bytes) /\ Len(said) + 1 \in Bytes
    BY <2>1, <2>2, NextNumber DEF DownTypes
  <2>4. unread' = unread \o next
    BY <1>0, <2>1, <2>3, AppendedIsConcat
  <2>5. Heard' = Heard /\ "refused" \notin events /\ Source = said /\ Source' = said'
    BY <2>1 DEF Heard, Phases, DaemonPhases, PortOpen, Source
  <2> HIDE DEF next
  <2>6. IsPrefix(heard, said')
    BY <1>0, <2>3, <2>5, PrefixLonger DEF DownInv
  <2>7. CASE Pumping
    <3>1. IsPrefix(heard \o load, said) /\ (heard \o load) \o unread = said
      BY <2>1, <2>5, <2>7 DEF DownInv
    <3> DEFINE sent == heard \o load
    <3>2. sent \in Seq(Bytes)
      BY <1>0
    <3> HIDE DEF sent, heard
    <3>3. IsPrefix(sent, said')
      BY <1>0, <2>3, <3>1, <3>2, PrefixLonger DEF sent
    <3>4. (sent \o unread) \o next = sent \o (unread \o next)
      <4>1. sent \in Seq(Bytes) /\ unread \in Seq(Bytes) /\ next \in Seq(Bytes)
        BY <1>0, <2>3, <3>2
      <4> QED  BY <4>1, Regroup
    <3>5. sent \o unread' = said'
      BY <2>3, <2>4, <3>1, <3>4 DEF sent
    <3> QED  BY <2>1, <2>5, <2>6, <3>3, <3>5 DEF DownInv, sent, heard
  <2>8. CASE ~Pumping
    <3>1. ~Pumping'
      BY <2>1, <2>8 DEF Pumping
    <3> QED  BY <2>1, <2>5, <2>6, <3>1 DEF DownInv
  <2> QED  BY <2>7, <2>8
<1>7. CASE Cut \/ ClosesConn \/ ClosesSocket
  <2>1. /\ UNCHANGED <<dropped, shown, buf>> /\ down' \in {down, <<>>}
        /\ ~(clientOpen' /\ connOpen')
        /\ UNCHANGED said
    BY <1>7 DEF Cut, ClosesConn, ClosesSocket
  <2>2. "refused" \in events' <=> "refused" \in events
    BY <1>7 DEF Cut, ClosesConn, ClosesSocket
  <2>3. Source' = Source
    BY <2>1, <2>2 DEF Source
  <2> QED  BY <2>1, <2>3, DownCut
<1>8. CASE Resets \/ ReadsLine \/ Polls \/ Reads
  <2>1. /\ Heard' \o down' = Heard \o down
        /\ UNCHANGED <<said, unread, load, events, clientOpen, connOpen, pump, relay>>
    BY <1>8, ClientMoves
  <2> QED  BY <2>1 DEF DownInv, Source, Pumping, PortOpen, PortThere
<1>9. CASE /\ UNCHANGED <<dropped, shown, buf, down, load, said>>
           /\ "refused" \in events' <=> "refused" \in events
           /\ clientOpen' => clientOpen
           /\ connOpen' => connOpen
           /\ pump' # "ended" => pump # "ended"
           /\ PortOpen' => PortOpen /\ unread' = unread
  <2>1. Heard' = Heard /\ Source' = Source /\ (Pumping' => Pumping)
    BY <1>9 DEF Heard, Source, Pumping
  <2> QED  BY <1>9, <2>1 DEF DownInv
<1> QED  BY <1>1, <1>2, <1>3, <1>4, <1>5, <1>6, <1>7, <1>8, <1>9, DownFrame

-----------------------------------------------------------------------------
(* Theorems                                                                *)

LEMMA PipeInit == Init => PipeInv /\ Reasons /\ EndTold
<1> SUFFICES ASSUME Init PROVE PipeInv /\ Reasons /\ EndTold
  OBVIOUS
<1> USE DEF Init
<1>1. ControlTypes
  BY DEF ControlTypes, ClientControl, DaemonControl, EventTypes
<1>2. /\ <<>> \in Seq(Bytes) /\ Len(<<>>) = 0 /\ <<>> \o <<>> = <<>>
      /\ IsPrefix(<<>>, <<>>) /\ Upto(0) = <<>>
  <2>1. <<>> \in Seq(Bytes) /\ Len(<<>>) = 0
    BY EmptySeq
  <2>2. Upto(0) \in Seq(1..0) /\ Len(Upto(0)) = 0
    BY Numbered
  <2> QED  BY <2>1, <2>2, ConcatEmptySeq, PrefixReflexive, EmptySeq
<1>3. InNumber(<<>>, Types) /\ InNumber(<<>>, Says) /\ 0 <= Room
  BY <1>2, PipeAssumption DEF InNumber
<1>4. UpTypes /\ DownTypes
  BY <1>2, <1>3 DEF UpTypes, DownTypes
<1>5. Phases
  BY DEF Phases, ClientPhases, DaemonPhases, NothingYet
<1>6. UpInv
  BY <1>2 DEF UpInv
<1>7. DownInv
  BY <1>2 DEF DownInv, Heard, Source
<1>8. Reasons /\ EndTold
  BY DEF Reasons, EndTold
<1> QED  BY <1>1, <1>4, <1>5, <1>6, <1>7, <1>8 DEF PipeInv

LEMMA PipeStep ==
    PipeInv /\ Reasons /\ EndTold /\ [Next]_vars
        => (PipeInv /\ Reasons /\ EndTold)'
<1> SUFFICES ASSUME PipeInv, Reasons, EndTold, [Next]_vars
             PROVE  (PipeInv /\ Reasons /\ EndTold)'
  OBVIOUS
<1>1. ControlTypes'
  BY ClientControlStep, DaemonControlStep, EventStep DEF PipeInv, ControlTypes
<1>2. UpTypes' /\ DownTypes'
  BY UpTypesStep, DownTypesStep DEF PipeInv
<1>3. Phases'
  BY ClientPhaseStep, DaemonPhaseStep, NothingYetStep DEF PipeInv, Phases
<1>4. UpInv' /\ DownInv'
  BY UpStep, DownStep DEF PipeInv
<1>5. Reasons' /\ EndTold'
  BY ReasonStep, EndToldStep DEF PipeInv
<1> QED  BY <1>1, <1>2, <1>3, <1>4, <1>5 DEF PipeInv

LEMMA PipeHolds == Spec => [](PipeInv /\ Reasons /\ EndTold)
BY PipeInit, PipeStep, PTL DEF Spec

(* Every variable keeps its type; at most Room bytes are under way in one  *)
(* direction, and the port gets the beginning of what was typed.           *)
THEOREM TypeCorrect == Spec => []TypeOK
<1>1. PipeInv => TypeOK
  <2> SUFFICES ASSUME PipeInv PROVE TypeOK
    OBVIOUS
  <2>1. InNumber(written, Types)
    <3>1. Types \in Nat /\ Says \in Nat /\ Types <= Types + Says
      BY PipeAssumption
    <3> QED  BY <3>1, NumberedPrefix DEF PipeInv, UpTypes, UpInv
  <2>2. {typed, written} \subseteq {Upto(n) : n \in 0..Types}
    BY <2>1 DEF PipeInv, UpTypes, InNumber
  <2>3. said \in {Upto(n) : n \in 0..Says}
    BY DEF PipeInv, DownTypes, InNumber
  <2>4. /\ {buf, dropped, shown, taken, load, unread} \subseteq Seq(Bytes)
        /\ {up, down} \subseteq Seq(Bytes) /\ Len(up) <= Room /\ Len(down) <= Room
    BY DEF PipeInv, UpTypes, DownTypes
  <2>5. ClientControl /\ DaemonControl /\ EventTypes
    BY DEF PipeInv, ControlTypes
  <2> QED  BY <2>2, <2>3, <2>4, <2>5 DEF TypeOK, ClientControl, DaemonControl, EventTypes
<1> QED  BY <1>1, PipeHolds, PTL

(* "a genuinely raw byte pipe" (server.py:492), for any number of bytes    *)
(* and any room on the way: both ends of relay_socket and of SocketSerial  *)
(* pass on the beginning of what went in, however the session is cut.      *)
THEOREM PipeKeepsOrder == Spec => []InOrder
<1>1. PipeInv => InOrder
  <2> SUFFICES ASSUME PipeInv PROVE InOrder
    OBVIOUS
  <2>1. /\ dropped \o shown \in Seq(Bytes) /\ buf \in Seq(Bytes) /\ down \in Seq(Bytes)
        /\ Heard \in Seq(Bytes) /\ said \in Seq(Bytes) /\ <<0>> \in Seq(Bytes)
    BY ByteSequences DEF PipeInv, DownTypes
  <2>2. Source \in Seq(Bytes)
    BY <2>1 DEF Source
  <2>3. IsPrefix(Heard, Source)
    BY <2>1, <2>2, PrefixShorter DEF PipeInv, DownInv
  <2>4. IsPrefix(dropped \o shown, Source)
    BY <2>1, <2>2, <2>3, PrefixShorter DEF Heard
  <2> QED  BY <2>4 DEF InOrder, Source, PipeInv, UpInv
<1> QED  BY <1>1, PipeHolds, PTL

(* The relay never ends of itself (relay_socket, console.py:146).          *)
THEOREM RelayEndsForAReason == Spec => []EndsForAReason
<1>1. Reasons => EndsForAReason
  BY DEF Reasons, EndsForAReason
<1> QED  BY <1>1, PipeHolds, PTL

(* While nothing has befallen the session, relay_socket, interact,         *)
(* send_command and SocketSerial together still hold every byte that they  *)
(* have not delivered, in order; only the line whose send raised is short. *)
THEOREM NoByteIsLost == Spec => []NothingIsLost
<1>1. PipeInv /\ Reasons /\ EndTold => NothingIsLost
  <2> SUFFICES ASSUME PipeInv, Reasons, EndTold, events = {} PROVE
               /\ main \notin {"join", "close"} => typed = written \o taken \o up
               /\ said = dropped \o shown \o buf \o down \o load \o unread
    BY DEF NothingIsLost
  <2>1. /\ ~stop /\ connOpen /\ clientOpen /\ main # "done"
        /\ relay \in {"open", "recv", "write"}
    BY DEF Reasons, PipeInv, ControlTypes, DaemonControl, ClientControl
  <2>2. "refused" \notin events /\ "port gone" \notin events
    OBVIOUS
  <2>3. main \notin {"join", "close"} => typed = written \o taken \o up
    <3>1. main \notin {"join", "close"} => InSession
      BY <2>1 DEF InSession, PipeInv, ControlTypes, ClientControl
    <3> QED  BY <2>1, <3>1 DEF PipeInv, UpInv, Receiving
  <2>4. CASE relay = "open"
    BY <2>3, <2>4 DEF PipeInv, Phases, DaemonPhases, NothingYet
  <2>5. CASE relay \in {"recv", "write"}
    <3>1. Pumping /\ PortOpen
      BY <2>1, <2>2, <2>5 DEF EndTold, Pumping, PortOpen, PortThere
    <3> QED  BY <2>3, <3>1 DEF PipeInv, DownInv, Heard
  <2> QED  BY <2>1, <2>4, <2>5
<1> QED  BY <1>1, PipeHolds, PTL
=============================================================================
