---------------------------- MODULE UartLinkProofs ----------------------------
(***************************************************************************)
(* The serial line for any number of cores, outputs, samples, iterations,   *)
(* knocks and faults.                                                       *)
(*                                                                         *)
(* LinkTypes types both sides and the line.  NoVictim follows the image of  *)
(* a victim that cannot be opened: it is nowhere, so no value is ever       *)
(* printed.                                                                 *)
(* HostInv holds under all faults and timeouts, as long as no firmware has  *)
(* taken bytes of an image for the handshake: the host, from the "$" to the *)
(* "?", is at a place p of a benchmark that follows whole in the stream.    *)
(* LockInv, on top of it, is for an undisturbed run with a board in time.   *)
(* InOrder: each token in the line may follow the one before it, the first  *)
(* is one the firmware waits for, and the last lets the host go on.         *)
(* Lockstep: a question is on its way, or its answer, so the board has      *)
(* nothing to print while it is sent an image, and its FIFO keeps all.      *)
(* ImagesInv rests on both: an image that was sent is in the memory, or in  *)
(* the line before any RUN.                                                 *)
(* CleanInv is for every fault and a board in time, or no fault and any     *)
(* board: of what is left in the line, a new firmware hears the knocks only *)
(* (or bytes of an image, and then it may be fooled).                       *)
(***************************************************************************)
EXTENDS UartLink, SequenceTheorems, FiniteSetTheorems, TLAPS

------------------------------------------------------------------------------
(* What the tokens are, and where the host can be in its script.            *)

Values == 0..(Outputs * Size - 1)
HostTokens == ({"one", "text", "prompt", "nul", "dollar", "end"} \X {0})
              \cup ({"mark", "tail"} \X Values)
Images == -1..(Cores - 1)
BoardTokens == (({"one", "zero", "scrap"} \cup Commands) \X {0})
               \cup ({"hdr", "body"} \X Images)
Arrays == [0..(Outputs - 1) -> [0..(Size - 1) ->
              [value : {-1} \cup Values, whole : BOOLEAN, run : Nat]]]

HostTypes ==
    /\ host \in {"closed", "knock", "log", "send", "hdr", "body", "seek",
                 "collect", "exit", "done"}
    /\ step \in 0..Len(Script) /\ iter \in 1..Runs
    /\ heard \in BOOLEAN /\ total \in Nat
    /\ line \in Seq(HostTokens) /\ toHost \in Seq(HostTokens)
    /\ samples \in Arrays
BoardTypes ==
    /\ board \in {"off", "hello", "greeted", "prompt", "hdr", "body", "reset",
                  "litter", "garbled"}
    /\ image \in {NoImage} \cup Images /\ loaded \subseteq Images
    /\ eaten \in 0..(2 * HeaderSize)
    /\ board = "hdr" => eaten < HeaderSize
    /\ board = "body" => image \in Images
    /\ out \in Seq(HostTokens) /\ toBoard \in Seq(BoardTokens)
FixedTypes ==
    /\ missing \subseteq Unbuilt /\ slow \in BOOLEAN /\ faults \in 0..MaxFaults[slow]
    /\ fooled \in BOOLEAN
\* The place in the script fits what the host does.
Places ==
    /\ host \in {"closed", "knock"} => step = 0
    /\ host = "send" => step < Len(Script)
    /\ host = "exit" => step = Len(Script)
    /\ host \in {"hdr", "body"} => step \in 1..(Visited + 1)
    /\ host \in {"seek", "collect"} => step = Visited + 3
    /\ \A k \in DOMAIN line : ~EndsLine(line[k])
LinkTypes == HostTypes /\ BoardTypes /\ FixedTypes /\ Places

------------------------------------------------------------------------------
(* A victim that cannot be opened.                                          *)

Silent(s) == \A k \in DOMAIN s : Kind(s[k]) # "mark"
NoVictim ==
    0 \in missing =>
        /\ \A k \in DOMAIN toBoard : toBoard[k] # <<"hdr", 0>>
        /\ image # 0 /\ 0 \notin loaded
        /\ Silent(out) /\ Silent(toHost) /\ Silent(line)
        /\ VictimLoaded

------------------------------------------------------------------------------
(* The order of the bytes on the way to the board.                          *)

\* What may follow a token, and what the firmware waits for.
After(kind) == CASE kind = "one" -> {"one", "zero"}
                 [] kind \in {"zero", "body", "INFO", "RUN"} -> Commands
                 [] kind \in {"MMU", "LOAD"} -> {"hdr"}
                 [] kind = "hdr" -> {"body"}
                 [] kind = "RESET" -> {"one"}
Awaits == CASE board = "prompt" -> Commands
            [] board = "hdr" -> {"hdr"}
            [] board = "body" -> {"body"}
            [] board = "greeted" -> {"one", "zero"}
            [] OTHER -> {"one"}
Chained(s) == \A k \in 1..(Len(s) - 1) : Kind(s[k + 1]) \in After(Kind(s[k]))
Admitted == IF toBoard = <<>> THEN Awaits ELSE After(Kind(toBoard[Len(toBoard)]))
Over == host \in {"closed", "knock", "exit"} \/ (host = "log" /\ step = Len(Script))
Knocks(s) == \A k \in DOMAIN s : Kind(s[k]) = "one"
Spent(s) == \A k \in DOMAIN s : Kind(s[k]) \in {"one", "scrap"}
Unscathed(s) == \A k \in DOMAIN s : Kind(s[k]) # "scrap"
Greeting(s) == \E k \in DOMAIN s : Kind(s[k]) = "one"

\* The firmware waits for what comes next,
Left ==
    /\ board \notin {"litter", "garbled"}
    /\ board = "off" => toBoard = <<>>
    /\ board = "hdr" => eaten = 0
    /\ toBoard # <<>> => Kind(toBoard[1]) \in Awaits
    /\ Chained(toBoard) /\ Unscathed(toBoard)
\* the last token lets the host go on,
Right ==
    /\ Over => "one" \in Admitted
    /\ host \in {"log", "send", "seek", "collect"} /\ step < Len(Script) =>
          Admitted = Commands
    /\ host = "hdr" => Admitted = {"hdr"}
    /\ host = "body" => Admitted = {"body"}
\* the knocks of the host are answered once, before the board hears anything else,
Greeted ==
    /\ Greeting(out) => out = <<Token("one")>> /\ ~Greeting(toHost)
    /\ Greeting(toHost) =>
          /\ out = <<>>
          /\ \A k \in DOMAIN toHost : Kind(toHost[k]) = "one" => k = Len(toHost)
    /\ Greeting(out) \/ Greeting(toHost) =>
          host = "knock" /\ board = "greeted" /\ Knocks(toBoard)
\* and only knocks follow a reset, or what is left of one.
Restart ==
    /\ board = "hello" => Knocks(toBoard)
    /\ board = "reset" => Spent(toBoard)
    /\ toBoard # <<>> /\ Kind(toBoard[Len(toBoard)]) = "one" => host = "knock"
    /\ \A k, m \in DOMAIN toBoard :
          k < m /\ Kind(toBoard[k]) = "RESET" => Kind(toBoard[m]) \in {"one", "scrap"}
\* From the handshake to RESET the host is in a session: the board is up, and no
\* reset is in the line.
Session == host \notin {"closed", "knock", "done"} /\ step < Len(Script)
Up == Session =>
    /\ board \notin {"off", "hello", "reset"}
    /\ \A k \in DOMAIN toBoard : Kind(toBoard[k]) # "RESET"
\* So much holds whatever is missing; InOrder implies it (SessionAdmits).
Orderly == Greeted /\ Restart /\ Up
InOrder == Left /\ Right /\ Greeted /\ Restart
\* The board has printed all it had to when the host sends what is longer than a FIFO
\* holds, and has taken it before the host knocks again.
Attended ==
    /\ host \in {"send", "hdr", "body"} => out = <<>>
    /\ host \in {"closed", "knock"} => \A k \in DOMAIN toBoard : Kind(toBoard[k]) # "body"

------------------------------------------------------------------------------
(* The images that are in the memory, or on their way.                      *)

Loading == {c \in 0..(Cores - 1) : Configured(c) /\ c < Visited}
\* The loop over the cores goes as far as the last one that is configured.
Reached == \A c \in 0..(Cores - 1) : Configured(c) => c < Visited
Coming(c, n) == \/ c \in loaded \/ (board = "body" /\ image = c)
                \/ \E j \in 1..n : toBoard[j] = <<"hdr", c>>
\* A core whose image was sent has it, or will have it before it hears anything else,
SentComing ==
    Session => \A c \in Loading :
        step > c + 2 \/ (step = c + 2 /\ host # "hdr") => Coming(c, Len(toBoard))
\* so every one has by the time the board hears RUN,
RunsLast ==
    \A k \in DOMAIN toBoard : Kind(toBoard[k]) = "RUN" =>
        \A c \in Loading : Coming(c, k)
\* and while the host reads what the benchmark prints.
Starts(s) == \E k \in DOMAIN s : Kind(s[k]) = "dollar"
Ready(s) == Starts(s) => Loading \subseteq loaded
ReadReady ==
    /\ Session => Ready(toHost) /\ Ready(out)
    /\ host = "collect" => Loading \subseteq loaded
ImagesInv == Undisturbed /\ ~slow => SentComing /\ RunsLast /\ ReadReady

------------------------------------------------------------------------------
(* The script, the answers, and the line as a sequence.                     *)

\* The script, command by command.
LEMMA ScriptIs ==
    ASSUME LinkAssumption
    PROVE  /\ Visited \in 0..Cores /\ Len(Script) = Visited + 4
           /\ Script[1] = <<"MMU", -1>>
           /\ \A n \in 2..(Visited + 1) : Script[n] = <<"LOAD", n - 2>>
           /\ Script[Visited + 2] = <<"INFO", 0>>
           /\ Script[Visited + 3] = <<"RUN", 0>>
           /\ Script[Visited + 4] = <<"RESET", 0>>
<1>1. Visited \in 0..Cores
  BY DEF LinkAssumption, Visited
<1>. HIDE DEF Visited
<1>2. Len(Script) = Visited + 4
  BY <1>1 DEF Script
<1>3. ASSUME NEW n \in 2..(Visited + 1) PROVE Script[n] = <<"LOAD", n - 2>>
  <2>1. n # 1 /\ n \in 1..(Visited + 4)
    BY <1>1, <1>3
  <2>2. Script[n] =
          CASE n = 1 -> <<"MMU", -1>>
            [] n \in 2..(Visited + 1) -> <<"LOAD", n - 2>>
            [] n = Visited + 2 -> <<"INFO", 0>>
            [] n = Visited + 3 -> <<"RUN", 0>>
            [] n = Visited + 4 -> <<"RESET", 0>>
    BY <2>1 DEF Script
  <2>3. n # Visited + 2 /\ n # Visited + 3 /\ n # Visited + 4
    BY <1>1, <1>3
  <2>. QED
    BY <1>3, <2>1, <2>2, <2>3
<1>4. Script[1] = <<"MMU", -1>>
  BY <1>1, 1 \in 1..(Visited + 4) DEF Script
<1>5. Script[Visited + 2] = <<"INFO", 0>>
  BY <1>1, Visited + 2 # 1, Visited + 2 \notin 2..(Visited + 1) DEF Script
<1>6. Script[Visited + 3] = <<"RUN", 0>>
  BY <1>1, Visited + 3 # 1, Visited + 3 \notin 2..(Visited + 1) DEF Script
<1>7. Script[Visited + 4] = <<"RESET", 0>>
  BY <1>1, Visited + 4 # 1, Visited + 4 \notin 2..(Visited + 1) DEF Script
<1>. QED
  BY <1>1, <1>2, <1>3, <1>4, <1>5, <1>6, <1>7

\* What the firmware prints are tokens.
LEMMA AnswersAreTokens ==
    ASSUME LinkAssumption
    PROVE  /\ Prompt \in Seq(HostTokens) /\ Reject \in Seq(HostTokens)
           /\ <<Token("text")>> \o Prompt \in Seq(HostTokens)
           /\ <<Token("one")>> \in Seq(HostTokens) /\ <<Token("nul")>> \in Seq(HostTokens)
           /\ Benchmark \o Prompt \in Seq(HostTokens)
<1>1. \A kind \in {"one", "text", "prompt", "nul", "dollar", "end"} :
          Token(kind) \in HostTokens
  BY DEF Token, HostTokens
<1>2. /\ <<Token("text")>> \in Seq(HostTokens) /\ <<Token("one")>> \in Seq(HostTokens)
      /\ <<Token("nul")>> \in Seq(HostTokens) /\ <<Token("dollar")>> \in Seq(HostTokens)
      /\ <<Token("end")>> \in Seq(HostTokens) /\ Prompt \in Seq(HostTokens)
  BY <1>1 DEF Prompt
<1>. DEFINE size == Outputs * Size
<1>3. size \in Nat /\ 2 * Outputs * Size = 2 * size
  BY DEF LinkAssumption
<1>. HIDE DEF size
<1>. DEFINE value(n) == IF n % 2 = 1 THEN <<"mark", n \div 2>>
                                 ELSE <<"tail", (n \div 2) - 1>>
            middle == [n \in 1..(2 * size) |-> value(n)]
<1>4. ASSUME NEW n \in 1..(2 * size)
      PROVE  value(n) \in HostTokens
  <2>1. CASE n % 2 = 1
    <3>1. n \div 2 \in 0..(size - 1)
      BY <1>3, <2>1
    <3>. QED
      BY <2>1, <3>1 DEF HostTokens, Values, size
  <2>2. CASE n % 2 # 1
    <3>1. (n \div 2) - 1 \in 0..(size - 1)
      BY <1>3, <2>2
    <3>. QED
      BY <2>2, <3>1 DEF HostTokens, Values, size
  <2>. QED
    BY <2>1, <2>2
<1>5. middle \in Seq(HostTokens)
  <2>. HIDE DEF value
  <2>. QED
    BY <1>3, <1>4
<1>6. Benchmark = <<Token("dollar")>> \o middle \o <<Token("end")>>
  BY <1>3 DEF Benchmark
<1>. HIDE DEF middle
<1>7. <<Token("dollar")>> \o middle \in Seq(HostTokens)
  BY <1>2, <1>5
<1>8. Benchmark \in Seq(HostTokens)
  BY <1>2, <1>6, <1>7
<1>. HIDE DEF HostTokens
<1>9. Benchmark \o Prompt \in Seq(HostTokens)
  BY <1>2, <1>8
<1>. QED
  BY <1>2, <1>9 DEF Reject

\* A token is sent: the board has it in the line, or its scraps, or it hears nothing.
Delivered(token) == toBoard' = IF board = "off" THEN toBoard ELSE Append(toBoard, token)
LEMMA SentLine ==
    ASSUME NEW token, SendToken(token)
    PROVE  \/ Unheard /\ UNCHANGED toBoard
           \/ board # "off" /\ Delivered(token)
           \/ Overruns(token) /\ board # "off" /\ Delivered(Token("scrap"))
BY DEF SendToken, Unheard, Delivered

\* A token that is sent or read leaves tokens in the line.
LEMMA SendTypes ==
    ASSUME toBoard \in Seq(BoardTokens), NEW token \in BoardTokens, SendToken(token)
    PROVE  toBoard' \in Seq(BoardTokens)
<1>1. Token("scrap") \in BoardTokens
  BY DEF BoardTokens, Token
<1>. QED
  BY <1>1, SentLine DEF Delivered

LEMMA TakesTypes ==
    ASSUME toBoard \in Seq(BoardTokens), NEW kind, Takes(kind)
    PROVE  /\ toBoard' \in Seq(BoardTokens) /\ Head(toBoard) \in BoardTokens
           /\ out = <<>> /\ Kind(Head(toBoard)) = kind
BY DEF Takes

LEMMA HearsTypes ==
    ASSUME toBoard \in Seq(BoardTokens), NEW kind, Hears(kind)
    PROVE  /\ toBoard' \in Seq(BoardTokens) /\ Head(toBoard) \in BoardTokens
           /\ out = <<>> /\ Kind(Head(toBoard)) = kind
BY TakesTypes DEF Hears

LEMMA ReceiveTypes ==
    ASSUME toHost \in Seq(HostTokens), toHost # <<>>, Receive
    PROVE  /\ toHost' \in Seq(HostTokens) /\ Head(toHost) \in HostTokens
BY DEF Receive

\* The same, place by place.
LEMMA Sent ==
    ASSUME toBoard \in Seq(BoardTokens), NEW token, Delivered(token)
    PROVE  /\ board = "off" => toBoard' = toBoard
           /\ board # "off" =>
                 /\ toBoard' # <<>> /\ Len(toBoard') = Len(toBoard) + 1
                 /\ toBoard'[Len(toBoard) + 1] = token
                 /\ \A k \in 1..Len(toBoard) : toBoard'[k] = toBoard[k]
           /\ Len(toBoard) \in Nat /\ DOMAIN toBoard = 1..Len(toBoard)
           /\ DOMAIN toBoard' = 1..Len(toBoard')
BY DEF Delivered

LEMMA Taken ==
    ASSUME toBoard \in Seq(BoardTokens), NEW kind, Takes(kind)
    PROVE  /\ out = <<>> /\ toBoard # <<>> /\ Kind(toBoard[1]) = kind
           /\ Head(toBoard) = toBoard[1] /\ toBoard[1] \in BoardTokens
           /\ Len(toBoard) \in Nat \ {0} /\ Len(toBoard') = Len(toBoard) - 1
           /\ DOMAIN toBoard = 1..Len(toBoard) /\ DOMAIN toBoard' = 1..(Len(toBoard) - 1)
           /\ \A k \in 1..(Len(toBoard) - 1) : toBoard'[k] = toBoard[k + 1]
           /\ UNCHANGED <<host, step, iter, heard, line, total, samples, toHost,
                          missing, slow, faults>>
BY DEF Takes, hostVars

LEMMA Heard ==
    ASSUME toBoard \in Seq(BoardTokens), NEW kind, Hears(kind)
    PROVE  /\ out = <<>> /\ toBoard # <<>> /\ Kind(toBoard[1]) = kind
           /\ Head(toBoard) = toBoard[1] /\ toBoard[1] \in BoardTokens
           /\ Len(toBoard) \in Nat \ {0} /\ Len(toBoard') = Len(toBoard) - 1
           /\ DOMAIN toBoard = 1..Len(toBoard) /\ DOMAIN toBoard' = 1..(Len(toBoard) - 1)
           /\ \A k \in 1..(Len(toBoard) - 1) : toBoard'[k] = toBoard[k + 1]
           /\ UNCHANGED <<host, step, iter, heard, line, total, samples, toHost,
                          missing, slow, faults, fooled>>
<1>1. Takes(kind) /\ fooled' = fooled
  BY DEF Hears
<1>. QED
  BY <1>1, Taken

LEMMA Received ==
    ASSUME toHost \in Seq(HostTokens), toHost # <<>>, Receive
    PROVE  /\ Head(toHost) = toHost[1] /\ toHost[1] \in HostTokens
           /\ Len(toHost) \in Nat \ {0} /\ Len(toHost') = Len(toHost) - 1
           /\ DOMAIN toHost = 1..Len(toHost) /\ DOMAIN toHost' = 1..(Len(toHost) - 1)
           /\ \A k \in 1..(Len(toHost) - 1) : toHost'[k] = toHost[k + 1]
BY DEF Receive

\* Nobody changes what is missing.
LEMMA MissingStays ==
    ASSUME Next
    PROVE  missing' = missing /\ slow' = slow
<1>1. ASSUME Host PROVE missing' = missing /\ slow' = slow
  BY <1>1 DEF Host, OpenPort, KnockAgain, HandshakeDone, LogByte, LogEnds, LogTimesOut,
     SkipCore, SendCommand, SendImage, SkipImage, ReadLine, LineTimesOut, ClosePort, fixed
<1>2. ASSUME Board PROVE missing' = missing /\ slow' = slow
  BY <1>2 DEF Board, Boot, Greet, Ignore, TakeForHandshake, Gather, MissCommand, AskImage,
     TakeImage, TakeFalseHeader, TakeGarbage, Info, RunApplication, ResetCommand, ChipResets,
     Transmit, Hears, Takes, fixed
<1>. QED
  BY <1>1, <1>2 DEF Next, KillTool, PowerCycle

\* An image names a core, or the table of the MMU.
LEMMA ImageTokens ==
    ASSUME NEW token \in BoardTokens
    PROVE  /\ Kind(token) \in TokensToBoard
           /\ Kind(token) \in {"hdr", "body"} => token[2] \in Images
           /\ token = <<Kind(token), token[2]>>
BY DEF BoardTokens, TokensToBoard, Messages, Commands, Kind

\* A value that is stored is one that was printed.
LEMMA StoreTypes ==
    ASSUME LinkAssumption, samples \in Arrays, total \in Nat, iter \in 1..Runs,
           NEW ln \in Seq(HostTokens), StoreLine(ln)
    PROVE  samples' \in Arrays
<1>1. CASE ~(Marks(ln) # {} /\ Slot(total)[2] < Size)
  BY <1>1 DEF StoreLine
<1>2. CASE Marks(ln) # {} /\ Slot(total)[2] < Size
  <2>. DEFINE r == total % Outputs
              i == total \div Outputs
  <2>1. r \in 0..(Outputs - 1) /\ i \in 0..(Size - 1)
    BY <1>2 DEF LinkAssumption, Slot
  <2>2. PICK mark \in Marks(ln) : mark = (CHOOSE m \in Marks(ln) : TRUE)
    BY <1>2
  <2>3. mark \in HostTokens /\ Kind(mark) = "mark"
    BY DEF Marks
  <2>4. mark[2] \in Values
    BY <2>3 DEF HostTokens, Kind
  <2>5. Sample(ln) \in [value : {-1} \cup Values, whole : BOOLEAN, run : Nat]
    BY <2>2, <2>4 DEF Sample
  <2>6. samples' = [samples EXCEPT ![r][i] = Sample(ln)]
    BY <1>2 DEF StoreLine, Slot
  <2>. HIDE DEF r, i
  <2>. QED
    BY <2>1, <2>5, <2>6 DEF Arrays
<1>. QED
  BY <1>1, <1>2

\* A line has a number of marks.
LEMMA MarksCounted ==
    ASSUME NEW ln \in Seq(HostTokens)
    PROVE  Cardinality(Marks(ln)) \in Nat
<1>. DEFINE K == {k \in DOMAIN ln : Kind(ln[k]) = "mark"}
<1>1. IsFiniteSet(K)
  BY FS_Interval, FS_Subset
<1>2. Marks(ln) = {ln[k] : k \in K}
  BY DEF Marks
<1>3. [k \in K |-> ln[k]] \in Surjection(K, Marks(ln))
  BY <1>2 DEF Surjection
<1>. HIDE DEF K
<1>. QED
  BY <1>1, <1>3, FS_Surjection, FS_CardinalityType DEF ExistsSurjection

\* The host goes over a line without leaving its states.
LEMMA ProcessTypes ==
    ASSUME LinkAssumption, HostTypes, NEW ln \in Seq(HostTokens), ProcessLine(ln),
           host \in {"seek", "collect"}
    PROVE  /\ samples' \in Arrays /\ total' \in Nat /\ line' = <<>>
           /\ host' \in {"seek", "collect", "log"}
           /\ UNCHANGED <<step, iter, heard>>
<1>1. CASE host = "seek"
  BY <1>1 DEF ProcessLine, HostTypes
<1>2. CASE host = "collect"
  <2>1. StoreLine(ln) /\ total' = total + Cardinality(Marks(ln))
    BY <1>2 DEF ProcessLine
  <2>2. samples' \in Arrays /\ total' \in Nat
    BY <2>1, StoreTypes, MarksCounted DEF HostTypes
  <2>. QED
    BY <1>2, <2>2 DEF ProcessLine
<1>. QED
  BY <1>1, <1>2

LEMMA ScriptLength ==
    ASSUME LinkAssumption
    PROVE  Visited \in Nat /\ Len(Script) = Visited + 4 /\ Len(Script) \in Nat
BY ScriptIs

\* The commands of the script, by their place.
LEMMA ScriptCommands ==
    ASSUME LinkAssumption, NEW n \in 1..Len(Script)
    PROVE  /\ Visited \in Nat /\ Visited <= Cores /\ Len(Script) = Visited + 4
           /\ Script[n][1] \in Commands
           /\ Script[n][1] \in {"MMU", "LOAD"} <=> n <= Visited + 1
           /\ Script[n][1] = "LOAD" => Script[n][2] = n - 2
           /\ Script[n][1] = "RUN" <=> n = Visited + 3
           /\ Script[n][1] = "RESET" <=> n = Visited + 4
           /\ n <= Visited + 1 => Script[n][2] \in Images /\ Script[n][2] = n - 2
<1>. USE ScriptIs
<1>0. Visited \in Nat /\ Visited <= Cores /\ Len(Script) = Visited + 4 /\ n \in 1..(Visited + 4)
  OBVIOUS
<1>1. CASE n = 1
  <2>1. Script[n] = <<"MMU", -1>>
    BY <1>1
  <2>2. n <= Visited + 1 /\ n - 2 = -1 /\ n # Visited + 3 /\ n # Visited + 4
    BY <1>1, <1>0
  <2>. QED
    BY <1>0, <2>1, <2>2 DEF Commands, Images, LinkAssumption
<1>2. CASE n \in 2..(Visited + 1)
  <2>1. Script[n] = <<"LOAD", n - 2>>
    BY <1>2
  <2>2. n <= Visited + 1 /\ n - 2 \in 0..(Cores - 1) /\ n # Visited + 3 /\ n # Visited + 4
    BY <1>2, <1>0
  <2>. QED
    BY <1>0, <2>1, <2>2 DEF Commands, Images, LinkAssumption
<1>3. CASE n = Visited + 2
  <2>1. Script[n] = <<"INFO", 0>>
    BY <1>3
  <2>2. ~(n <= Visited + 1) /\ n # Visited + 3 /\ n # Visited + 4
    BY <1>3, <1>0
  <2>. QED
    BY <1>0, <2>1, <2>2 DEF Commands, Images, LinkAssumption
<1>4. CASE n = Visited + 3
  <2>1. Script[n] = <<"RUN", 0>>
    BY <1>4
  <2>2. ~(n <= Visited + 1) /\ n # Visited + 4
    BY <1>4, <1>0
  <2>. QED
    BY <1>0, <2>1, <2>2 DEF Commands, Images, LinkAssumption
<1>5. CASE n = Visited + 4
  <2>1. Script[n] = <<"RESET", 0>>
    BY <1>5
  <2>2. ~(n <= Visited + 1) /\ n # Visited + 3
    BY <1>5, <1>0
  <2>. QED
    BY <1>0, <2>1, <2>2 DEF Commands, Images, LinkAssumption
<1>. QED
  BY <1>0, <1>1, <1>2, <1>3, <1>4, <1>5
------------------------------------------------------------------------------
(* The line carries tokens.                                                 *)

\* The host does not reach into the board, nor the board into the host.
LEMMA HostFootprint ==
    ASSUME Host
    PROVE  UNCHANGED <<board, image, eaten, loaded, out, missing, slow, faults, fooled>>
BY DEF Host, OpenPort, KnockAgain, HandshakeDone, LogByte, LogEnds, LogTimesOut, SkipCore,
   SendCommand, SendImage, SkipImage, ReadLine, LineTimesOut, ClosePort, boardVars, fixed

LEMMA BoardFootprint ==
    ASSUME Board
    PROVE  /\ UNCHANGED <<host, step, iter, heard, line, total, samples,
                          missing, slow, faults>>
           /\ Transmit \/ UNCHANGED toHost
           /\ ~TakeForHandshake => UNCHANGED fooled
<1>1. CASE TakeForHandshake
  <2>1. PICK k \in {"hdr", "body"} : Takes(k)
    BY <1>1 DEF TakeForHandshake
  <2>3. /\ UNCHANGED <<host, step, iter, heard, line, total, samples,
                       missing, slow, faults>>
        /\ UNCHANGED toHost
    BY <2>1 DEF Takes, hostVars
  <2>. QED
    BY <1>1, <2>3
<1>2. CASE ~TakeForHandshake
  <2>1. ASSUME NEW kind, Hears(kind)
        PROVE  UNCHANGED <<host, step, iter, heard, line, total, samples, toHost,
                           missing, slow, faults, fooled>>
    BY <2>1 DEF Hears, Takes, hostVars
  <2>2. CASE Boot \/ ChipResets \/ Transmit
    BY <1>2, <2>2 DEF Boot, ChipResets, Transmit, hostVars, fixed
  <2>3. CASE Greet \/ Ignore \/ Gather \/ MissCommand \/ AskImage \/ TakeImage
    BY <1>2, <2>1, <2>3 DEF Greet, Ignore, Gather, MissCommand, AskImage, TakeImage
  <2>4. CASE TakeFalseHeader \/ TakeGarbage \/ Info \/ RunApplication \/ ResetCommand
    BY <1>2, <2>1, <2>4 DEF TakeFalseHeader, TakeGarbage, Info, RunApplication, ResetCommand
  <2>. QED
    BY <1>2, <2>2, <2>3, <2>4 DEF Board
<1>. QED
  BY <1>1, <1>2

\* No step of the host, of the board or of the user takes either side out of its
\* states, or puts anything else into the line.
LEMMA HostKeepsTypes ==
    ASSUME LinkAssumption, LinkTypes, Host
    PROVE  LinkTypes'
<1>. USE DEF LinkTypes
<1>0. SUFFICES HostTypes' /\ Places' /\ toBoard' \in Seq(BoardTokens)
  BY HostFootprint DEF BoardTypes, FixedTypes
<1>1. ASSUME OpenPort \/ KnockAgain \/ HandshakeDone
      PROVE  HostTypes' /\ Places' /\ toBoard' \in Seq(BoardTokens)
  <2>1. Token("one") \in BoardTokens /\ Token("zero") \in BoardTokens
    BY DEF BoardTokens, Token
  <2>2. toBoard' \in Seq(BoardTokens)
    BY <1>1, <2>1, SendTypes DEF OpenPort, KnockAgain, HandshakeDone, Send, BoardTypes
  <2>3. HostTypes'
    BY <1>1, ReceiveTypes DEF HostTypes, Places, OpenPort, KnockAgain, HandshakeDone, hostVars
  <2>4. Places'
    BY <1>1 DEF Places, OpenPort, KnockAgain, HandshakeDone, hostVars
  <2>. QED
    BY <2>2, <2>3, <2>4
<1>2. ASSUME LogByte \/ LogEnds \/ LogTimesOut
      PROVE  HostTypes' /\ Places' /\ toBoard' \in Seq(BoardTokens)
  <2>1. HostTypes'
    BY <1>2, ReceiveTypes DEF HostTypes, LogByte, LogEnds, LogTimesOut, AfterLog
  <2>2. Places'
    BY <1>2, ScriptLength DEF HostTypes, Places, LogByte, LogEnds, LogTimesOut, AfterLog
  <2>. QED
    BY <1>2, <2>1, <2>2 DEF BoardTypes, LogByte, LogEnds, LogTimesOut
<1>3. ASSUME SkipCore PROVE HostTypes' /\ Places' /\ toBoard' \in Seq(BoardTokens)
  <2>1. HostTypes'
    BY <1>3 DEF HostTypes, Places, SkipCore
  <2>2. Places'
    BY <1>3, step + 1 \in 1..Len(Script), ScriptCommands DEF HostTypes, Places, SkipCore, Idle
  <2>. QED
    BY <1>3, <2>1, <2>2 DEF BoardTypes, SkipCore
<1>4. ASSUME SendCommand PROVE HostTypes' /\ Places' /\ toBoard' \in Seq(BoardTokens)
  <2>. DEFINE n == step + 1
  <2>1. n \in 1..Len(Script) /\ n \in 0..Len(Script) /\ step' = n /\ Len(Script) = Visited + 4
    <3>1. step \in 0..Len(Script) /\ step < Len(Script) /\ step' = n
      BY <1>4 DEF HostTypes, Places, SendCommand
    <3>. QED
      BY <3>1, ScriptLength
  <2>2. /\ host' = CASE Script[n][1] \in {"MMU", "LOAD"} -> "hdr"
                     [] Script[n][1] = "RUN" -> "seek"
                     [] OTHER -> "log"
        /\ SendToken(Token(Script[n][1]))
        /\ heard' = FALSE /\ line' = <<>> /\ total' = 0
        /\ UNCHANGED <<iter, samples, toHost>>
    BY <1>4 DEF SendCommand, Send
  <2>3. /\ Script[n][1] \in Commands
        /\ Script[n][1] \in {"MMU", "LOAD"} <=> n <= Visited + 1
        /\ Script[n][1] = "RUN" <=> n = Visited + 3
    BY <2>1, ScriptCommands
  <2>4. Token(Script[n][1]) \in BoardTokens
    BY <2>3 DEF BoardTokens, Token
  <2>. HIDE DEF n
  <2>5. /\ host' \in {"hdr", "seek", "log"} /\ step' \in 0..Len(Script)
        /\ heard' = FALSE /\ line' \in Seq(HostTokens) /\ line' = <<>> /\ total' = 0
        /\ UNCHANGED <<iter, samples, toHost>>
    BY <2>1, <2>2
  <2>6. HostTypes'
    BY <2>5 DEF HostTypes
  <2>7. Places'
    BY <2>1, <2>2, <2>3 DEF Places
  <2>8. toBoard' \in Seq(BoardTokens)
    BY <2>2, <2>4, SendTypes DEF BoardTypes
  <2>. QED
    BY <2>6, <2>7, <2>8
<1>5. ASSUME SendImage PROVE HostTypes' /\ Places' /\ toBoard' \in Seq(BoardTokens)
  <2>1. step \in 1..Len(Script) /\ step <= Visited + 1
    BY <1>5, ScriptLength DEF Places, SendImage
  <2>2. <<host, Script[step][2]>> \in BoardTokens
    BY <1>5, <2>1, ScriptCommands DEF SendImage, BoardTokens
  <2>3. toBoard' \in Seq(BoardTokens)
    BY <1>5, <2>2, SendTypes DEF SendImage, BoardTypes
  <2>4. HostTypes' /\ Places'
    BY <1>5 DEF HostTypes, Places, SendImage
  <2>. QED
    BY <2>3, <2>4
<1>6. ASSUME SkipImage PROVE HostTypes' /\ Places' /\ toBoard' \in Seq(BoardTokens)
  BY <1>6 DEF HostTypes, BoardTypes, Places, SkipImage
<1>7. ASSUME ReadLine PROVE HostTypes' /\ Places' /\ toBoard' \in Seq(BoardTokens)
  <2>1. /\ Append(line, Head(toHost)) \in Seq(HostTokens) /\ toHost' \in Seq(HostTokens)
        /\ Head(toHost) \in HostTokens /\ host \in {"seek", "collect"}
    BY <1>7, ReceiveTypes DEF HostTypes, ReadLine
  <2>2. toBoard' \in Seq(BoardTokens)
    BY <1>7 DEF BoardTypes, ReadLine
  <2>3. CASE EndsLine(Head(toHost))
    <3>1. /\ samples' \in Arrays /\ total' \in Nat /\ line' = <<>>
          /\ host' \in {"seek", "collect", "log"}
          /\ UNCHANGED <<step, iter, heard>>
      BY <1>7, <2>1, <2>3, ProcessTypes DEF ReadLine
    <3>2. HostTypes'
      BY <2>1, <3>1 DEF HostTypes
    <3>3. Places'
      BY <2>1, <3>1 DEF Places
    <3>. QED
      BY <2>2, <3>2, <3>3
  <2>4. CASE ~EndsLine(Head(toHost))
    <3>1. line' = Append(line, Head(toHost)) /\ UNCHANGED <<host, step, iter, heard, total, samples>>
      BY <1>7, <2>4 DEF ReadLine
    <3>2. \A k \in DOMAIN line' : ~EndsLine(line'[k])
      BY <2>1, <2>4, <3>1 DEF Places, HostTypes
    <3>3. HostTypes'
      BY <2>1, <3>1 DEF HostTypes
    <3>4. Places'
      BY <3>1, <3>2 DEF Places
    <3>. QED
      BY <2>2, <3>3, <3>4
  <2>. QED
    BY <2>3, <2>4
<1>8. ASSUME LineTimesOut PROVE HostTypes' /\ Places' /\ toBoard' \in Seq(BoardTokens)
  <2>1. /\ samples' \in Arrays /\ total' \in Nat /\ line' = <<>>
        /\ host \in {"seek", "collect"} /\ host' \in {"seek", "collect", "log"}
        /\ UNCHANGED <<step, iter, heard, toHost, toBoard>>
    BY <1>8, ProcessTypes DEF HostTypes, LineTimesOut
  <2>. QED
    BY <2>1 DEF HostTypes, BoardTypes, Places
<1>9. ASSUME ClosePort PROVE HostTypes' /\ Places' /\ toBoard' \in Seq(BoardTokens)
  <2>1. 0 \in 0..Len(Script) /\ iter' \in 1..Runs
    BY <1>9, ScriptLength DEF HostTypes, ClosePort, LinkAssumption
  <2>. QED
    BY <1>9, <2>1 DEF HostTypes, BoardTypes, Places, ClosePort
<1>. QED
  BY <1>1, <1>2, <1>3, <1>4, <1>5, <1>6, <1>7, <1>8, <1>9 DEF Host

LEMMA TakenTypes ==
    ASSUME toBoard \in Seq(BoardTokens), TakeForHandshake
    PROVE  /\ toBoard' \in Seq(BoardTokens) /\ out' \in Seq(HostTokens)
           /\ board' \in {"greeted", "litter"} /\ UNCHANGED <<image, eaten, loaded>>
           /\ \A k \in DOMAIN out' : Kind(out'[k]) \in {"one", "text", "prompt", "nul"}
<1>1. PICK b \in {"hdr", "body"} : Takes(b)
  BY DEF TakeForHandshake
<1>. DEFINE Plain == {"one", "text", "prompt", "nul"} \X {0}
            greeting == IF board = "hello" THEN <<Token("one")>> ELSE <<>>
<1>2. Token("one") \in Plain /\ Token("text") \in Plain /\ Token("prompt") \in Plain
      /\ Token("nul") \in Plain
  BY DEF Token
<1>3. Plain \subseteq HostTokens /\ \A e \in Plain : Kind(e) \in {"one", "text", "prompt", "nul"}
  BY DEF HostTokens, Kind
<1>. HIDE DEF Plain
<1>4. greeting \in Seq(Plain) /\ <<Token("text")>> \in Seq(Plain) /\ Prompt \in Seq(Plain)
      /\ <<>> \in Seq(Plain)
  BY <1>2 DEF Prompt
<1>5. Reject \in Seq(Plain)
  BY <1>4 DEF Reject
<1>6. out' = greeting \/ \E answer \in {<<>>, Reject} :
                             out' = greeting \o <<Token("text")>> \o Prompt \o answer
  BY DEF TakeForHandshake
<1>. HIDE DEF greeting
<1>7. greeting \o <<Token("text")>> \in Seq(Plain)
  BY <1>4
<1>8. greeting \o <<Token("text")>> \o Prompt \in Seq(Plain)
  BY <1>4, <1>7
<1>13. greeting \o <<Token("text")>> \o Prompt \o <<>> \in Seq(Plain)
  BY <1>4, <1>8
<1>14. greeting \o <<Token("text")>> \o Prompt \o Reject \in Seq(Plain)
  BY <1>5, <1>8
<1>9. out' \in Seq(Plain)
  BY <1>4, <1>6, <1>13, <1>14
<1>10. \A k \in DOMAIN out' : out'[k] \in Plain
  BY <1>9
<1>11. out' \in Seq(HostTokens)
  BY <1>3, <1>9
<1>12. toBoard' \in Seq(BoardTokens)
  BY <1>1, TakesTypes
<1>. QED
  BY <1>3, <1>10, <1>11, <1>12 DEF TakeForHandshake

LEMMA BoardKeepsTypes ==
    ASSUME LinkAssumption, LinkTypes, Board
    PROVE  LinkTypes'
<1>. USE DEF LinkTypes
<1>1. FixedTypes' /\ Places'
  BY BoardFootprint DEF FixedTypes, Places
<1>2. ASSUME UNCHANGED toHost PROVE HostTypes'
  BY <1>2, BoardFootprint DEF HostTypes
<1>3. ASSUME Transmit PROVE HostTypes' /\ BoardTypes'
  <2>1. toHost' \in Seq(HostTokens) /\ out' \in Seq(HostTokens)
    BY <1>3 DEF Transmit, HostTypes, BoardTypes
  <2>2. HostTypes'
    BY <2>1, BoardFootprint DEF HostTypes
  <2>. QED
    BY <1>3, <2>1, <2>2 DEF Transmit, BoardTypes
<1>4. ASSUME Boot \/ ChipResets PROVE BoardTypes'
  <2>1. CASE Boot
    BY <2>1 DEF Boot, BoardTypes
  <2>2. CASE ChipResets
    BY <2>2 DEF ChipResets, BoardTypes
  <2>. QED
    BY <1>4, <2>1, <2>2
<1>5. ASSUME Greet \/ Ignore \/ Gather \/ MissCommand PROVE BoardTypes'
  BY <1>5, HearsTypes, AnswersAreTokens
  DEF Greet, Ignore, Gather, MissCommand, BoardTypes, boardVars, AtPrompt
<1>10. ASSUME TakeForHandshake PROVE BoardTypes'
  BY <1>10, TakenTypes DEF BoardTypes
<1>6. ASSUME AskImage \/ TakeImage PROVE BoardTypes'
  <2>1. CASE AskImage
    BY <2>1, HearsTypes DEF AskImage, BoardTypes, HeaderSize
  <2>2. CASE TakeImage
    BY <2>2, HearsTypes, ImageTokens, AnswersAreTokens DEF TakeImage, BoardTypes
  <2>. QED
    BY <1>6, <2>1, <2>2
<1>7. ASSUME TakeFalseHeader PROVE BoardTypes'
  <2>1. PICK k \in Messages : Hears(k) /\ eaten' = eaten + Width(k)
    BY <1>7 DEF TakeFalseHeader
  <2>2. Width(k) \in 1..HeaderSize
    BY DEF Width, HeaderSize
  <2>3. toBoard' \in Seq(BoardTokens) /\ out = <<>>
    BY <2>1, HearsTypes DEF BoardTypes
  <2>4. /\ board' \in {"hdr", "prompt", "litter", "garbled"} /\ out' \in {out, Prompt}
        /\ board' = "hdr" => eaten' < HeaderSize
        /\ UNCHANGED <<image, loaded>> /\ eaten \in 0..(HeaderSize - 1)
    BY <1>7 DEF TakeFalseHeader, BoardTypes
  <2>5. eaten' \in 0..(2 * HeaderSize)
    <3>. DEFINE w == Width(k)
    <3>1. eaten' = eaten + w
      BY <2>1
    <3>2. eaten \in 0..9 /\ w \in 1..10
      BY <2>2, <2>4 DEF HeaderSize
    <3>. HIDE DEF w
    <3>. QED
      BY <3>1, <3>2 DEF HeaderSize
  <2>. QED
    BY <2>3, <2>4, <2>5, AnswersAreTokens DEF BoardTypes
<1>8. ASSUME TakeGarbage PROVE BoardTypes'
  BY <1>8, HearsTypes, AnswersAreTokens DEF TakeGarbage, BoardTypes
<1>9. ASSUME Info \/ RunApplication \/ ResetCommand PROVE BoardTypes'
  BY <1>9, HearsTypes, AnswersAreTokens DEF Info, RunApplication, ResetCommand, BoardTypes
<1>. QED
  BY <1>1, <1>2, <1>3, <1>4, <1>5, <1>6, <1>7, <1>8, <1>9, <1>10, BoardFootprint DEF Board

LEMMA FaultsKeepTypes ==
    ASSUME LinkAssumption, LinkTypes, KillTool \/ PowerCycle
    PROVE  LinkTypes'
<1>. USE DEF LinkTypes
<1>0. FixedTypes'
  <2>1. MaxFaults[slow] \in Nat
    BY FaultsAssumption DEF FixedTypes
  <2>2. faults < MaxFaults[slow] /\ faults' = faults + 1 /\ UNCHANGED <<missing, slow, fooled>>
    BY DEF KillTool, PowerCycle
  <2>. QED
    BY <2>1, <2>2 DEF FixedTypes
<1>1. ASSUME KillTool PROVE LinkTypes'
  <2>1. samples' \in Arrays
    BY <1>1 DEF KillTool, Arrays, NoSample
  <2>2. 0 \in 0..Len(Script) /\ 1 \in 1..Runs
    BY ScriptLength DEF LinkAssumption
  <2>3. /\ host' = "closed" /\ step' = 0 /\ iter' = 1 /\ heard' = FALSE
        /\ line' = <<>> /\ total' = 0 /\ toHost' = <<>>
    BY <1>1 DEF KillTool
  <2>4. HostTypes'
    <3>1. line' \in Seq(HostTokens) /\ toHost' \in Seq(HostTokens)
      BY <2>3
    <3>2. step' \in 0..Len(Script) /\ iter' \in 1..Runs
      BY <2>2, <2>3
    <3>. QED
      BY <2>1, <2>3, <3>1, <3>2 DEF HostTypes
  <2>5. Places'
    BY <2>3 DEF Places
  <2>. QED
    BY <1>0, <1>1, <2>4, <2>5 DEF KillTool, BoardTypes, boardVars
<1>2. ASSUME PowerCycle PROVE LinkTypes'
  BY <1>0, <1>2 DEF PowerCycle, HostTypes, BoardTypes, Places, hostVars, HeaderSize, NoImage
<1>. QED
  BY <1>1, <1>2

------------------------------------------------------------------------------
(* A victim that cannot be opened.                                          *)

\* A line without values stays one when it is read and answered.
LEMMA SilentTail ==
    ASSUME NEW s \in Seq(HostTokens), s # <<>>, Silent(s)
    PROVE  Silent(Tail(s)) /\ Kind(Head(s)) # "mark" /\ Head(s) \in HostTokens
BY DEF Silent

LEMMA SilentAppend ==
    ASSUME NEW s \in Seq(HostTokens), Silent(s), NEW e \in HostTokens, Kind(e) # "mark"
    PROVE  Silent(Append(s, e))
BY DEF Silent

LEMMA SilentAnswers ==
    /\ Silent(<<>>) /\ Silent(Prompt) /\ Silent(Reject) /\ Silent(<<Token("text")>> \o Prompt)
    /\ Silent(<<Token("one")>>) /\ Silent(<<Token("nul")>>)
BY DEF Silent, Prompt, Reject, Token, Kind

\* and gives no sample.
LEMMA SilentLine ==
    ASSUME NEW ln \in Seq(HostTokens), Silent(ln), ProcessLine(ln),
           host \in {"seek", "collect"}
    PROVE  UNCHANGED samples /\ line' = <<>>
<1>1. Marks(ln) = {}
  BY DEF Marks, Silent
<1>. QED
  BY <1>1 DEF ProcessLine, StoreLine

\* The host sends nothing that would make the victim's image,
LEMMA VictimHost ==
    ASSUME LinkAssumption, LinkTypes, 0 \in missing, NoVictim, Host
    PROVE  NoVictim'
<1>0. /\ \A k \in DOMAIN toBoard : toBoard[k] # <<"hdr", 0>>
      /\ Silent(toHost) /\ Silent(line) /\ VictimLoaded
      /\ toBoard \in Seq(BoardTokens) /\ toHost \in Seq(HostTokens) /\ line \in Seq(HostTokens)
  BY DEF NoVictim, LinkTypes, HostTypes, BoardTypes
<1>a. SUFFICES /\ \A k \in DOMAIN toBoard' : toBoard'[k] # <<"hdr", 0>>
               /\ Silent(toHost') /\ Silent(line') /\ UNCHANGED samples
  BY <1>0, HostFootprint DEF NoVictim, VictimLoaded
<1>b. ASSUME NEW token, SendToken(token), token # <<"hdr", 0>>
      PROVE  \A k \in DOMAIN toBoard' : toBoard'[k] # <<"hdr", 0>>
  <2>1. CASE UNCHANGED toBoard
    BY <1>0, <2>1
  <2>2. ASSUME NEW sent, sent # <<"hdr", 0>>, board # "off", Delivered(sent)
        PROVE  \A k \in DOMAIN toBoard' : toBoard'[k] # <<"hdr", 0>>
    <3>. DEFINE n == Len(toBoard)
    <3>1. /\ n \in Nat /\ DOMAIN toBoard' = 1..(n + 1) /\ DOMAIN toBoard = 1..n
          /\ toBoard'[n + 1] = sent /\ \A k \in 1..n : toBoard'[k] = toBoard[k]
      BY <1>0, <2>2, Sent
    <3>. HIDE DEF n
    <3>2. DOMAIN toBoard' = 1..n \cup {n + 1}
      BY <3>1
    <3>. QED
      BY <1>0, <2>2, <3>1, <3>2
  <2>3. Token("scrap") # <<"hdr", 0>>
    BY DEF Token
  <2>. QED
    BY <1>b, <2>1, <2>2, <2>3, SentLine
<1>c. toHost # <<>> => Silent(Tail(toHost)) /\ Head(toHost) \in HostTokens
                       /\ Kind(Head(toHost)) # "mark"
  BY <1>0, SilentTail
<1>1. CASE OpenPort \/ KnockAgain \/ HandshakeDone
  BY <1>0, <1>1, <1>b, <1>c
  DEF OpenPort, KnockAgain, HandshakeDone, Send, Token, Receive, hostVars
<1>2. CASE LogByte \/ LogEnds \/ LogTimesOut \/ SkipCore \/ SkipImage \/ ClosePort
  BY <1>0, <1>2, <1>c, SilentAnswers
  DEF LogByte, LogEnds, LogTimesOut, SkipCore, SkipImage, ClosePort, Receive
<1>3. CASE SendCommand
  <2>1. Script[step + 1][1] \in Commands
    <3>1. step \in 0..Len(Script) /\ step < Len(Script)
      BY <1>3 DEF SendCommand, LinkTypes, HostTypes, Places
    <3>2. step + 1 \in 1..Len(Script)
      BY <3>1, ScriptLength
    <3>. QED
      BY <3>2, ScriptCommands
  <2>2. Token(Script[step + 1][1]) # <<"hdr", 0>>
    BY <2>1 DEF Token, Commands
  <2>. QED
    BY <1>0, <1>3, <1>b, <2>2, SilentAnswers DEF SendCommand, Send
<1>4. CASE SendImage
  BY <1>0, <1>4, <1>b DEF SendImage
<1>5. CASE ReadLine
  <2>1. Silent(Append(line, Head(toHost))) /\ Append(line, Head(toHost)) \in Seq(HostTokens)
    BY <1>0, <1>5, <1>c, SilentAppend DEF ReadLine
  <2>. QED
    BY <1>0, <1>5, <1>c, <2>1, SilentLine, SilentAnswers DEF ReadLine, Receive
<1>6. CASE LineTimesOut
  BY <1>0, <1>6, SilentLine, SilentAnswers DEF LineTimesOut
<1>. QED
  BY <1>1, <1>2, <1>3, <1>4, <1>5, <1>6 DEF Host

\* so the board never has it, and RUN prints no value.
LEMMA VictimBoard ==
    ASSUME LinkAssumption, LinkTypes, 0 \in missing, NoVictim, Board
    PROVE  NoVictim'
<1>0. /\ \A k \in DOMAIN toBoard : toBoard[k] # <<"hdr", 0>>
      /\ Silent(toHost) /\ Silent(line) /\ Silent(out) /\ VictimLoaded
      /\ image # 0 /\ 0 \notin loaded
      /\ toBoard \in Seq(BoardTokens) /\ toHost \in Seq(HostTokens) /\ out \in Seq(HostTokens)
  BY DEF NoVictim, LinkTypes, HostTypes, BoardTypes
<1>a. SUFFICES /\ \A k \in DOMAIN toBoard' : toBoard'[k] # <<"hdr", 0>>
               /\ image' # 0 /\ 0 \notin loaded'
               /\ Silent(out') /\ Silent(toHost')
  BY <1>0, BoardFootprint DEF NoVictim, VictimLoaded
<1>b. ASSUME NEW kind, Takes(kind)
      PROVE  /\ \A k \in DOMAIN toBoard' : toBoard'[k] # <<"hdr", 0>>
             /\ kind = "hdr" => Head(toBoard)[2] # 0
             /\ Silent(toHost')
  <2>. DEFINE n == Len(toBoard)
  <2>1. /\ n \in Nat \ {0} /\ DOMAIN toBoard' = 1..(n - 1) /\ DOMAIN toBoard = 1..n
        /\ \A k \in 1..(n - 1) : toBoard'[k] = toBoard[k + 1]
        /\ Head(toBoard) = toBoard[1] /\ toBoard[1] \in BoardTokens /\ Kind(toBoard[1]) = kind
        /\ UNCHANGED toHost
    BY <1>0, <1>b, Taken
  <2>. HIDE DEF n
  <2>2. 1 \in 1..n /\ \A k \in 1..(n - 1) : k + 1 \in 1..n
    BY <2>1
  <2>3. toBoard[1] = <<kind, toBoard[1][2]>>
    BY <2>1, ImageTokens
  <2>. QED
    BY <1>0, <2>1, <2>2, <2>3
<1>c. ASSUME NEW kind, Hears(kind)
      PROVE  /\ \A k \in DOMAIN toBoard' : toBoard'[k] # <<"hdr", 0>>
             /\ kind = "hdr" => Head(toBoard)[2] # 0
             /\ Silent(toHost')
  BY <1>b, <1>c DEF Hears
<1>7. CASE TakeForHandshake
  <2>1. Silent(out')
    BY <1>0, <1>7, TakenTypes DEF Silent
  <2>. QED
    BY <1>0, <1>7, <1>b, <2>1, TakenTypes DEF TakeForHandshake
<1>1. CASE Transmit
  <2>1. Silent(Tail(out)) /\ Silent(Append(toHost, Head(out)))
    BY <1>0, <1>1, SilentTail, SilentAppend DEF Transmit
  <2>. QED
    BY <1>0, <1>1, <2>1 DEF Transmit
<1>2. CASE Boot \/ ChipResets
  BY <1>0, <1>2, SilentAnswers DEF Boot, ChipResets
<1>3. CASE Greet \/ Ignore \/ Gather \/ MissCommand \/ Info
  BY <1>0, <1>3, <1>c, SilentAnswers DEF Greet, Ignore, Gather, MissCommand, Info, boardVars
<1>4. CASE AskImage \/ TakeImage
  BY <1>0, <1>4, <1>c, SilentAnswers DEF AskImage, TakeImage, NoImage
<1>5. CASE TakeFalseHeader \/ TakeGarbage
  BY <1>0, <1>5, <1>c, SilentAnswers DEF TakeFalseHeader, TakeGarbage
<1>6. CASE RunApplication \/ ResetCommand
  BY <1>0, <1>6, <1>c, SilentAnswers DEF RunApplication, ResetCommand
<1>. QED
  BY <1>1, <1>2, <1>3, <1>4, <1>5, <1>6, <1>7 DEF Board

\* A kill or a power cycle adds nothing to the line.
LEMMA VictimFaults ==
    ASSUME NoVictim, KillTool \/ PowerCycle
    PROVE  NoVictim'
<1>1. CASE KillTool
  BY <1>1, SilentAnswers DEF KillTool, NoVictim, VictimLoaded, boardVars
<1>2. CASE PowerCycle
  BY <1>2, SilentAnswers DEF PowerCycle, NoVictim, VictimLoaded, hostVars, NoImage
<1>. QED
  BY <1>1, <1>2


------------------------------------------------------------------------------
(* The order of the bytes on the way to the board.                          *)

\* The two tables, row by row.
LEMMA AfterIs ==
    /\ After("one") = {"one", "zero"} /\ After("zero") = Commands
    /\ After("body") = Commands /\ After("INFO") = Commands /\ After("RUN") = Commands
    /\ After("MMU") = {"hdr"} /\ After("LOAD") = {"hdr"} /\ After("hdr") = {"body"}
    /\ After("RESET") = {"one"}
BY DEF After

LEMMA NoScraps ==
    ASSUME LinkTypes, Left
    PROVE  "scrap" \notin Admitted
<1>1. "scrap" \notin Awaits
  BY DEF Awaits, Commands
<1>2. ASSUME toBoard # <<>> PROVE "scrap" \notin After(Kind(toBoard[Len(toBoard)]))
  <2>1. toBoard[Len(toBoard)] \in BoardTokens /\ Len(toBoard) \in DOMAIN toBoard
    BY <1>2 DEF LinkTypes, BoardTypes
  <2>2. Kind(toBoard[Len(toBoard)]) \in Messages
    BY <2>1, ImageTokens DEF Left, Unscathed, TokensToBoard
  <2>. QED
    BY <2>2, AfterIs DEF Messages, Commands
<1>. QED
  BY <1>1, <1>2 DEF Admitted

\* A board in time that has heard all the rest has what is sent to it.
LEMMA HostDelivers ==
    ASSUME Left, ~slow, NEW token, SendToken(token),
           \/ out = <<>>
           \/ Kind(token) # "body" /\ \A k \in DOMAIN toBoard : Kind(toBoard[k]) # "body"
    PROVE  Delivered(token)
BY SentLine DEF Unheard, Overruns, Deaf, Left, Unscathed, Delivered

LEMMA AwaitsIs ==
    /\ board = "prompt" => Awaits = Commands
    /\ board = "hdr" => Awaits = {"hdr"}
    /\ board = "body" => Awaits = {"body"}
    /\ board = "greeted" => Awaits = {"one", "zero"}
    /\ board \in {"off", "hello", "reset"} => Awaits = {"one"}
BY DEF Awaits

\* A token that is heard is one the firmware waits for, and the next one follows it.
LEMMA HeardInOrder ==
    ASSUME LinkTypes, Left, NEW kind, Hears(kind)
    PROVE  /\ kind \in Awaits /\ Chained(toBoard') /\ Unscathed(toBoard')
           /\ toBoard' # <<>> => Kind(toBoard'[1]) \in After(kind) /\ Admitted' = Admitted
           /\ toBoard' = <<>> => Admitted = After(kind) /\ Admitted' = Awaits'
<1>. DEFINE n == Len(toBoard)
<1>1. /\ n \in Nat \ {0} /\ Len(toBoard') = n - 1 /\ toBoard # <<>>
      /\ Kind(toBoard[1]) = kind
      /\ \A k \in 1..(n - 1) : toBoard'[k] = toBoard[k + 1]
      /\ toBoard' \in Seq(BoardTokens)
  BY Heard, HearsTypes DEF LinkTypes, BoardTypes
<1>2. \A k \in 1..(n - 1) : Kind(toBoard[k + 1]) \in After(Kind(toBoard[k]))
  BY DEF Left, Chained
<1>3. \A k \in 1..(n - 1) : Kind(toBoard'[k]) = Kind(toBoard[k + 1])
  BY <1>1
<1>4. toBoard' # <<>> <=> n > 1
  BY <1>1
<1>. HIDE DEF n
<1>5. kind \in Awaits
  BY <1>1 DEF Left
<1>6. Chained(toBoard')
  BY <1>1, <1>2, <1>3 DEF Chained
<1>9. Unscathed(toBoard')
  <2>1. DOMAIN toBoard' = 1..(n - 1) /\ \A k \in 1..(n - 1) : k + 1 \in DOMAIN toBoard
    BY <1>1 DEF n
  <2>. QED
    BY <1>1, <2>1 DEF Left, Unscathed
<1>7. ASSUME toBoard' # <<>>
      PROVE  Kind(toBoard'[1]) \in After(kind) /\ Admitted' = Admitted
  <2>1. n > 1 /\ 1 \in 1..(n - 1) /\ n - 1 \in 1..(n - 1) /\ (n - 1) + 1 = n
    BY <1>1, <1>4, <1>7
  <2>2. Kind(toBoard'[1]) \in After(kind)
    BY <1>1, <1>2, <1>3, <2>1
  <2>3. toBoard'[n - 1] = toBoard[n]
    BY <1>1, <2>1
  <2>4. Admitted = After(Kind(toBoard[n]))
    BY <1>1 DEF Admitted, n
  <2>5. Admitted' = After(Kind(toBoard'[n - 1]))
    BY <1>1, <1>7 DEF Admitted, After, Kind
  <2>. QED
    BY <2>2, <2>3, <2>4, <2>5
<1>8. ASSUME toBoard' = <<>> PROVE Admitted = After(kind) /\ Admitted' = Awaits'
  <2>1. n = 1
    BY <1>1, <1>4, <1>8
  <2>. QED
    BY <1>1, <1>8, <2>1 DEF Admitted, n
<1>. QED
  BY <1>5, <1>6, <1>7, <1>8, <1>9

\* When the firmware then waits for what may follow, the order is kept.
LEMMA HeardKeepsOrder ==
    ASSUME LinkTypes, Left, Right, NEW kind, Hears(kind), Awaits' = After(kind),
           board' \notin {"off", "litter", "garbled"}, board' = "hdr" => eaten' = 0
    PROVE  Left' /\ Right'
<1>1. Admitted' = Admitted /\ Left'
  BY HeardInOrder DEF Left
<1>2. UNCHANGED <<host, step>>
  BY Heard DEF LinkTypes, BoardTypes
<1>. QED
  BY <1>1, <1>2 DEF Right, Over

\* A token that may follow is sent.
LEMMA SentInOrder ==
    ASSUME LinkTypes, Left, NEW token \in BoardTokens, Delivered(token),
           Kind(token) \in Admitted, UNCHANGED <<board, eaten>>
    PROVE  /\ Left'
           /\ board = "off" => Admitted' = Admitted
           /\ board # "off" => Admitted' = After(Kind(token))
<1>. DEFINE n == Len(toBoard)
<1>0. Awaits' = Awaits
  BY DEF Awaits
<1>1. CASE board = "off"
  <2>1. toBoard' = toBoard
    BY <1>1 DEF Delivered
  <2>. QED
    BY <1>0, <1>1, <2>1 DEF Left, Unscathed, Admitted, Chained, After, Kind
<1>2. CASE board # "off"
  <2>1. /\ n \in Nat /\ toBoard' # <<>> /\ Len(toBoard') = n + 1
        /\ toBoard'[n + 1] = token
        /\ \A k \in 1..n : toBoard'[k] = toBoard[k]
        /\ toBoard # <<>> <=> n > 0
    BY <1>2, Sent DEF LinkTypes, BoardTypes
  <2>. HIDE DEF n
  <2>2. Admitted' = After(Kind(token))
    BY <2>1 DEF Admitted, After, Kind
  <2>3. ASSUME NEW k \in 1..n PROVE Kind(toBoard'[k + 1]) \in After(Kind(toBoard'[k]))
    <3>1. CASE k = n
      <4>1. Kind(token) \in After(Kind(toBoard[n]))
        BY <2>1, <3>1 DEF Admitted, n
      <4>. QED
        BY <2>1, <3>1, <4>1
    <3>2. CASE k < n
      <4>1. k \in 1..(n - 1) /\ k + 1 \in 1..n
        BY <2>1, <3>2
      <4>2. Kind(toBoard[k + 1]) \in After(Kind(toBoard[k]))
        BY <4>1 DEF Left, Chained, n
      <4>. QED
        BY <2>1, <4>1, <4>2
    <3>. QED
      BY <2>1, <3>1, <3>2
  <2>4. Chained(toBoard')
    BY <2>1, <2>3 DEF Chained
  <2>6. Unscathed(toBoard')
    <3>1. Kind(token) # "scrap" /\ DOMAIN toBoard' = 1..n \cup {n + 1} /\ DOMAIN toBoard = 1..n
      BY <2>1, NoScraps, Sent DEF LinkTypes, BoardTypes, n
    <3>. QED
      BY <2>1, <3>1 DEF Left, Unscathed
  <2>5. Kind(toBoard'[1]) \in Awaits
    <3>1. CASE n = 0
      BY <2>1, <3>1 DEF Admitted
    <3>2. CASE n > 0
      BY <2>1, <3>2 DEF Left
    <3>. QED
      BY <2>1, <3>1, <3>2
  <2>. QED
    BY <1>0, <1>2, <2>2, <2>4, <2>5, <2>6 DEF Left
<1>. QED
  BY <1>1, <1>2

\* As long as the host may not knock, there is no reset in the line.
LEMMA NoReset ==
    ASSUME LinkTypes, Restart, Unscathed(toBoard), "one" \notin Admitted \/ Knocks(toBoard)
    PROVE  \A k \in DOMAIN toBoard : Kind(toBoard[k]) # "RESET"
<1>. DEFINE n == Len(toBoard)
<1>1. n \in Nat /\ DOMAIN toBoard = 1..n /\ (toBoard # <<>> <=> n > 0)
  BY DEF LinkTypes, BoardTypes
<1>. HIDE DEF n
<1>2. ASSUME NEW k \in 1..n, Kind(toBoard[k]) = "RESET" PROVE FALSE
  <2>1. CASE Knocks(toBoard)
    BY <1>1, <1>2, <2>1 DEF Knocks
  <2>2. CASE "one" \notin Admitted
    <3>1. Admitted = After(Kind(toBoard[n]))
      BY <1>1, <1>2 DEF Admitted, n
    <3>2. Kind(toBoard[n]) \in {"RESET", "one"}
      BY <1>1, <1>2 DEF Restart, Unscathed
    <3>. QED
      BY <2>2, <3>1, <3>2, AfterIs
  <2>. QED
    BY <2>1, <2>2
<1>. QED
  BY <1>1, <1>2

\* Tokens that are heard and sent, from the side of those that stay.
LEMMA HeardRest ==
    ASSUME LinkTypes, NEW kind, Hears(kind)
    PROVE  /\ \A k \in DOMAIN toBoard' : /\ k + 1 \in DOMAIN toBoard
                                         /\ toBoard'[k] = toBoard[k + 1]
           /\ 1 \in DOMAIN toBoard /\ Kind(toBoard[1]) = kind
           /\ Len(toBoard) \in Nat /\ DOMAIN toBoard = 1..Len(toBoard)
           /\ toBoard' # <<>> => toBoard'[Len(toBoard')] = toBoard[Len(toBoard)]
           /\ toBoard' = <<>> => Len(toBoard) = 1
           /\ \A k \in DOMAIN toBoard : k = 1 \/ k - 1 \in DOMAIN toBoard'
<1>. DEFINE n == Len(toBoard)
<1>1. /\ n \in Nat \ {0} /\ Len(toBoard') = n - 1 /\ toBoard' \in Seq(BoardTokens)
      /\ DOMAIN toBoard = 1..n /\ DOMAIN toBoard' = 1..(n - 1)
      /\ \A k \in 1..(n - 1) : toBoard'[k] = toBoard[k + 1]
      /\ Kind(toBoard[1]) = kind
  BY Heard, HearsTypes DEF LinkTypes, BoardTypes
<1>2. toBoard' = <<>> <=> n - 1 = 0
  BY <1>1
<1>. HIDE DEF n
<1>3. toBoard' # <<>> => n - 1 \in 1..(n - 1) /\ (n - 1) + 1 = n
  BY <1>1, <1>2
<1>4. toBoard' # <<>> => toBoard'[Len(toBoard')] = toBoard[n]
  BY <1>1, <1>3
<1>5. \A k \in 1..(n - 1) : k + 1 \in 1..n
  BY <1>1
<1>6. 1 \in 1..n /\ \A k \in 1..n : k = 1 \/ k - 1 \in 1..(n - 1)
  BY <1>1
<1>. QED
  BY <1>1, <1>2, <1>4, <1>5, <1>6 DEF n

LEMMA DeliveredRest ==
    ASSUME LinkTypes, NEW token, Delivered(token)
    PROVE  /\ \A k \in DOMAIN toBoard' :
                 \/ k \in DOMAIN toBoard /\ toBoard'[k] = toBoard[k]
                 \/ /\ board # "off" /\ toBoard'[k] = token
                    /\ \A m \in DOMAIN toBoard' : ~(k < m)
           /\ board # "off" => toBoard' # <<>> /\ toBoard'[Len(toBoard')] = token
<1>. DEFINE n == Len(toBoard)
<1>1. CASE board = "off"
  BY <1>1 DEF Delivered
<1>2. CASE board # "off"
  <2>1. /\ n \in Nat /\ toBoard' # <<>> /\ Len(toBoard') = n + 1
        /\ DOMAIN toBoard = 1..n /\ DOMAIN toBoard' = 1..(n + 1)
        /\ toBoard'[n + 1] = token
        /\ \A k \in 1..n : toBoard'[k] = toBoard[k]
    BY <1>2, Sent DEF LinkTypes, BoardTypes
  <2>. HIDE DEF n
  <2>2. \A k \in 1..(n + 1) : k \in 1..n \/ (k = n + 1 /\ \A m \in 1..(n + 1) : ~(k < m))
    BY <2>1
  <2>. QED
    BY <1>2, <2>1, <2>2
<1>. QED
  BY <1>1, <1>2

LEMMA SentRest ==
    ASSUME LinkTypes, NEW token, SendToken(token)
    PROVE  /\ \A k \in DOMAIN toBoard' :
                 \/ k \in DOMAIN toBoard /\ toBoard'[k] = toBoard[k]
                 \/ /\ board # "off" /\ toBoard'[k] \in {token, Token("scrap")}
                    /\ \A m \in DOMAIN toBoard' : ~(k < m)
           /\ \/ Unheard /\ UNCHANGED toBoard
              \/ /\ board # "off" /\ toBoard' # <<>>
                 /\ toBoard'[Len(toBoard')] \in {token, Token("scrap")}
<1>1. CASE Unheard /\ UNCHANGED toBoard
  BY <1>1
<1>2. ASSUME NEW sent \in {token, Token("scrap")}, board # "off", Delivered(sent)
      PROVE  /\ \A k \in DOMAIN toBoard' :
                    \/ k \in DOMAIN toBoard /\ toBoard'[k] = toBoard[k]
                    \/ /\ board # "off" /\ toBoard'[k] \in {token, Token("scrap")}
                       /\ \A m \in DOMAIN toBoard' : ~(k < m)
             /\ toBoard' # <<>> /\ toBoard'[Len(toBoard')] \in {token, Token("scrap")}
  BY <1>2, DeliveredRest
<1>. QED
  BY <1>1, <1>2, SentLine

\* While the line has knocks only, the board has what is sent to it.
LEMMA KnocksHeard ==
    ASSUME LinkTypes, Knocks(toBoard), board # "off", NEW token, Kind(token) # "body",
           SendToken(token)
    PROVE  Delivered(token)
BY SentLine DEF Unheard, Overruns, Knocks

\* Neither side puts anything but a knock behind a reset.
LEMMA HeardKeepsRestart ==
    ASSUME LinkTypes, Restart, NEW kind, Hears(kind),
           board' = "hello" => Knocks(toBoard'), board' = "reset" => Spent(toBoard')
    PROVE  Restart'
<1>. DEFINE n == Len(toBoard)
<1>1. /\ n \in Nat \ {0} /\ Len(toBoard') = n - 1 /\ toBoard' \in Seq(BoardTokens)
      /\ DOMAIN toBoard = 1..n /\ DOMAIN toBoard' = 1..(n - 1) /\ toBoard # <<>>
      /\ \A k \in 1..(n - 1) : toBoard'[k] = toBoard[k + 1]
      /\ host' = host
  BY Heard, HearsTypes DEF LinkTypes, BoardTypes
<1>2. toBoard' # <<>> => Kind(toBoard'[n - 1]) = Kind(toBoard[n])
  <2>1. toBoard' # <<>> => n - 1 \in 1..(n - 1) /\ (n - 1) + 1 = n
    BY <1>1
  <2>. QED
    BY <1>1, <2>1
<1>. HIDE DEF n
<1>3. toBoard' # <<>> /\ Kind(toBoard'[Len(toBoard')]) = "one" => host' = "knock"
  BY <1>1, <1>2 DEF Restart, n
<1>4. ASSUME NEW k \in DOMAIN toBoard', NEW m \in DOMAIN toBoard', k < m,
             Kind(toBoard'[k]) = "RESET"
      PROVE  Kind(toBoard'[m]) \in {"one", "scrap"}
  <2>1. k \in 1..(n - 1) /\ m \in 1..(n - 1)
    BY <1>1, <1>4
  <2>2. /\ k + 1 \in DOMAIN toBoard /\ m + 1 \in DOMAIN toBoard /\ k + 1 < m + 1
        /\ Kind(toBoard[k + 1]) = "RESET" /\ toBoard'[m] = toBoard[m + 1]
    BY <1>1, <1>4, <2>1
  <2>. QED
    BY <2>2 DEF Restart
<1>. QED
  BY <1>3, <1>4 DEF Restart, Kind

LEMMA SentKeepsRestart ==
    ASSUME LinkTypes, board = "off" => toBoard = <<>>, Restart, NEW token, SendToken(token),
           board' = board,
           \/ Kind(token) = "one" /\ host' = "knock"
           \/ /\ Kind(token) # "one" /\ board \notin {"off", "hello", "reset"}
              /\ \A k \in DOMAIN toBoard : Kind(toBoard[k]) # "RESET"
              /\ host = "knock" => Knocks(toBoard)
    PROVE  Restart'
<1>1. CASE Unheard /\ UNCHANGED toBoard
  <2>1. CASE toBoard = <<>>
    BY <1>1, <2>1 DEF Restart, Knocks, Spent
  <2>2. CASE host' = "knock" \/ host # "knock"
    BY <1>1, <2>2 DEF Restart, Knocks, Spent, Kind
  <2>3. CASE board # "off" /\ Knocks(toBoard)
    BY <1>1, <2>3 DEF Unheard, Knocks
  <2>. QED
    BY <2>1, <2>2, <2>3
<1>2. ASSUME NEW sent, board # "off", Delivered(sent), Kind(sent) \in {Kind(token), "scrap"},
             board = "hello" => Kind(sent) = Kind(token)
      PROVE  Restart'
  <2>. DEFINE n == Len(toBoard)
  <2>1. /\ n \in Nat /\ toBoard' # <<>> /\ Len(toBoard') = n + 1
        /\ DOMAIN toBoard = 1..n /\ DOMAIN toBoard' = 1..(n + 1)
        /\ toBoard'[n + 1] = sent
        /\ \A k \in 1..n : toBoard'[k] = toBoard[k]
    BY <1>2, Sent DEF LinkTypes, BoardTypes
  <2>. HIDE DEF n
  <2>2. /\ board' = "hello" => Knocks(toBoard')
        /\ board' = "reset" => Spent(toBoard')
    <3>1. SUFFICES ASSUME board \in {"hello", "reset"}, NEW k \in 1..(n + 1)
                   PROVE  /\ Kind(toBoard'[k]) \in {"one", "scrap"}
                          /\ board = "hello" => Kind(toBoard'[k]) = "one"
      BY <2>1 DEF Knocks, Spent, Kind
    <3>2. /\ Kind(token) = "one" /\ Spent(toBoard)
          /\ board = "hello" => Knocks(toBoard)
      BY <3>1 DEF Restart, Spent, Knocks
    <3>3. k \in 1..n \/ k = n + 1
      BY <2>1, <3>1
    <3>. QED
      BY <1>2, <2>1, <3>1, <3>2, <3>3 DEF Knocks, Spent
  <2>3. Kind(toBoard'[n + 1]) = "one" => host' = "knock"
    BY <1>2, <2>1
  <2>4. ASSUME NEW k \in 1..(n + 1), NEW m \in 1..(n + 1), k < m,
               Kind(toBoard'[k]) = "RESET"
        PROVE  Kind(toBoard'[m]) \in {"one", "scrap"}
    <3>1. k \in 1..n /\ toBoard'[k] = toBoard[k]
      BY <2>1, <2>4
    <3>2. CASE m = n + 1
      BY <1>2, <2>1, <2>4, <3>1, <3>2
    <3>3. CASE m \in 1..n
      BY <2>1, <2>4, <3>1, <3>3 DEF Restart
    <3>. QED
      BY <2>1, <3>2, <3>3
  <2>. QED
    BY <2>1, <2>2, <2>3, <2>4 DEF Restart, Kind
<1>3. Kind(Token("scrap")) = "scrap"
  BY DEF Kind, Token
<1>4. Overruns(token) => board # "hello"
  <2>1. SUFFICES ASSUME Overruns(token), board = "hello" PROVE FALSE
    OBVIOUS
  <2>2. Kind(token) = "one" /\ Knocks(toBoard)
    BY <2>1 DEF Restart
  <2>. QED
    BY <2>1, <2>2 DEF Overruns, Knocks
<1>. QED
  BY <1>1, <1>2, <1>3, <1>4, SentLine

\* None of the later answers is the 0x1 of the handshake.
LEMMA NoGreeting ==
    /\ ~Greeting(<<>>) /\ ~Greeting(Prompt) /\ ~Greeting(Reject)
    /\ ~Greeting(<<Token("text")>> \o Prompt) /\ ~Greeting(<<Token("nul")>>)
BY DEF Greeting, Prompt, Reject, Token, Kind

LEMMA NoGreetingInBenchmark ==
    ASSUME LinkAssumption
    PROVE  ~Greeting(Benchmark \o Prompt)
<1>. DEFINE size == Outputs * Size
            value(k) == IF k % 2 = 1 THEN <<"mark", k \div 2>>
                                 ELSE <<"tail", (k \div 2) - 1>>
            middle == [k \in 1..(2 * size) |-> value(k)]
            first == <<Token("dollar")>>
            last == <<Token("end")>> \o Prompt
<1>1. size \in Nat /\ 2 * Outputs * Size = 2 * size
  BY DEF LinkAssumption
<1>2. Benchmark = first \o middle \o <<Token("end")>>
  BY <1>1 DEF Benchmark
<1>3. \A k \in 1..(2 * size) : Kind(middle[k]) \in {"mark", "tail"}
  BY DEF Kind
<1>4. middle \in Seq({"mark", "tail"} \X Int)
  <2>1. \A k \in 1..(2 * size) : value(k) \in {"mark", "tail"} \X Int
    <3>. HIDE DEF size
    <3>. QED
      BY <1>1
  <2>. HIDE DEF value, size
  <2>. QED
    BY <1>1, <2>1
<1>. DEFINE T == {"dollar", "end", "prompt", "nul", "mark", "tail"} \X Int
<1>5. middle \in Seq(T) /\ first \in Seq(T) /\ <<Token("end")>> \in Seq(T) /\ Prompt \in Seq(T)
  <2>. HIDE DEF middle
  <2>1. Token("dollar") \in T /\ Token("end") \in T /\ Token("prompt") \in T /\ Token("nul") \in T
    BY DEF Token
  <2>2. {"mark", "tail"} \X Int \subseteq T
    OBVIOUS
  <2>. HIDE DEF T
  <2>. QED
    BY <1>4, <2>1, <2>2 DEF Prompt
<1>. HIDE DEF middle, first, T
<1>6. Benchmark \o Prompt \in Seq(T)
  BY <1>2, <1>5
<1>7. ASSUME NEW k \in DOMAIN (Benchmark \o Prompt)
      PROVE  Kind((Benchmark \o Prompt)[k]) # "one"
  <2>. DEFINE s == Benchmark \o Prompt
  <2>. HIDE DEF s
  <2>1. s \in Seq(T) /\ k \in DOMAIN s
    BY <1>6, <1>7 DEF s
  <2>2. s[k] \in T
    BY <2>1
  <2>. QED
    BY <2>2 DEF T, Kind, s
<1>. QED
  BY <1>7 DEF Greeting

\* A firmware past the handshake prints no 0x1.
LEMMA PastHandshake ==
    ASSUME LinkAssumption, Board, ~Boot, ~Greet, ~Ignore, ~TakeForHandshake, ~ChipResets,
           ~Transmit
    PROVE  /\ board \notin {"off", "hello", "greeted"}
           /\ board' \notin {"off", "hello", "greeted"}
           /\ out = <<>> /\ toHost' = toHost /\ ~Greeting(out')
<1>1. CASE Gather \/ MissCommand
  BY <1>1, NoGreeting DEF Gather, MissCommand, AtPrompt, Hears, Takes
<1>2. CASE AskImage \/ TakeImage \/ TakeFalseHeader \/ TakeGarbage
  BY <1>2, NoGreeting DEF AskImage, TakeImage, TakeFalseHeader, TakeGarbage, AtPrompt, Hears, Takes
<1>3. CASE Info \/ ResetCommand
  BY <1>3, NoGreeting DEF Info, ResetCommand, AtPrompt, Hears, Takes
<1>4. CASE RunApplication
  BY <1>4, NoGreeting, NoGreetingInBenchmark DEF RunApplication, AtPrompt, Hears, Takes
<1>. QED
  BY <1>1, <1>2, <1>3, <1>4 DEF Board

\* Printing does not bring up a 0x1 either.
LEMMA NoGreetingTail ==
    ASSUME NEW s \in Seq(HostTokens), s # <<>>, Greeting(Tail(s))
    PROVE  Greeting(s)
<1>1. PICK k \in DOMAIN Tail(s) : Kind(Tail(s)[k]) = "one"
  BY DEF Greeting
<1>2. k + 1 \in DOMAIN s /\ Tail(s)[k] = s[k + 1]
  OBVIOUS
<1>. QED
  BY <1>1, <1>2 DEF Greeting

\* Steps that leave the line to the board alone.
LEMMA LineUntouched ==
    ASSUME UNCHANGED <<toBoard, board, eaten>>, Left
    PROVE  Left' /\ Admitted' = Admitted
<1>1. Awaits' = Awaits
  BY DEF Awaits
<1>2. Admitted' = Admitted
  BY <1>1 DEF Admitted, After, Kind
<1>3. Chained(toBoard') <=> Chained(toBoard)
  OBVIOUS
<1>. QED
  BY <1>1, <1>2, <1>3 DEF Left, Kind

\* What is read has no greeting, unless it is the answer to the knocks.
LEMMA ReadNoGreeting ==
    ASSUME LinkTypes, LinkTypes', toHost # <<>>, Receive, ~Greeting(toHost)
    PROVE  ~Greeting(toHost')
<1>1. ASSUME NEW k \in DOMAIN toHost' PROVE Kind(toHost'[k]) # "one"
  <2>1. k + 1 \in DOMAIN toHost /\ toHost'[k] = toHost[k + 1]
    BY <1>1, Received DEF LinkTypes, HostTypes
  <2>. QED
    BY <2>1 DEF Greeting
<1>. QED
  BY <1>1 DEF Greeting

\* The knocks are answered once,
LEMMA GreetedHost ==
    ASSUME LinkAssumption, LinkTypes, LinkTypes', Greeted, Host
    PROVE  Greeted'
<1>1. UNCHANGED <<board, out>>
  BY HostFootprint
<1>2. ASSUME host # "knock" PROVE ~Greeting(out) /\ ~Greeting(toHost)
  BY <1>2 DEF Greeted
<1>3. ASSUME ~Greeting(out), ~Greeting(toHost') PROVE Greeted'
  BY <1>1, <1>3 DEF Greeted, Greeting, Kind
<1>4. CASE KnockAgain
  <2>1. host = "knock" /\ host' = "knock" /\ SendToken(Token("one"))
    BY <1>4 DEF KnockAgain, Send, hostVars
  <2>2. Knocks(toBoard) /\ board = "greeted" => Knocks(toBoard')
    <3>1. Kind(Token("one")) = "one"
      BY DEF Token, Kind
    <3>. QED
      BY <2>1, <3>1, KnocksHeard, DeliveredRest DEF Knocks
  <2>3. \/ UNCHANGED toHost
        \/ toHost # <<>> /\ Receive /\ Kind(toHost[1]) # "one"
    BY <1>4, Received DEF KnockAgain, LinkTypes, HostTypes
  <2>4. ASSUME UNCHANGED toHost PROVE Greeted'
    <3>1. (Greeting(out') <=> Greeting(out)) /\ (Greeting(toHost') <=> Greeting(toHost))
      BY <1>1, <2>4
    <3>2. Greeting(out') => out' = <<Token("one")>> /\ ~Greeting(toHost')
      BY <1>1, <3>1 DEF Greeted
    <3>3. Greeting(toHost') =>
             out' = <<>> /\ \A k \in DOMAIN toHost' : Kind(toHost'[k]) = "one" => k = Len(toHost')
      BY <1>1, <2>4, <3>1 DEF Greeted
    <3>4. Greeting(out') \/ Greeting(toHost') =>
             host' = "knock" /\ board' = "greeted" /\ Knocks(toBoard')
      BY <1>1, <2>1, <2>2, <3>1 DEF Greeted
    <3>. QED
      BY <3>2, <3>3, <3>4 DEF Greeted
  <2>5. ASSUME toHost # <<>>, Receive, Kind(toHost[1]) # "one" PROVE Greeted'
    <3>. DEFINE n == Len(toHost)
    <3>1. /\ n \in Nat \ {0} /\ Len(toHost') = n - 1
          /\ DOMAIN toHost = 1..n /\ DOMAIN toHost' = 1..(n - 1)
          /\ \A k \in 1..(n - 1) : toHost'[k] = toHost[k + 1]
      BY <2>5, Received DEF LinkTypes, HostTypes
    <3>. HIDE DEF n
    <3>2. ASSUME Greeting(toHost') PROVE Greeting(toHost)
      <4>1. PICK k \in DOMAIN toHost' : Kind(toHost'[k]) = "one"
        BY <3>2 DEF Greeting
      <4>2. k + 1 \in DOMAIN toHost /\ Kind(toHost[k + 1]) = "one"
        BY <3>1, <4>1
      <4>. QED
        BY <4>2 DEF Greeting
    <3>3. ASSUME Greeting(toHost'), NEW k \in DOMAIN toHost', Kind(toHost'[k]) = "one"
          PROVE  k = Len(toHost')
      <4>1. k + 1 \in DOMAIN toHost /\ Kind(toHost[k + 1]) = "one"
        BY <3>1, <3>3
      <4>2. k + 1 = n
        BY <3>2, <3>3, <4>1 DEF Greeted, n
      <4>. QED
        BY <3>1, <3>3, <4>2
    <3>4. Greeting(out') => out' = <<Token("one")>> /\ ~Greeting(toHost')
      BY <1>1, <3>2 DEF Greeted
    <3>5. Greeting(toHost') =>
             out' = <<>> /\ \A k \in DOMAIN toHost' : Kind(toHost'[k]) = "one" => k = Len(toHost')
      BY <1>1, <3>2, <3>3 DEF Greeted
    <3>6. Greeting(out') \/ Greeting(toHost') =>
             host' = "knock" /\ board' = "greeted" /\ Knocks(toBoard')
      BY <1>1, <2>1, <2>2, <3>2 DEF Greeted
    <3>. QED
      BY <3>4, <3>5, <3>6 DEF Greeted
  <2>. QED
    BY <2>3, <2>4, <2>5
<1>5. CASE HandshakeDone
  <2>1. toHost # <<>> /\ Receive /\ Kind(toHost[1]) = "one"
    BY <1>5, Received DEF HandshakeDone, LinkTypes, HostTypes
  <2>2. /\ Len(toHost) \in Nat \ {0} /\ DOMAIN toHost = 1..Len(toHost)
        /\ Len(toHost') = Len(toHost) - 1 /\ toHost' \in Seq(HostTokens)
    BY <2>1, Received DEF LinkTypes, HostTypes
  <2>3. 1 \in DOMAIN toHost
    BY <2>2
  <2>4. out = <<>> /\ Len(toHost) = 1
    BY <2>1, <2>3 DEF Greeted, Greeting
  <2>5. toHost' = <<>>
    BY <2>2, <2>4
  <2>. QED
    BY <1>3, <2>4, <2>5, NoGreeting
<1>6. CASE ~KnockAgain /\ ~HandshakeDone
  <2>1. host # "knock" /\ (toHost' = toHost \/ (toHost # <<>> /\ Receive) \/ toHost' = <<>>)
    BY <1>6 DEF Host, OpenPort, LogByte, LogEnds, LogTimesOut, SkipCore, SendCommand,
       SendImage, SkipImage, ReadLine, LineTimesOut, ClosePort
  <2>2. ~Greeting(toHost')
    BY <1>2, <2>1, ReadNoGreeting, NoGreeting
  <2>. QED
    BY <1>2, <1>3, <2>1, <2>2
<1>. QED
  BY <1>4, <1>5, <1>6

LEMMA GreetedBoard ==
    ASSUME LinkAssumption, LinkTypes, LinkTypes', Greeted, Restart, Board,
           ~TakeForHandshake
    PROVE  Greeted'
<1>1. CASE board = "hello" /\ Greet
  <2>1. /\ Hears("one") /\ board' = "greeted" /\ out' = <<Token("one")>>
        /\ UNCHANGED <<host, toHost>>
    BY <1>1 DEF Greet, Hears, Takes, hostVars
  <2>2. Knocks(toBoard')
    BY <1>1, <2>1, HeardRest DEF Restart, Knocks
  <2>3. host' = "knock"
    <3>1. toBoard # <<>> /\ Len(toBoard) \in DOMAIN toBoard
      BY <2>1, Heard DEF LinkTypes, BoardTypes
    <3>2. Kind(toBoard[Len(toBoard)]) = "one"
      BY <1>1, <3>1 DEF Restart, Knocks
    <3>. QED
      BY <2>1, <3>1, <3>2 DEF Restart
  <2>4. ~Greeting(toHost')
    BY <1>1, <2>1 DEF Greeted
  <2>. QED
    BY <2>1, <2>2, <2>3, <2>4 DEF Greeted
<1>2. CASE board = "greeted" /\ Greet
  <2>1. /\ Hears("zero") /\ out' = <<Token("text")>> \o Prompt /\ toHost' = toHost
    BY <1>2 DEF Greet, Hears, Takes
  <2>2. ~Knocks(toBoard)
    BY <2>1, HeardRest DEF Knocks
  <2>3. ~Greeting(out') /\ ~Greeting(toHost')
    BY <2>1, <2>2, NoGreeting DEF Greeted
  <2>. QED
    BY <2>3 DEF Greeted
<1>3. CASE Ignore
  <2>1. PICK kind : Hears(kind)
    BY <1>3 DEF Ignore
  <2>2. UNCHANGED <<host, board, out, toHost>>
    BY <1>3, <2>1 DEF Ignore, boardVars, Hears, Takes, hostVars
  <2>3. Knocks(toBoard) => Knocks(toBoard')
    BY <2>1, HeardRest DEF Knocks
  <2>4. (Greeting(out') <=> Greeting(out)) /\ (Greeting(toHost') <=> Greeting(toHost))
    BY <2>2
  <2>. QED
    BY <2>2, <2>3, <2>4 DEF Greeted
<1>4. CASE Board /\ ~Boot /\ ~Greet /\ ~Ignore /\ ~ChipResets /\ ~Transmit
  <2>1. board # "greeted" /\ toHost' = toHost /\ ~Greeting(out')
    BY <1>4, PastHandshake
  <2>2. ~Greeting(toHost')
    BY <2>1 DEF Greeted
  <2>. QED
    BY <2>1, <2>2 DEF Greeted
<1>5. CASE Boot \/ ChipResets
  <2>1. board # "greeted" /\ (out' = out \/ out' = <<>>) /\ toHost' = toHost
    BY <1>5 DEF Boot, ChipResets
  <2>2. ~Greeting(out') /\ ~Greeting(toHost')
    BY <2>1, NoGreeting DEF Greeted
  <2>. QED
    BY <2>2 DEF Greeted
<1>6. CASE Transmit
  <2>1. /\ out # <<>> /\ out' = Tail(out) /\ UNCHANGED <<host, board, toBoard>>
        /\ toHost' = toHost \/ toHost' = Append(toHost, Head(out))
    BY <1>6 DEF Transmit, hostVars
  <2>2. toHost \in Seq(HostTokens) /\ out \in Seq(HostTokens)
    BY DEF LinkTypes, HostTypes, BoardTypes
  <2>3. ~Greeting(toHost)
    BY <2>1 DEF Greeted
  <2>4. ASSUME toHost' = toHost PROVE Greeted'
    <3>1. CASE Greeting(out)
      <4>1. out = <<Token("one")>> /\ host = "knock"
        BY <3>1 DEF Greeted
      <4>2. toHost' = Append(toHost, Head(out))
        BY <1>6, <4>1 DEF Transmit
      <4>. QED
        BY <2>2, <2>4, <4>2
    <3>2. CASE ~Greeting(out)
      <4>1. ~Greeting(out') /\ ~Greeting(toHost')
        BY <2>1, <2>2, <2>3, <2>4, <3>2, NoGreetingTail
      <4>. QED
        BY <4>1 DEF Greeted
    <3>. QED
      BY <3>1, <3>2
  <2>5. ASSUME toHost' = Append(toHost, Head(out)) PROVE Greeted'
    <3>. DEFINE n == Len(toHost)
                e == Head(out)
    <3>1. /\ n \in Nat /\ Len(toHost') = n + 1 /\ toHost'[n + 1] = e
          /\ DOMAIN toHost = 1..n /\ DOMAIN toHost' = 1..(n + 1)
          /\ \A k \in 1..n : toHost'[k] = toHost[k]
      BY <2>1, <2>2, <2>5
    <3>. HIDE DEF n, e
    <3>2. ASSUME NEW k \in DOMAIN toHost', Kind(toHost'[k]) = "one"
          PROVE  k = n + 1 /\ Kind(e) = "one"
      BY <2>3, <3>1, <3>2 DEF Greeting
    <3>3. CASE Greeting(out)
      <4>1. out = <<Token("one")>> /\ host = "knock" /\ board = "greeted" /\ Knocks(toBoard)
        BY <3>3 DEF Greeted
      <4>2. out' = <<>>
        BY <2>1, <4>1
      <4>3. ~Greeting(out')
        BY <4>2, NoGreeting
      <4>4. host' = "knock" /\ board' = "greeted" /\ Knocks(toBoard')
        BY <2>1, <4>1
      <4>. QED
        BY <3>1, <3>2, <4>2, <4>3, <4>4 DEF Greeted
    <3>4. CASE ~Greeting(out)
      <4>1. 1 \in DOMAIN out /\ e = out[1]
        BY <2>1, <2>2 DEF e
      <4>2. Kind(e) # "one"
        BY <3>4, <4>1 DEF Greeting
      <4>3. ~Greeting(toHost')
        BY <3>2, <4>2 DEF Greeting
      <4>4. ~Greeting(out')
        BY <2>1, <2>2, <3>4, NoGreetingTail
      <4>. QED
        BY <4>3, <4>4 DEF Greeted
    <3>. QED
      BY <3>3, <3>4
  <2>. QED
    BY <2>1, <2>4, <2>5
<1>7. CASE Greet
  BY <1>1, <1>2, <1>7 DEF Greet
<1>. QED
  BY <1>3, <1>4, <1>5, <1>6, <1>7

\* and only a knock follows a reset.
LEMMA RestartBoard ==
    ASSUME LinkAssumption, LinkTypes, Restart, board = "off" => toBoard = <<>>, Board,
           ~TakeForHandshake
    PROVE  Restart'
<1>1. CASE Boot \/ ChipResets
  <2>1. toBoard' = <<>>
    BY <1>1 DEF Boot, ChipResets
  <2>. QED
    BY <2>1 DEF Restart, Knocks, Spent
<1>2. CASE Transmit
  BY <1>2 DEF Transmit, Restart, Knocks, Spent, Kind, hostVars
<1>3. CASE Ignore
  <2>1. PICK kind : Hears(kind)
    BY <1>3 DEF Ignore
  <2>2. board' = board
    BY <1>3 DEF Ignore, boardVars
  <2>3. board' = "hello" => Knocks(toBoard')
    BY <2>1, <2>2, HeardRest DEF Restart, Knocks
  <2>4. board' # "reset"
    BY <1>3, <2>2 DEF Ignore
  <2>. QED
    BY <2>1, <2>3, <2>4, HeardKeepsRestart
<1>4. CASE ResetCommand
  <2>1. Hears("RESET")
    BY <1>4 DEF ResetCommand
  <2>2. ASSUME NEW k \in DOMAIN toBoard' PROVE Kind(toBoard'[k]) \in {"one", "scrap"}
    <3>1. k + 1 \in DOMAIN toBoard /\ toBoard'[k] = toBoard[k + 1] /\ 1 \in DOMAIN toBoard
          /\ Kind(toBoard[1]) = "RESET"
      BY <2>1, <2>2, HeardRest
    <3>2. 1 < k + 1
      <4>1. k \in 1..(Len(toBoard) - 1) /\ Len(toBoard) \in Nat
        BY <2>1, <2>2, Heard DEF LinkTypes, BoardTypes
      <4>. QED
        BY <4>1
    <3>. QED
      BY <3>1, <3>2 DEF Restart
  <2>3. board' = "reset"
    BY <1>4 DEF ResetCommand
  <2>. QED
    BY <2>1, <2>2, <2>3, HeardKeepsRestart DEF Spent
<1>5. CASE Greet \/ Gather \/ MissCommand \/ AskImage
  <2>1. PICK kind : Hears(kind)
    BY <1>5 DEF Greet, Gather, MissCommand, AskImage
  <2>2. board' \notin {"hello", "reset"}
    BY <1>5 DEF Greet, Gather, MissCommand, AskImage, AtPrompt
  <2>. QED
    BY <2>1, <2>2, HeardKeepsRestart
<1>6. CASE TakeImage \/ TakeFalseHeader \/ TakeGarbage
  <2>1. PICK kind : Hears(kind)
    BY <1>6 DEF TakeImage, TakeFalseHeader, TakeGarbage
  <2>2. board' \notin {"hello", "reset"}
    BY <1>6 DEF TakeImage, TakeFalseHeader, TakeGarbage
  <2>. QED
    BY <2>1, <2>2, HeardKeepsRestart
<1>7. CASE Info \/ RunApplication
  <2>1. PICK kind : Hears(kind)
    BY <1>7 DEF Info, RunApplication
  <2>2. board' \notin {"hello", "reset"}
    BY <1>7 DEF Info, RunApplication
  <2>. QED
    BY <2>1, <2>2, HeardKeepsRestart
<1>. QED
  BY <1>1, <1>2, <1>3, <1>4, <1>5, <1>6, <1>7 DEF Board

\* from the host, which sends RESET last,
LEMMA RestartHost ==
    ASSUME LinkAssumption, LinkTypes, Orderly, board = "off" => toBoard = <<>>, Host
    PROVE  Restart' /\ Up'
<1>. USE DEF Orderly
<1>0. /\ UNCHANGED board /\ Visited \in Nat /\ Len(Script) = Visited + 4 /\ step \in Nat
      /\ toBoard \in Seq(BoardTokens)
  BY HostFootprint, ScriptLength DEF LinkTypes, HostTypes, BoardTypes
<1>1. CASE OpenPort \/ KnockAgain
  <2>1. host' = "knock" /\ SendToken(Token("one")) /\ Kind(Token("one")) = "one"
    BY <1>1 DEF OpenPort, KnockAgain, Send, hostVars, Token, Kind
  <2>2. Restart'
    BY <1>0, <2>1, SentKeepsRestart
  <2>. QED
    BY <2>1, <2>2 DEF Up, Session
\* A token that is no knock is sent only when no reset is ahead.
<1>a. ASSUME NEW token, SendToken(token), Kind(token) # "one",
             board \notin {"off", "hello", "reset"},
             \A k \in DOMAIN toBoard : Kind(toBoard[k]) # "RESET",
             host = "knock" => Knocks(toBoard), Session' => Kind(token) # "RESET"
      PROVE  Restart' /\ Up'
  <2>1. Restart'
    BY <1>0, <1>a, SentKeepsRestart
  <2>2. Session' => \A k \in DOMAIN toBoard' : Kind(toBoard'[k]) # "RESET"
    <3>1. Kind(Token("scrap")) # "RESET"
      BY DEF Kind, Token
    <3>. QED
      BY <1>a, <3>1, SentRest
  <2>. QED
    BY <1>0, <1>a, <2>1, <2>2 DEF Up, Kind
<1>2. CASE HandshakeDone
  <2>1. SendToken(Token("zero")) /\ Kind(Token("zero")) = "zero" /\ toHost # <<>>
        /\ Kind(toHost[1]) = "one"
    BY <1>2, Received DEF HandshakeDone, Send, Token, Kind, LinkTypes, HostTypes
  <2>2. Greeting(toHost)
    <3>1. 1 \in DOMAIN toHost
      BY <2>1 DEF LinkTypes, HostTypes
    <3>. QED
      BY <2>1, <3>1 DEF Greeting
  <2>3. board = "greeted" /\ Knocks(toBoard)
    BY <2>2 DEF Greeted
  <2>. QED
    BY <1>a, <2>1, <2>3 DEF Knocks
<1>3. CASE SendCommand
  <2>. DEFINE c == Script[step + 1][1]
  <2>1. host = "send" /\ step' = step + 1 /\ SendToken(Token(c))
    BY <1>3 DEF SendCommand, Send
  <2>2. step < Len(Script) /\ step + 1 \in 1..Len(Script)
    BY <1>0, <2>1 DEF LinkTypes, Places
  <2>3. Session /\ c \in Commands /\ (c = "RESET" <=> step + 1 = Len(Script))
    BY <1>0, <2>1, <2>2, ScriptCommands DEF Session
  <2>. HIDE DEF c
  <2>4. Kind(Token(c)) = c /\ "one" \notin Commands
    BY DEF Token, Kind, Commands
  <2>5. Session' => c # "RESET"
    BY <1>0, <2>1, <2>3 DEF Session
  <2>. QED
    BY <1>a, <2>1, <2>3, <2>4, <2>5 DEF Up
<1>4. CASE SendImage
  <2>. DEFINE token == <<host, Script[step][2]>>
  <2>1. host \in {"hdr", "body"} /\ SendToken(token) /\ Kind(token) = host
    BY <1>4 DEF SendImage, Kind
  <2>2. Session
    BY <1>0, <2>1 DEF LinkTypes, Places, Session
  <2>. HIDE DEF token
  <2>. QED
    BY <1>a, <2>1, <2>2 DEF Up
<1>5. CASE ~(OpenPort \/ KnockAgain \/ HandshakeDone \/ SendCommand \/ SendImage)
  <2>1. host # "knock" /\ toBoard' = toBoard
    BY <1>5 DEF Host, LogByte, LogEnds, LogTimesOut, SkipCore, SkipImage, ReadLine,
       LineTimesOut, ClosePort
  <2>2. Restart'
    BY <1>0, <2>1 DEF Restart, Knocks, Spent, Kind
  <2>3. Session' => Session
    <3>1. CASE LogByte \/ LogEnds \/ LogTimesOut \/ SkipImage \/ ReadLine \/ LineTimesOut
      BY <3>1 DEF LogByte, LogEnds, LogTimesOut, SkipImage, ReadLine, LineTimesOut, ProcessLine,
         Session
    <3>2. CASE SkipCore
      BY <1>0, <3>2 DEF SkipCore, Session, LinkTypes, Places
    <3>3. CASE ClosePort
      BY <3>3 DEF ClosePort, Session
    <3>. QED
      BY <1>5, <3>1, <3>2, <3>3 DEF Host
  <2>. QED
    BY <1>0, <2>1, <2>2, <2>3 DEF Up, Kind
<1>. QED
  BY <1>1, <1>2, <1>3, <1>4, <1>5

\* and from the board, which hears nothing else that would stop it.
LEMMA UpBoard ==
    ASSUME LinkAssumption, LinkTypes, Up, Board, ~TakeForHandshake
    PROVE  Up'
<1>1. SUFFICES ASSUME Session PROVE /\ board' \notin {"off", "hello", "reset"}
                                    /\ \A k \in DOMAIN toBoard' : Kind(toBoard'[k]) # "RESET"
  BY BoardFootprint DEF Up, Session
<1>2. board \notin {"off", "hello", "reset"} /\ \A k \in DOMAIN toBoard : Kind(toBoard[k]) # "RESET"
  BY <1>1 DEF Up
<1>3. CASE Transmit
  BY <1>2, <1>3 DEF Transmit, Kind
<1>4. CASE ~Transmit
  <2>1. PICK kind : Hears(kind) /\ (board' # board => board' \notin {"off", "hello", "reset"}
                                                      \/ kind = "RESET")
    <3>1. CASE Greet \/ Ignore \/ Gather \/ MissCommand \/ AskImage
      BY <3>1 DEF Greet, Ignore, Gather, MissCommand, AskImage, boardVars
    <3>2. CASE TakeImage \/ TakeFalseHeader \/ TakeGarbage
      BY <3>2 DEF TakeImage, TakeFalseHeader, TakeGarbage
    <3>3. CASE Info \/ RunApplication \/ ResetCommand
      BY <3>3 DEF Info, RunApplication, ResetCommand
    <3>4. CASE Boot \/ ChipResets
      BY <1>2, <3>4 DEF Boot, ChipResets
    <3>. QED
      BY <1>4, <3>1, <3>2, <3>3, <3>4 DEF Board
  <2>. QED
    BY <1>2, <2>1, HeardRest
<1>. QED
  BY <1>3, <1>4

\* This is so as long as nobody interferes.
LEMMA StaysOrderly ==
    ASSUME LinkAssumption, LinkTypes, LinkTypes', Orderly, board = "off" => toBoard = <<>>,
           Host \/ Board, ~TakeForHandshake
    PROVE  Orderly'
BY GreetedHost, RestartHost, GreetedBoard, RestartBoard, UpBoard DEF Orderly

\* A firmware hears no image before the handshake.
LEMMA NotFooled ==
    ASSUME LinkTypes, Left
    PROVE  ~TakeForHandshake
<1>1. SUFFICES ASSUME TakeForHandshake PROVE FALSE
  OBVIOUS
<1>2. PICK k \in {"hdr", "body"} : Takes(k)
  BY <1>1 DEF TakeForHandshake
<1>3. toBoard # <<>> /\ Kind(toBoard[1]) = k
  BY <1>2, Taken DEF LinkTypes, BoardTypes
<1>4. k \in Awaits
  BY <1>3 DEF Left
<1>. QED
  BY <1>1, <1>4, AwaitsIs DEF TakeForHandshake

\* The grammar implies it.
LEMMA SessionAdmits ==
    ASSUME LinkAssumption, LinkTypes, InOrder, Session
    PROVE  /\ "one" \notin Admitted /\ board \notin {"off", "hello", "reset"}
           /\ \A k \in DOMAIN toBoard : Kind(toBoard[k]) # "RESET"
<1>1. host \in {"log", "send", "seek", "collect", "hdr", "body"} /\ step < Len(Script)
  BY ScriptLength DEF Session, LinkTypes, HostTypes, Places
<1>2. "one" \notin Admitted
  BY <1>1 DEF InOrder, Right, Commands
<1>3. ASSUME board \in {"off", "hello", "reset"} PROVE FALSE
  <2>1. Awaits = {"one"} /\ (board = "off" => toBoard = <<>>)
    BY <1>3, AwaitsIs DEF InOrder, Left
  <2>2. toBoard # <<>> => Kind(toBoard[Len(toBoard)]) = "one"
    BY <1>3, <2>1 DEF InOrder, Left, Unscathed, Restart, Knocks, Spent, LinkTypes, BoardTypes
  <2>. QED
    BY <1>2, <2>1, <2>2, AfterIs DEF Admitted
<1>. QED
  BY <1>2, <1>3, NoReset DEF InOrder, Left

\* Every step of the host keeps the order, if all binaries can be opened,
LEMMA OrderHost ==
    ASSUME LinkAssumption, LinkTypes, LinkTypes', Undisturbed, ~slow, InOrder, Attended, Host
    PROVE  InOrder'
<1>. USE DEF LinkTypes
<1>0. /\ Visited \in Nat /\ Len(Script) = Visited + 4 /\ step \in 0..Len(Script)
      /\ step' \in 0..Len(Script) /\ step \in Nat
      /\ toBoard \in Seq(BoardTokens) /\ toHost \in Seq(HostTokens)
  <2>1. /\ step \in 0..Len(Script) /\ step' \in 0..Len(Script)
        /\ toBoard \in Seq(BoardTokens) /\ toHost \in Seq(HostTokens)
    BY DEF HostTypes, BoardTypes
  <2>. QED
    BY <2>1, ScriptLength
<1>a. Orderly'
  <2>1. Orderly /\ (board = "off" => toBoard = <<>>)
    BY SessionAdmits DEF InOrder, Orderly, Up, Left
  <2>. QED
    BY <2>1, StaysOrderly, NotFooled DEF InOrder
<1>. SUFFICES Left' /\ Right'
  BY <1>a DEF Orderly, InOrder
<1>. USE DEF InOrder
<1>1. CASE OpenPort \/ KnockAgain
  <2>1. /\ host \in {"closed", "knock"} /\ host' = "knock" /\ SendToken(Token("one"))
        /\ UNCHANGED <<board, eaten>>
    BY <1>1 DEF OpenPort, KnockAgain, Send, boardVars, hostVars
  <2>2. Token("one") \in BoardTokens /\ Kind(Token("one")) = "one"
    BY DEF Token, Kind, BoardTokens
  <2>3. "one" \in Admitted
    BY <2>1 DEF Right, Over
  <2>6. Delivered(Token("one"))
    BY <2>1, <2>2, HostDelivers DEF Attended
  <2>4. Left' /\ "one" \in Admitted'
    BY <2>1, <2>2, <2>3, <2>6, SentInOrder, AfterIs
  <2>5. Right'
    BY <2>1, <2>4 DEF Right
  <2>. QED
    BY <2>4, <2>5
<1>2. CASE HandshakeDone
  <2>1. /\ host = "knock" /\ host' = "log" /\ SendToken(Token("zero"))
        /\ toHost # <<>> /\ Kind(toHost[1]) = "one"
        /\ UNCHANGED <<step, board, eaten>>
    BY <1>0, <1>2, Received DEF HandshakeDone, Send, boardVars
  <2>2. Token("zero") \in BoardTokens /\ Kind(Token("zero")) = "zero"
    BY DEF Token, Kind, BoardTokens
  <2>3. Greeting(toHost)
    <3>1. 1 \in DOMAIN toHost
      BY <1>0, <2>1
    <3>. QED
      BY <2>1, <3>1 DEF Greeting
  <2>4. board = "greeted" /\ Knocks(toBoard)
    BY <2>3 DEF Greeted
  <2>5. Admitted = {"one", "zero"}
    <3>1. CASE toBoard = <<>>
      BY <2>4, <3>1, AwaitsIs DEF Admitted
    <3>2. CASE toBoard # <<>>
      <4>1. Kind(toBoard[Len(toBoard)]) = "one"
        BY <1>0, <2>4, <3>2 DEF Knocks
      <4>. QED
        BY <3>2, <4>1, AfterIs DEF Admitted
    <3>. QED
      BY <3>1, <3>2
  <2>8. Delivered(Token("zero"))
    BY <2>1, <2>2, <2>4, KnocksHeard
  <2>6. Left' /\ Admitted' = Commands
    BY <2>1, <2>2, <2>4, <2>5, <2>8, SentInOrder, AfterIs
  <2>7. Right'
    BY <1>0, <2>1, <2>6 DEF Right, Over, Places
  <2>. QED
    BY <2>6, <2>7
\* The log, and the lines of a benchmark.
<1>3. CASE LogByte
  <2>1. UNCHANGED <<host, step, toBoard, board, eaten>> /\ host = "log"
    BY <1>3 DEF LogByte, boardVars
  <2>. QED
    BY <2>1, LineUntouched DEF Right, Over
<1>4. CASE LogEnds \/ LogTimesOut
  <2>1. UNCHANGED <<step, toBoard, board, eaten>> /\ host = "log" /\ host' = AfterLog
    BY <1>4 DEF LogEnds, LogTimesOut, boardVars
  <2>. QED
    BY <1>0, <2>1, LineUntouched DEF Right, Over, AfterLog
<1>5. CASE SkipCore
  <2>1. UNCHANGED <<host, toBoard, board, eaten>> /\ host = "send" /\ step' = step + 1
    BY <1>5 DEF SkipCore, boardVars
  <2>2. step < Len(Script) /\ step' < Len(Script)
    BY <1>0, <2>1 DEF Places
  <2>. QED
    BY <1>0, <2>1, <2>2, LineUntouched DEF Right, Over
\* A command or a part of an image goes to a board that is up.
<1>b. ASSUME NEW token \in BoardTokens, Delivered(token), "one" \notin Admitted,
             Kind(token) \in Admitted, UNCHANGED <<board, eaten>>
      PROVE  Left' /\ Admitted' = After(Kind(token))
  <2>1. board # "off"
    <3>1. ASSUME board = "off" PROVE FALSE
      BY <1>b, <3>1, AwaitsIs DEF Admitted, Left
    <3>. QED
      BY <3>1
  <2>. QED
    BY <1>b, <2>1, SentInOrder
<1>6. CASE SendCommand
  <2>. DEFINE n == step + 1
              c == Script[n][1]
  <2>1. /\ host = "send" /\ step' = n /\ SendToken(Token(c))
        /\ host' = CASE c \in {"MMU", "LOAD"} -> "hdr"
                     [] c = "RUN" -> "seek"
                     [] OTHER -> "log"
        /\ UNCHANGED <<board, eaten>>
    BY <1>6 DEF SendCommand, Send, boardVars
  <2>2. n \in 1..Len(Script) /\ step < Len(Script)
    <3>1. step < Len(Script)
      BY <2>1 DEF Places
    <3>. QED
      BY <1>0, <3>1
  <2>3. /\ c \in Commands
        /\ c \in {"MMU", "LOAD"} <=> n <= Visited + 1
        /\ c = "RUN" <=> n = Visited + 3
        /\ c = "RESET" <=> n = Visited + 4
    BY <2>2, ScriptCommands
  <2>. HIDE DEF c, n
  <2>4. Admitted = Commands /\ "one" \notin Commands
    BY <2>1, <2>2 DEF Right, Commands
  <2>5. Token(c) \in BoardTokens /\ Kind(Token(c)) = c
    BY <2>3 DEF Token, Kind, BoardTokens
  <2>8. Delivered(Token(c))
    BY <2>1, HostDelivers DEF Attended
  <2>6. Left' /\ Admitted' = After(c)
    BY <1>b, <2>1, <2>3, <2>4, <2>5, <2>8
  <2>7. Right'
    <3>1. CASE c \in {"MMU", "LOAD"}
      <4>1. host' = "hdr" /\ Admitted' = {"hdr"}
        BY <2>1, <2>6, <3>1, AfterIs
      <4>. QED
        BY <4>1 DEF Right, Over
    <3>2. CASE c = "RUN"
      <4>1. host' = "seek" /\ Admitted' = Commands
        BY <2>1, <2>6, <3>2, AfterIs
      <4>. QED
        BY <4>1 DEF Right, Over, Commands
    <3>3. CASE c = "INFO"
      <4>1. host' = "log" /\ Admitted' = Commands /\ step' # Len(Script)
        BY <1>0, <2>1, <2>3, <2>6, <3>3, AfterIs
      <4>. QED
        BY <4>1 DEF Right, Over, Commands
    <3>4. CASE c = "RESET"
      <4>1. host' = "log" /\ Admitted' = {"one"} /\ step' = Len(Script)
        BY <1>0, <2>1, <2>3, <2>6, <3>4, AfterIs
      <4>. QED
        BY <1>0, <4>1 DEF Right, Over
    <3>. QED
      BY <2>3, <3>1, <3>2, <3>3, <3>4 DEF Commands
  <2>. QED
    BY <2>6, <2>7
<1>7. CASE SendImage
  <2>. DEFINE token == <<host, Script[step][2]>>
  <2>1. /\ host \in {"hdr", "body"} /\ step' = step /\ SendToken(token)
        /\ host' = IF host = "hdr" THEN "body" ELSE "log"
        /\ UNCHANGED <<board, eaten>>
    BY <1>7 DEF SendImage, boardVars
  <2>2. step \in 1..Len(Script) /\ step <= Visited + 1
    BY <1>0, <2>1 DEF Places
  <2>3. token \in BoardTokens /\ Kind(token) = host
    BY <2>1, <2>2, ScriptCommands DEF BoardTokens, Kind
  <2>. HIDE DEF token
  <2>4. host \in Admitted /\ "one" \notin Admitted
    BY <2>1 DEF Right
  <2>7. Delivered(token)
    BY <2>1, HostDelivers DEF Attended
  <2>5. Left' /\ Admitted' = After(host)
    BY <1>b, <2>1, <2>3, <2>4, <2>7
  <2>6. Right'
    <3>1. CASE host = "hdr"
      BY <2>1, <2>5, <3>1, AfterIs DEF Right, Over
    <3>2. CASE host = "body"
      BY <1>0, <2>1, <2>2, <2>5, <3>2, AfterIs DEF Right, Over
    <3>. QED
      BY <2>1, <3>1, <3>2
  <2>. QED
    BY <2>5, <2>6
<1>8. CASE SkipImage
  BY <1>8 DEF SkipImage, Undisturbed
<1>9. CASE ReadLine \/ LineTimesOut
  <2>1. /\ host \in {"seek", "collect"} /\ host' \in {"seek", "collect", "log"}
        /\ UNCHANGED <<step, toBoard, board, eaten>>
    BY <1>9 DEF ReadLine, LineTimesOut, ProcessLine, boardVars
  <2>2. step = Visited + 3 /\ step < Len(Script)
    BY <1>0, <2>1 DEF Places
  <2>. QED
    BY <1>0, <2>1, <2>2, LineUntouched DEF Right, Over
<1>10. CASE ClosePort
  <2>1. /\ host = "exit" /\ host' \in {"closed", "done"} /\ UNCHANGED <<toBoard, board, eaten>>
    BY <1>10 DEF ClosePort, boardVars
  <2>. QED
    BY <2>1, LineUntouched DEF Right, Over
<1>. QED
  BY <1>1, <1>2, <1>3, <1>4, <1>5, <1>6, <1>7, <1>8, <1>9, <1>10 DEF Host

\* and so does every step of the board.
LEMMA OrderBoard ==
    ASSUME LinkAssumption, LinkTypes, LinkTypes', InOrder, Board
    PROVE  InOrder'
<1>. USE DEF LinkTypes
<1>0. toBoard \in Seq(BoardTokens) /\ toHost \in Seq(HostTokens) /\ out \in Seq(HostTokens)
  BY DEF HostTypes, BoardTypes
<1>e. Orderly'
  <2>1. Orderly /\ (board = "off" => toBoard = <<>>)
    BY SessionAdmits DEF InOrder, Orderly, Up, Left
  <2>. QED
    BY <2>1, StaysOrderly, NotFooled DEF InOrder
<1>. SUFFICES Left' /\ Right'
  BY <1>e DEF Orderly, InOrder
<1>. USE DEF InOrder
<1>a. ASSUME NEW kind, Hears(kind), After(kind) = Awaits',
             board' \notin {"off", "litter", "garbled"}, board' = "hdr" => eaten' = 0
      PROVE  Left' /\ Right'
  BY <1>a, HeardKeepsOrder
<1>b. ASSUME NEW kind, Hears(kind) PROVE kind \in Awaits
  BY <1>b, HeardInOrder
<1>c. ASSUME board' = "prompt" PROVE Awaits' = Commands
  BY <1>c DEF Awaits
<1>d. AtPrompt => board = "prompt"
  BY DEF AtPrompt, Left
<1>1. CASE Boot
  <2>1. /\ board = "off" /\ board' = "hello" /\ toBoard = <<>> /\ toBoard' = <<>>
        /\ UNCHANGED <<host, step>>
    BY <1>1 DEF Boot, hostVars, Left
  <2>2. Awaits' = {"one"} /\ Awaits = {"one"}
    BY <2>1 DEF Awaits
  <2>3. Admitted' = {"one"} /\ Admitted = {"one"}
    BY <2>1, <2>2 DEF Admitted
  <2>4. Left'
    BY <2>1 DEF Left, Chained, Unscathed
  <2>5. Right'
    BY <2>1, <2>3 DEF Right, Over
  <2>. QED
    BY <2>4, <2>5
<1>2. CASE Greet
  <2>1. \/ Hears("one") /\ board' = "greeted"
        \/ Hears("zero") /\ board' = "prompt"
    BY <1>2 DEF Greet
  <2>2. board' = "greeted" => Awaits' = After("one")
    BY AfterIs DEF Awaits
  <2>. QED
    BY <1>a, <1>c, <2>1, <2>2, AfterIs
<1>13. ~TakeForHandshake
  BY NotFooled
<1>3. CASE Ignore
  <2>1. CASE board = "hello"
    BY <1>3, <1>b, <2>1, AwaitsIs DEF Ignore
  <2>2. CASE board = "greeted"
    <3>1. Hears("one") /\ UNCHANGED <<board, eaten>>
      BY <1>3, <1>b, <2>2, AwaitsIs DEF Ignore, boardVars
    <3>2. Awaits' = After("one")
      BY <2>2, <3>1, AfterIs DEF Awaits
    <3>. QED
      BY <1>a, <2>2, <3>1, <3>2
  <2>. QED
    BY <1>3, <2>1, <2>2 DEF Ignore
<1>4. CASE Gather \/ MissCommand
  BY <1>4, <1>b, AwaitsIs DEF Gather, MissCommand, AtPrompt, Commands, Left
<1>5. CASE AskImage
  <2>1. PICK c \in {"MMU", "LOAD"} : Hears(c)
    BY <1>5 DEF AskImage
  <2>2. board' = "hdr" /\ eaten' = 0
    BY <1>5 DEF AskImage
  <2>3. After(c) = Awaits'
    BY <2>1, <2>2, AfterIs DEF Awaits
  <2>. QED
    BY <1>a, <2>1, <2>2, <2>3
<1>6. CASE TakeImage
  <2>1. CASE board = "hdr"
    <3>1. Hears("hdr") /\ board' = "body"
      BY <1>6, <2>1 DEF TakeImage
    <3>2. After("hdr") = Awaits'
      BY <3>1, AfterIs DEF Awaits
    <3>. QED
      BY <1>a, <3>1, <3>2
  <2>2. CASE board = "body"
    <3>1. Hears("body") /\ board' = "prompt"
      BY <1>6, <2>2 DEF TakeImage
    <3>. QED
      BY <1>a, <1>c, <3>1, AfterIs
  <2>. QED
    BY <1>6, <2>1, <2>2 DEF TakeImage
<1>7. CASE TakeFalseHeader
  <2>1. /\ board = "hdr"
        /\ \E k \in Messages : (k = "hdr" => eaten > 0) /\ Hears(k)
    BY <1>7 DEF TakeFalseHeader
  <2>. QED
    BY <1>b, <2>1, AwaitsIs DEF Left
<1>8. CASE TakeGarbage
  <2>1. board = "body" /\ \E k \in Messages \ {"body"} : Hears(k)
    BY <1>8 DEF TakeGarbage, Left
  <2>. QED
    BY <1>b, <2>1, AwaitsIs
<1>9. CASE Info \/ RunApplication
  <2>1. board' = "prompt" /\ (Hears("INFO") \/ Hears("RUN"))
    BY <1>9 DEF Info, RunApplication
  <2>. QED
    BY <1>a, <1>c, <2>1, AfterIs
<1>10. CASE ResetCommand
  <2>1. Hears("RESET") /\ board' = "reset"
    BY <1>10 DEF ResetCommand
  <2>2. After("RESET") = Awaits'
    BY <2>1, AfterIs DEF Awaits
  <2>. QED
    BY <1>a, <2>1, <2>2
<1>11. CASE ChipResets
  <2>1. /\ board = "reset" /\ board' = "off" /\ toBoard' = <<>>
        /\ UNCHANGED <<host, step>>
    BY <1>11 DEF ChipResets, hostVars
  <2>2. "one" \in Admitted
    <3>1. CASE toBoard = <<>>
      BY <2>1, <3>1, AwaitsIs DEF Admitted
    <3>2. CASE toBoard # <<>>
      <4>1. Kind(toBoard[Len(toBoard)]) = "one"
        BY <1>0, <2>1, <3>2 DEF Restart, Spent, Left, Unscathed
      <4>. QED
        BY <3>2, <4>1, AfterIs DEF Admitted
    <3>. QED
      BY <3>1, <3>2
  <2>3. Admitted' = {"one"}
    BY <2>1 DEF Admitted, Awaits
  <2>4. Right'
    BY <2>1, <2>2, <2>3 DEF Right, Over, Commands
  <2>5. Left'
    BY <2>1 DEF Left, Chained, Unscathed
  <2>. QED
    BY <2>4, <2>5
<1>12. CASE Transmit
  <2>1. UNCHANGED <<host, step, board, eaten, toBoard>>
    BY <1>12 DEF Transmit, hostVars
  <2>2. Left' /\ Admitted' = Admitted
    BY <2>1, LineUntouched
  <2>. QED
    BY <2>1, <2>2 DEF Right, Over
<1>. QED
  BY <1>1, <1>2, <1>3, <1>4, <1>5, <1>6, <1>7, <1>8, <1>9, <1>10, <1>11, <1>12, <1>13
  DEF Board

------------------------------------------------------------------------------
(* The images that are in the memory, or on their way.                      *)

\* Printing and reading on do not bring the start of a benchmark forward.
LEMMA ReadyTail ==
    ASSUME NEW s \in Seq(HostTokens), s # <<>>, Ready(s)
    PROVE  Ready(Tail(s)) /\ (Kind(Head(s)) = "dollar" => Loading \subseteq loaded)
<1>1. ASSUME NEW k \in DOMAIN Tail(s), Kind(Tail(s)[k]) = "dollar"
      PROVE  Loading \subseteq loaded
  <2>1. k + 1 \in DOMAIN s /\ Tail(s)[k] = s[k + 1]
    BY <1>1
  <2>. QED
    BY <1>1, <2>1 DEF Ready, Starts
<1>2. Kind(Head(s)) = "dollar" => Loading \subseteq loaded
  BY DEF Ready, Starts
<1>. QED
  BY <1>1, <1>2 DEF Ready, Starts

LEMMA ReadyAppend ==
    ASSUME NEW s \in Seq(HostTokens), Ready(s), NEW e \in HostTokens,
           Kind(e) = "dollar" => Loading \subseteq loaded
    PROVE  Ready(Append(s, e))
<1>. DEFINE a == Append(s, e)
<1>1. ASSUME NEW k \in DOMAIN a, Kind(a[k]) = "dollar" PROVE Loading \subseteq loaded
  <2>1. k \in 1..(Len(s) + 1) /\ Len(s) \in Nat
    BY <1>1
  <2>2. CASE k \in 1..Len(s)
    <3>1. k \in DOMAIN s /\ a[k] = s[k]
      BY <2>2
    <3>. QED
      BY <1>1, <3>1 DEF Ready, Starts
  <2>3. CASE k = Len(s) + 1
    BY <1>1, <2>1, <2>3
  <2>. QED
    BY <2>1, <2>2, <2>3
<1>. HIDE DEF a
<1>2. Ready(a)
  BY <1>1 DEF Ready, Starts
<1>. QED
  BY <1>2 DEF a

LEMMA ReadyAnswers ==
    /\ ~Starts(<<>>) /\ ~Starts(Prompt) /\ ~Starts(<<Token("text")>> \o Prompt)
    /\ ~Starts(<<Token("one")>>) /\ ~Starts(<<Token("nul")>>)
BY DEF Starts, Prompt, Token, Kind

\* A board that hears a token keeps its images, and takes the one it hears.
LEMMA HeardComing ==
    ASSUME LinkTypes, NEW kind, Hears(kind), NEW c \in Loading,
           NEW n \in 1..Len(toBoard), Coming(c, n),
           loaded \subseteq loaded', board = "body" => image \in loaded',
           kind = "hdr" => board' = "body" /\ image' = toBoard[1][2]
    PROVE  Coming(c, n - 1)'
<1>1. CASE c \in loaded \/ (board = "body" /\ image = c)
  BY <1>1 DEF Coming
<1>2. CASE \E j \in 1..n : toBoard[j] = <<"hdr", c>>
  <2>1. PICK j \in 1..n : toBoard[j] = <<"hdr", c>>
    BY <1>2
  <2>2. /\ Kind(toBoard[1]) = kind /\ Len(toBoard) \in Nat
        /\ \A k \in 1..(Len(toBoard) - 1) : toBoard'[k] = toBoard[k + 1]
    BY Heard DEF LinkTypes, BoardTypes
  <2>3. CASE j = 1
    <3>1. kind = "hdr" /\ toBoard[1][2] = c
      BY <2>1, <2>2, <2>3 DEF Kind
    <3>. QED
      BY <3>1 DEF Coming
  <2>4. CASE j # 1
    <3>1. j - 1 \in 1..(n - 1) /\ j - 1 \in 1..(Len(toBoard) - 1) /\ (j - 1) + 1 = j
      BY <2>1, <2>2, <2>4
    <3>2. toBoard'[j - 1] = <<"hdr", c>>
      BY <2>1, <2>2, <3>1
    <3>. QED
      BY <3>1, <3>2 DEF Coming
  <2>. QED
    BY <2>3, <2>4
<1>. QED
  BY <1>1, <1>2 DEF Coming

\* so a token that is heard keeps all three parts of the invariant.
LEMMA HeardKeepsImages ==
    ASSUME LinkTypes, SentComing, RunsLast, ReadReady, NEW kind, Hears(kind),
           loaded \subseteq loaded', board = "body" => image \in loaded',
           kind = "hdr" => board' = "body" /\ image' = toBoard[1][2],
           Session => Ready(out)'
    PROVE  SentComing' /\ RunsLast' /\ ReadReady'
<1>. DEFINE n == Len(toBoard)
<1>1. /\ n \in Nat \ {0} /\ Len(toBoard') = n - 1 /\ DOMAIN toBoard = 1..n
      /\ DOMAIN toBoard' = 1..(n - 1)
      /\ \A k \in 1..(n - 1) : toBoard'[k] = toBoard[k + 1]
      /\ UNCHANGED <<host, step, toHost>>
  BY Heard DEF LinkTypes, BoardTypes
<1>. HIDE DEF n
<1>2. \A c \in Loading, m \in 1..n : Coming(c, m) => Coming(c, m - 1)'
  BY HeardComing DEF n
<1>3. SentComing'
  <2>1. Session' <=> Session
    BY <1>1 DEF Session
  <2>2. PICK m \in 1..n : m = n
    BY <1>1
  <2>3. SUFFICES ASSUME Session, NEW c \in Loading,
                        step > c + 2 \/ (step = c + 2 /\ host # "hdr")
                 PROVE  Coming(c, m - 1)'
    BY <1>1, <2>1, <2>2 DEF SentComing, Coming
  <2>4. Coming(c, m)
    BY <2>2, <2>3 DEF SentComing, n
  <2>. QED
    BY <1>2, <2>4
<1>4. RunsLast'
  <2>1. SUFFICES ASSUME NEW k \in 1..(n - 1), Kind(toBoard'[k]) = "RUN", NEW c \in Loading
                 PROVE  Coming(c, k)'
    BY <1>1 DEF RunsLast, Kind
  <2>2. k + 1 \in 1..n /\ (k + 1) - 1 = k /\ Kind(toBoard[k + 1]) = "RUN"
    BY <1>1, <2>1
  <2>3. Coming(c, k + 1)
    BY <1>1, <2>2 DEF RunsLast
  <2>4. Coming(c, (k + 1) - 1)'
    BY <1>2, <2>2, <2>3
  <2>. QED
    BY <2>2, <2>4
<1>5. ReadReady'
  <2>1. ASSUME Session' PROVE Ready(toHost)' /\ Ready(out)'
    <3>1. Session
      BY <1>1, <2>1 DEF Session
    <3>. QED
      BY <1>1, <3>1 DEF ReadReady, Ready, Starts, Kind
  <2>2. host' = "collect" => Loading \subseteq loaded'
    BY <1>1 DEF ReadReady
  <2>. QED
    BY <2>1, <2>2 DEF ReadReady
<1>. QED
  BY <1>3, <1>4, <1>5

\* What is sent does not overtake the images.
LEMMA SentKeepsComing ==
    ASSUME LinkTypes, NEW token, Delivered(token), UNCHANGED <<board, image, loaded>>,
           NEW c, NEW n \in 0..Len(toBoard), NEW m \in Nat, n <= m, Coming(c, n)
    PROVE  Coming(c, m)'
<1>1. \A j \in 1..n : toBoard'[j] = toBoard[j] /\ j \in 1..m
  <2>1. \A j \in 1..n : j \in 1..Len(toBoard) /\ j \in 1..m
    BY DEF LinkTypes, BoardTypes
  <2>2. \A j \in 1..Len(toBoard) : toBoard'[j] = toBoard[j]
    BY Sent DEF LinkTypes, BoardTypes
  <2>. QED
    BY <2>1, <2>2
<1>. QED
  BY <1>1 DEF Coming

\* Steps of the host that send nothing, and reads.
LEMMA LineKeepsImages ==
    ASSUME UNCHANGED <<toBoard, board, image, loaded>>, SentComing, RunsLast,
           Session' => Session,
           Session' => \A c \in Loading :
              step' > c + 2 \/ (step' = c + 2 /\ host' # "hdr") =>
                 step > c + 2 \/ (step = c + 2 /\ host # "hdr")
    PROVE  SentComing' /\ RunsLast'
<1>1. ASSUME NEW c \in Loading, NEW k, Coming(c, k) PROVE Coming(c, k)'
  BY <1>1 DEF Coming
<1>2. RunsLast'
  BY <1>1 DEF RunsLast, Kind
<1>3. ASSUME Session', NEW c \in Loading, step' > c + 2 \/ (step' = c + 2 /\ host' # "hdr")
      PROVE  Coming(c, Len(toBoard))'
  <2>1. Coming(c, Len(toBoard))
    BY <1>3 DEF SentComing
  <2>. QED
    BY <2>1 DEF Coming
<1>. QED
  BY <1>2, <1>3 DEF SentComing

LEMMA ReadKeepsReady ==
    ASSUME LinkTypes, UNCHANGED <<out, loaded>>, ReadReady, Session' => Session,
           toHost' = toHost \/ (toHost # <<>> /\ Receive),
           host' = "collect" => Loading \subseteq loaded
    PROVE  ReadReady'
<1>1. ASSUME Session' PROVE Ready(toHost)' /\ Ready(out)'
  <2>1. Ready(toHost) /\ Ready(out)
    BY <1>1 DEF ReadReady
  <2>2. CASE toHost' = toHost
    BY <2>1, <2>2 DEF Ready, Starts, Kind
  <2>3. CASE toHost # <<>> /\ Receive
    <3>1. Ready(Tail(toHost)) /\ toHost' = Tail(toHost)
      BY <2>1, <2>3, ReadyTail DEF LinkTypes, HostTypes, Receive
    <3>. QED
      BY <2>1, <3>1 DEF Ready, Starts, Kind
  <2>. QED
    BY <2>2, <2>3
<1>. QED
  BY <1>1 DEF ReadReady

\* What is sent comes behind the images; RUN behind all of them.
LEMMA SentKeepsImages ==
    ASSUME LinkTypes, NEW token \in BoardTokens, Delivered(token),
           UNCHANGED <<board, image, loaded>>, RunsLast,
           Kind(token) = "RUN" => \A c \in Loading : Coming(c, Len(toBoard))
    PROVE  /\ RunsLast'
           /\ \A c \in Loading : Coming(c, Len(toBoard)) => Coming(c, Len(toBoard))'
<1>. DEFINE n == Len(toBoard)
<1>1. /\ n \in Nat /\ DOMAIN toBoard = 1..n
      /\ board = "off" => toBoard' = toBoard
      /\ board # "off" => /\ Len(toBoard') = n + 1 /\ DOMAIN toBoard' = 1..(n + 1)
                          /\ toBoard'[n + 1] = token
                          /\ \A k \in 1..n : toBoard'[k] = toBoard[k]
  BY Sent DEF LinkTypes, BoardTypes
<1>2. ASSUME NEW c, NEW k \in 0..n, NEW m \in Nat, k <= m, Coming(c, k)
      PROVE  Coming(c, m)'
  BY <1>2, SentKeepsComing
<1>3. PICK m \in Nat : m = Len(toBoard')
  BY <1>1
<1>4. PICK k \in 0..n : k = n
  <2>1. n \in Nat
    BY <1>1
  <2>. HIDE DEF n
  <2>. QED
    BY <2>1
<1>5. k <= m
  <2>1. Len(toBoard') = n \/ Len(toBoard') = n + 1
    BY <1>1
  <2>2. n \in Nat
    BY <1>1
  <2>. HIDE DEF n
  <2>. QED
    BY <1>3, <1>4, <2>1, <2>2
<1>. HIDE DEF n
<1>6. ASSUME NEW c \in Loading, Coming(c, k) PROVE Coming(c, m)'
  BY <1>2, <1>5, <1>6
<1>7. ASSUME NEW c \in Loading, Coming(c, Len(toBoard)) PROVE Coming(c, Len(toBoard))'
  <2>1. Coming(c, m)'
    BY <1>4, <1>6, <1>7 DEF n
  <2>. QED
    BY <1>3, <2>1 DEF Coming
<1>8. ASSUME NEW j \in DOMAIN toBoard', Kind(toBoard'[j]) = "RUN", NEW c \in Loading
      PROVE  Coming(c, j)'
  <2>1. CASE j \in 1..n
    <3>1. Kind(toBoard[j]) = "RUN" /\ j \in DOMAIN toBoard
      BY <1>1, <1>8, <2>1
    <3>2. Coming(c, j)
      BY <3>1 DEF RunsLast
    <3>. QED
      BY <1>1, <1>2, <2>1, <3>2
  <2>2. CASE j \notin 1..n
    <3>1. board # "off" /\ j = n + 1 /\ toBoard'[j] = token
      BY <1>1, <1>8, <2>2
    <3>2. Coming(c, k)
      BY <1>4, <1>8, <3>1 DEF n
    <3>. QED
      BY <1>1, <1>2, <1>4, <3>1, <3>2
  <2>. QED
    BY <2>1, <2>2
<1>9. RunsLast'
  BY <1>8 DEF RunsLast, Kind
<1>. QED
  BY <1>7, <1>9

\* Every step of the host keeps the images,
LEMMA ImagesHost ==
    ASSUME LinkAssumption, LinkTypes, LinkTypes', Undisturbed, ~slow, InOrder, Attended,
           SentComing, RunsLast, ReadReady, Host
    PROVE  SentComing' /\ RunsLast' /\ ReadReady'
<1>0. /\ Visited \in Nat /\ Len(Script) = Visited + 4 /\ step \in 0..Len(Script)
      /\ step' \in 0..Len(Script) /\ step \in Nat
      /\ toBoard \in Seq(BoardTokens) /\ toHost \in Seq(HostTokens)
  <2>1. /\ step \in 0..Len(Script) /\ step' \in 0..Len(Script)
        /\ toBoard \in Seq(BoardTokens) /\ toHost \in Seq(HostTokens)
    BY DEF LinkTypes, HostTypes, BoardTypes
  <2>. QED
    BY <2>1, ScriptLength
<1>a. \A c \in Loading : c \in Nat /\ c < Visited /\ Configured(c)
  BY DEF Loading
<1>1. ASSUME OpenPort \/ KnockAgain PROVE SentComing' /\ RunsLast' /\ ReadReady'
  <2>1. /\ SendToken(Token("one")) /\ host \in {"closed", "knock"} /\ host' = "knock"
        /\ UNCHANGED <<board, image, loaded>>
    BY <1>1 DEF OpenPort, KnockAgain, Send, boardVars, hostVars
  <2>2. Token("one") \in BoardTokens /\ Kind(Token("one")) = "one"
    BY DEF Token, Kind, BoardTokens
  <2>4. Delivered(Token("one"))
    BY <2>1, <2>2, HostDelivers DEF InOrder, Attended
  <2>3. RunsLast'
    BY <2>1, <2>2, <2>4, SentKeepsImages
  <2>. QED
    BY <2>1, <2>3 DEF SentComing, ReadReady, Session
<1>2. ASSUME HandshakeDone PROVE SentComing' /\ RunsLast' /\ ReadReady'
  <2>1. /\ host = "knock" /\ host' = "log" /\ SendToken(Token("zero"))
        /\ toHost # <<>> /\ Receive /\ Kind(toHost[1]) = "one"
        /\ UNCHANGED <<step, board, image, loaded, out>>
    BY <1>0, <1>2, Received DEF HandshakeDone, Send, boardVars
  <2>2. Token("zero") \in BoardTokens /\ Kind(Token("zero")) = "zero"
    BY DEF Token, Kind, BoardTokens
  <2>3. 1 \in DOMAIN toHost /\ Greeting(toHost)
    BY <1>0, <2>1 DEF Greeting
  <2>4. out = <<>> /\ Len(toHost) = 1
    BY <2>1, <2>3 DEF InOrder, Greeted
  <2>5. toHost' = <<>> /\ out' = <<>>
    BY <1>0, <2>1, <2>4, Received
  <2>10. Delivered(Token("zero"))
    BY <2>1, <2>2, <2>4, HostDelivers DEF InOrder
  <2>6. RunsLast'
    BY <2>1, <2>2, <2>10, SentKeepsImages
  <2>7. step' = 0
    BY <2>1 DEF LinkTypes, Places
  <2>8. SentComing'
    BY <1>a, <2>7 DEF SentComing
  <2>9. ReadReady'
    BY <2>1, <2>5 DEF ReadReady, Ready, Starts
  <2>. QED
    BY <2>6, <2>8, <2>9
<1>3. ASSUME LogByte \/ LogEnds \/ LogTimesOut PROVE SentComing' /\ RunsLast' /\ ReadReady'
  <2>1. /\ UNCHANGED <<step, toBoard, board, image, loaded, out>> /\ host = "log"
        /\ host' \in {"log", "send", "exit"}
        /\ UNCHANGED toHost \/ (toHost # <<>> /\ Receive)
    BY <1>3 DEF LogByte, LogEnds, LogTimesOut, boardVars, AfterLog
  <2>2. Session' => Session
    BY <2>1 DEF Session
  <2>. QED
    BY <2>1, <2>2, LineKeepsImages, ReadKeepsReady
<1>4. ASSUME SkipCore PROVE SentComing' /\ RunsLast' /\ ReadReady'
  <2>1. /\ UNCHANGED <<host, toBoard, board, image, loaded, out, toHost>> /\ host = "send"
        /\ step' = step + 1 /\ Idle(step + 1)
    BY <1>4 DEF SkipCore, boardVars
  <2>2. Session
    BY <1>0, <2>1 DEF Session, LinkTypes, Places
  <2>3. ASSUME NEW c \in Loading PROVE step' # c + 2
    <3>0. c \in Nat /\ c < Visited /\ Configured(c)
      BY <1>a
    <3>1. Script[c + 2] = <<"LOAD", (c + 2) - 2>> /\ (c + 2) - 2 = c
      <4>1. c + 2 \in 2..(Visited + 1) /\ (c + 2) - 2 = c
        BY <1>0, <3>0
      <4>. QED
        BY <4>1, ScriptIs
    <3>2. ~Idle(c + 2)
      BY <3>0, <3>1 DEF Idle
    <3>. QED
      BY <2>1, <3>2
  <2>4. \A c \in Loading : step' > c + 2 => step > c + 2 \/ step = c + 2
    BY <1>0, <1>a, <2>1
  <2>5. SentComing' /\ RunsLast'
    BY <2>1, <2>2, <2>3, <2>4, LineKeepsImages
  <2>. QED
    BY <2>1, <2>2, <2>5, ReadKeepsReady
<1>5. ASSUME SendCommand PROVE SentComing' /\ RunsLast' /\ ReadReady'
  <2>. DEFINE n == step + 1
              k == Script[n][1]
  <2>1. /\ host = "send" /\ step' = n /\ SendToken(Token(k))
        /\ host' = CASE k \in {"MMU", "LOAD"} -> "hdr"
                     [] k = "RUN" -> "seek"
                     [] OTHER -> "log"
        /\ UNCHANGED <<board, image, loaded, out, toHost>>
    BY <1>5 DEF SendCommand, Send, boardVars
  <2>2. n \in 1..Len(Script) /\ step < Len(Script)
    <3>1. step < Len(Script)
      BY <2>1 DEF LinkTypes, Places
    <3>. QED
      BY <1>0, <3>1
  <2>3. /\ k \in Commands
        /\ k \in {"MMU", "LOAD"} <=> n <= Visited + 1
        /\ k = "RUN" <=> n = Visited + 3
    BY <2>2, ScriptCommands
  <2>4. n = step + 1
    OBVIOUS
  <2>. HIDE DEF k, n
  <2>5. Token(k) \in BoardTokens /\ Kind(Token(k)) = k
    BY <2>3 DEF Token, Kind, BoardTokens
  <2>6. Session
    BY <2>1, <2>2 DEF Session
  <2>7. ASSUME NEW c \in Loading, step > c + 2 \/ step = c + 2
        PROVE  Coming(c, Len(toBoard))
    BY <2>1, <2>6, <2>7 DEF SentComing
  <2>8. ASSUME k = "RUN", NEW c \in Loading PROVE Coming(c, Len(toBoard))
    <3>1. step > c + 2 \/ step = c + 2
      BY <1>0, <1>a, <2>3, <2>4, <2>8
    <3>. QED
      BY <2>7, <3>1
  <2>13. Delivered(Token(k))
    BY <2>1, HostDelivers DEF InOrder, Attended
  <2>9. /\ RunsLast'
        /\ \A c \in Loading : Coming(c, Len(toBoard)) => Coming(c, Len(toBoard))'
    BY <2>1, <2>5, <2>8, <2>13, SentKeepsImages
  <2>10. ASSUME NEW c \in Loading, step' > c + 2 \/ (step' = c + 2 /\ host' # "hdr")
         PROVE  Coming(c, Len(toBoard))'
    <3>0. c \in Nat /\ c < Visited
      BY <1>a
    <3>1. step' # c + 2
      <4>1. ASSUME step' = c + 2 PROVE FALSE
        <5>1. n <= Visited + 1
          BY <1>0, <2>1, <3>0, <4>1
        <5>2. host' = "hdr"
          BY <2>1, <2>3, <5>1
        <5>. QED
          BY <2>10, <3>0, <4>1, <5>2
      <4>. QED
        BY <4>1
    <3>2. step > c + 2 \/ step = c + 2
      <4>1. step' > c + 2
        BY <2>10, <3>1
      <4>2. step' = step + 1
        BY <2>1, <2>4
      <4>. QED
        BY <1>0, <3>0, <4>1, <4>2
    <3>. QED
      BY <2>7, <2>9, <3>2
  <2>11. SentComing'
    BY <2>10 DEF SentComing
  <2>12. host' # "collect"
    BY <2>1, <2>3 DEF Commands
  <2>. QED
    BY <2>1, <2>6, <2>9, <2>11, <2>12, ReadKeepsReady
<1>6. ASSUME SendImage PROVE SentComing' /\ RunsLast' /\ ReadReady'
  <2>. DEFINE token == <<host, Script[step][2]>>
  <2>1. /\ host \in {"hdr", "body"} /\ step' = step /\ SendToken(token)
        /\ host' = IF host = "hdr" THEN "body" ELSE "log"
        /\ UNCHANGED <<board, image, loaded, out, toHost>>
    BY <1>6 DEF SendImage, boardVars
  <2>2. step \in 1..Len(Script) /\ step <= Visited + 1
    BY <1>0, <2>1 DEF LinkTypes, Places
  <2>3. token \in BoardTokens /\ Kind(token) = host
    BY <2>1, <2>2, ScriptCommands DEF BoardTokens, Kind
  <2>4. ASSUME NEW c \in Loading, step = c + 2, host = "hdr" PROVE token = <<"hdr", c>>
    <3>1. c \in Nat /\ c < Visited
      BY <1>a
    <3>2. c + 2 \in 2..(Visited + 1) /\ (c + 2) - 2 = c
      BY <1>0, <3>1
    <3>3. Script[c + 2] = <<"LOAD", c>>
      BY <3>2, ScriptIs
    <3>. QED
      BY <2>4, <3>3
  <2>. HIDE DEF token
  <2>5. Session /\ board # "off"
    <3>1. Session
      BY <1>0, <2>1, <2>2 DEF Session
    <3>. QED
      BY <3>1, SessionAdmits
  <2>10. Delivered(token)
    BY <2>1, HostDelivers DEF InOrder, Attended
  <2>6. /\ RunsLast'
        /\ \A c \in Loading : Coming(c, Len(toBoard)) => Coming(c, Len(toBoard))'
    BY <2>1, <2>3, <2>10, SentKeepsImages
  <2>7. ASSUME NEW c \in Loading, step > c + 2 \/ step = c + 2
        PROVE  Coming(c, Len(toBoard))'
    <3>1. CASE step = c + 2 /\ host = "hdr"
      <4>1. /\ toBoard'[Len(toBoard) + 1] = <<"hdr", c>>
            /\ Len(toBoard') = Len(toBoard) + 1 /\ Len(toBoard) \in Nat
        BY <1>0, <2>1, <2>4, <2>5, <2>10, <3>1, Sent
      <4>. QED
        BY <4>1 DEF Coming
    <3>2. CASE step > c + 2 \/ host = "body"
      <4>1. Coming(c, Len(toBoard))
        BY <2>5, <2>7, <3>2 DEF SentComing
      <4>. QED
        BY <2>6, <4>1
    <3>. QED
      BY <2>1, <2>7, <3>1, <3>2
  <2>8. SentComing'
    BY <2>1, <2>7 DEF SentComing
  <2>9. ReadReady'
    BY <2>1, <2>5, ReadKeepsReady
  <2>. QED
    BY <2>6, <2>8, <2>9
<1>7. ASSUME SkipImage PROVE FALSE
  BY <1>7 DEF SkipImage, Undisturbed
<1>8. ASSUME ReadLine \/ LineTimesOut PROVE SentComing' /\ RunsLast' /\ ReadReady'
  <2>1. /\ host \in {"seek", "collect"} /\ host' \in {"seek", "collect", "log"}
        /\ UNCHANGED <<step, toBoard, board, image, loaded, out>>
        /\ UNCHANGED toHost \/ (toHost # <<>> /\ Receive)
    BY <1>8 DEF ReadLine, LineTimesOut, ProcessLine, boardVars
  <2>2. Session
    BY <1>0, <2>1 DEF Session, LinkTypes, Places
  <2>3. ASSUME host' = "collect" PROVE Loading \subseteq loaded
    <3>1. CASE host = "collect"
      BY <3>1 DEF ReadReady
    <3>2. CASE host = "seek"
      <4>1. PICK ln \in Seq(HostTokens) :
               /\ ProcessLine(ln)
               /\ \/ ln = line
                  \/ toHost # <<>> /\ ln = Append(line, Head(toHost)) /\ EndsLine(Head(toHost))
        <5>1. line \in Seq(HostTokens)
          BY DEF LinkTypes, HostTypes
        <5>2. toHost # <<>> => Append(line, Head(toHost)) \in Seq(HostTokens)
          BY <1>0, <5>1
        <5>. QED
          BY <1>8, <2>3, <3>2, <5>1, <5>2 DEF ReadLine, LineTimesOut
      <4>2. ln # <<>> /\ Kind(ln[1]) = "dollar" /\ EndsLine(ln[1])
        BY <2>3, <3>2, <4>1 DEF ProcessLine, EndsLine
      <4>3. line \in Seq(HostTokens) /\ \A k \in DOMAIN line : ~EndsLine(line[k])
        BY DEF LinkTypes, HostTypes, Places
      <4>4. ln # line
        BY <4>2, <4>3
      <4>5. line = <<>>
        <5>1. line # <<>> => 1 \in DOMAIN line /\ Append(line, Head(toHost))[1] = line[1]
          BY <4>3
        <5>. QED
          BY <4>1, <4>2, <4>3, <4>4, <5>1
      <4>6. toHost # <<>> /\ Head(toHost) = ln[1]
        BY <4>1, <4>4, <4>5
      <4>. QED
        BY <1>0, <2>2, <4>2, <4>6, ReadyTail DEF ReadReady
    <3>. QED
      BY <2>1, <3>1, <3>2
  <2>4. SentComing' /\ RunsLast'
    BY <2>1, <2>2, LineKeepsImages
  <2>. QED
    BY <2>1, <2>2, <2>3, <2>4, ReadKeepsReady
<1>9. ASSUME ClosePort PROVE SentComing' /\ RunsLast' /\ ReadReady'
  <2>1. /\ host' \in {"closed", "done"} /\ UNCHANGED <<toBoard, board, image, loaded>>
    BY <1>9 DEF ClosePort, boardVars
  <2>2. ~Session'
    BY <2>1 DEF Session
  <2>3. SentComing' /\ RunsLast'
    BY <2>1, <2>2, LineKeepsImages
  <2>. QED
    BY <2>1, <2>2, <2>3 DEF ReadReady
<1>. QED
  BY <1>1, <1>2, <1>3, <1>4, <1>5, <1>6, <1>7, <1>8, <1>9 DEF Host

\* and so does every step of the board.
LEMMA ImagesBoard ==
    ASSUME LinkAssumption, LinkTypes, LinkTypes', InOrder,
           SentComing, RunsLast, ReadReady, Board
    PROVE  SentComing' /\ RunsLast' /\ ReadReady'
<1>0. /\ toBoard \in Seq(BoardTokens) /\ toHost \in Seq(HostTokens)
      /\ out \in Seq(HostTokens) /\ DOMAIN toBoard = 1..Len(toBoard)
  BY DEF LinkTypes, HostTypes, BoardTypes
<1>a. ASSUME NEW kind, Hears(kind) PROVE kind \in Awaits /\ out = <<>>
  BY <1>0, <1>a, HeardInOrder, Heard DEF InOrder
<1>e. ASSUME NEW kind, Hears(kind)
      PROVE  /\ 1 \in DOMAIN toBoard /\ Kind(toBoard[1]) = kind
             /\ \A k \in DOMAIN toBoard' :
                   k + 1 \in DOMAIN toBoard /\ toBoard'[k] = toBoard[k + 1] /\ 1 < k + 1
  <2>1. /\ Kind(toBoard[1]) = kind /\ Len(toBoard) \in Nat \ {0}
        /\ DOMAIN toBoard' = 1..(Len(toBoard) - 1)
        /\ \A k \in 1..(Len(toBoard) - 1) : toBoard'[k] = toBoard[k + 1]
    BY <1>0, <1>e, Heard
  <2>. QED
    BY <1>0, <2>1
\* Without a session nothing is promised but the order of RUN.
<1>b. ASSUME board \in {"off", "hello", "reset"}, UNCHANGED <<host, step>>
      PROVE  SentComing' /\ ReadReady'
  <2>1. ~Session
    BY <1>b, SessionAdmits
  <2>2. ~Session'
    BY <1>b, <2>1 DEF Session
  <2>3. host # "collect"
    BY <2>1, ScriptLength DEF Session, LinkTypes, Places
  <2>. QED
    BY <1>b, <2>2, <2>3 DEF SentComing, ReadReady
<1>c. ASSUME toBoard' = <<>> PROVE RunsLast'
  BY <1>c DEF RunsLast
\* A token that is heard at the prompt, and answered.
<1>d. ASSUME NEW kind, Hears(kind), kind # "hdr", board # "body", UNCHANGED loaded,
             ~Starts(out')
      PROVE  SentComing' /\ RunsLast' /\ ReadReady'
  <2>1. Ready(out)'
    BY <1>d DEF Ready, Starts, Kind
  <2>. QED
    BY <1>d, <2>1, HeardKeepsImages
<1>1. ASSUME Boot PROVE SentComing' /\ RunsLast' /\ ReadReady'
  <2>1. board = "off" /\ toBoard' = <<>> /\ UNCHANGED <<host, step>>
    BY <1>1 DEF Boot, hostVars, InOrder, Left
  <2>. QED
    BY <1>b, <1>c, <2>1
<1>2. ASSUME Greet PROVE SentComing' /\ RunsLast' /\ ReadReady'
  <2>1. PICK kind \in {"one", "zero"} :
           /\ Hears(kind) /\ board # "body" /\ UNCHANGED loaded
           /\ out' \in {<<Token("one")>>, <<Token("text")>> \o Prompt}
    BY <1>2 DEF Greet
  <2>. QED
    BY <1>d, <2>1, ReadyAnswers
<1>3. ASSUME Ignore PROVE SentComing' /\ RunsLast' /\ ReadReady'
  <2>1. PICK kind \in Messages :
           Hears(kind) /\ board \in {"hello", "greeted"} /\ UNCHANGED <<loaded, out>>
    BY <1>3 DEF Ignore, boardVars
  <2>2. kind # "hdr" /\ out' = <<>>
    BY <1>a, <2>1, AwaitsIs
  <2>. QED
    BY <1>d, <2>1, <2>2, ReadyAnswers
<1>4. ASSUME Gather \/ MissCommand PROVE FALSE
  <2>1. board = "prompt"
    BY <1>4 DEF Gather, MissCommand, AtPrompt, InOrder, Left
  <2>. QED
    BY <1>4, <1>a, <2>1, AwaitsIs DEF Gather, MissCommand, Commands
<1>5. ASSUME AskImage PROVE SentComing' /\ RunsLast' /\ ReadReady'
  <2>1. PICK kind \in {"MMU", "LOAD"} :
           Hears(kind) /\ board # "body" /\ UNCHANGED <<loaded, out>>
    BY <1>5 DEF AskImage, AtPrompt
  <2>2. out' = <<>>
    BY <1>a, <2>1
  <2>. QED
    BY <1>d, <2>1, <2>2, ReadyAnswers
<1>6. ASSUME TakeImage PROVE SentComing' /\ RunsLast' /\ ReadReady'
  <2>1. CASE board = "hdr"
    <3>1. /\ Hears("hdr") /\ board' = "body" /\ image' = Head(toBoard)[2]
          /\ UNCHANGED <<loaded, out>>
      BY <1>6, <2>1 DEF TakeImage
    <3>2. out' = <<>> /\ Head(toBoard) = toBoard[1]
      BY <1>0, <3>1, Heard
    <3>3. Ready(out)'
      BY <3>2, ReadyAnswers DEF Ready, Starts, Kind
    <3>. QED
      BY <2>1, <3>1, <3>2, <3>3, HeardKeepsImages
  <2>2. CASE board = "body"
    <3>1. Hears("body") /\ loaded' = loaded \cup {image} /\ out' = Prompt
      BY <1>6, <2>2 DEF TakeImage
    <3>2. ~Starts(out')
      BY <3>1, ReadyAnswers
    <3>3. Ready(out)'
      BY <3>2 DEF Ready, Starts, Kind
    <3>. QED
      BY <3>1, <3>3, HeardKeepsImages
  <2>. QED
    BY <1>6, <2>1, <2>2 DEF TakeImage
<1>7. ASSUME TakeFalseHeader \/ TakeGarbage PROVE FALSE
  <2>1. CASE TakeFalseHeader
    BY <1>a, <2>1, AwaitsIs DEF TakeFalseHeader, InOrder, Left
  <2>2. CASE TakeGarbage
    BY <1>a, <2>2, AwaitsIs DEF TakeGarbage, InOrder, Left
  <2>. QED
    BY <1>7, <2>1, <2>2
<1>8. ASSUME Info PROVE SentComing' /\ RunsLast' /\ ReadReady'
  <2>1. Hears("INFO") /\ board # "body" /\ UNCHANGED loaded /\ out' = <<Token("text")>> \o Prompt
    BY <1>8 DEF Info, AtPrompt
  <2>. QED
    BY <1>d, <2>1, ReadyAnswers
<1>9. ASSUME RunApplication PROVE SentComing' /\ RunsLast' /\ ReadReady'
  <2>1. Hears("RUN") /\ board \in {"prompt", "litter"} /\ UNCHANGED loaded
    BY <1>9 DEF RunApplication, AtPrompt
  <2>2. 1 \in DOMAIN toBoard /\ Kind(toBoard[1]) = "RUN"
    BY <1>e, <2>1
  <2>3. ASSUME NEW c \in Loading PROVE c \in loaded
    <3>1. Coming(c, 1)
      BY <2>2 DEF RunsLast
    <3>2. toBoard[1] # <<"hdr", c>>
      BY <2>2 DEF Kind
    <3>. QED
      BY <2>1, <3>1, <3>2 DEF Coming
  <2>4. Ready(out)'
    BY <2>1, <2>3 DEF Ready
  <2>. QED
    BY <2>1, <2>4, HeardKeepsImages
<1>10. ASSUME ResetCommand PROVE SentComing' /\ RunsLast' /\ ReadReady'
  <2>1. Hears("RESET") /\ UNCHANGED <<host, step>>
    BY <1>0, <1>10, Heard DEF ResetCommand
  <2>2. 1 \in DOMAIN toBoard /\ Kind(toBoard[1]) = "RESET"
    BY <1>e, <2>1
  <2>3. ~Session
    BY <2>2, SessionAdmits
  <2>4. ~Session'
    BY <2>1, <2>3 DEF Session
  <2>5. host # "collect"
    BY <2>3, ScriptLength DEF Session, LinkTypes, Places
  <2>6. ASSUME NEW k \in DOMAIN toBoard' PROVE Kind(toBoard'[k]) # "RUN"
    <3>1. k + 1 \in DOMAIN toBoard /\ toBoard'[k] = toBoard[k + 1] /\ 1 < k + 1
      BY <1>e, <2>1
    <3>. QED
      BY <2>2, <3>1 DEF InOrder, Restart
  <2>7. RunsLast'
    BY <2>6 DEF RunsLast, Kind
  <2>. QED
    BY <2>1, <2>4, <2>5, <2>7 DEF SentComing, ReadReady
<1>11. ASSUME ChipResets PROVE SentComing' /\ RunsLast' /\ ReadReady'
  <2>1. board = "reset" /\ toBoard' = <<>> /\ UNCHANGED <<host, step>>
    BY <1>11 DEF ChipResets, hostVars
  <2>. QED
    BY <1>b, <1>c, <2>1
<1>12. ASSUME Transmit PROVE SentComing' /\ RunsLast' /\ ReadReady'
  <2>1. /\ UNCHANGED <<host, step, board, image, loaded, toBoard>>
        /\ out # <<>> /\ out' = Tail(out)
        /\ toHost' = toHost \/ toHost' = Append(toHost, Head(out))
    BY <1>12 DEF Transmit, hostVars
  <2>2. (Session' <=> Session) /\ Head(out) \in HostTokens
    BY <1>0, <2>1 DEF Session
  <2>3. SentComing' /\ RunsLast'
    BY <2>1, <2>2, LineKeepsImages
  <2>4. ASSUME Session PROVE Ready(out)' /\ Ready(toHost)'
    <3>1. Ready(out) /\ Ready(toHost)
      BY <2>4 DEF ReadReady
    <3>2. Ready(Tail(out)) /\ (Kind(Head(out)) = "dollar" => Loading \subseteq loaded)
      BY <1>0, <2>1, <3>1, ReadyTail
    <3>3. Ready(Append(toHost, Head(out)))
      BY <1>0, <2>2, <3>1, <3>2, ReadyAppend
    <3>4. Ready(out)'
      BY <2>1, <3>2 DEF Ready
    <3>5. Ready(toHost)'
      BY <2>1, <3>1, <3>3 DEF Ready
    <3>. QED
      BY <3>4, <3>5
  <2>. QED
    BY <2>1, <2>2, <2>3, <2>4 DEF ReadReady
<1>. QED
  BY <1>1, <1>2, <1>3, <1>4, <1>5, <1>6, <1>7, <1>8, <1>9, <1>10, <1>11, <1>12, NotFooled
  DEF Board, InOrder

------------------------------------------------------------------------------
(* The theorems.                                                            *)

\* The types of both sides, and of the line, are an invariant.
LEMMA LinkTypesHold == Spec => []LinkTypes
<1>. USE LinkAssumption
<1>1. Init => LinkTypes
  <2>. SUFFICES ASSUME Init PROVE LinkTypes
    OBVIOUS
  <2>1. samples \in Arrays
    BY DEF Init, Arrays, NoSample
  <2>2. 0 \in 0..Len(Script) /\ 1 \in 1..Runs
    BY ScriptLength DEF LinkAssumption
  <2>3. /\ host = "closed" /\ step = 0 /\ iter = 1 /\ heard = FALSE /\ total = 0
        /\ line = <<>> /\ toHost = <<>>
    BY DEF Init
  <2>4. step \in 0..Len(Script) /\ iter \in 1..Runs
        /\ line \in Seq(HostTokens) /\ toHost \in Seq(HostTokens)
    BY <2>2, <2>3
  <2>5. HostTypes
    BY <2>1, <2>3, <2>4 DEF HostTypes
  <2>6. BoardTypes
    BY DEF Init, BoardTypes, HeaderSize
  <2>7. FixedTypes
    <3>1. slow \in BOOLEAN /\ missing \subseteq Unbuilt /\ faults = 0 /\ fooled = FALSE
      BY DEF Init, LinkAssumption
    <3>2. MaxFaults[slow] \in Nat
      BY <3>1, FaultsAssumption
    <3>3. faults \in 0..MaxFaults[slow]
      BY <3>1, <3>2
    <3>4. fooled \in BOOLEAN
      BY <3>1
    <3>. QED
      BY <3>1, <3>3, <3>4, Zenon DEF FixedTypes
  <2>8. Places
    BY <2>3 DEF Places
  <2>. QED
    BY <2>5, <2>6, <2>7, <2>8 DEF LinkTypes
<1>2. LinkTypes /\ [Next]_vars => LinkTypes'
  <2>. SUFFICES ASSUME LinkTypes, [Next]_vars PROVE LinkTypes'
    OBVIOUS
  <2>1. CASE Next
    BY <2>1, HostKeepsTypes, BoardKeepsTypes, FaultsKeepTypes DEF Next
  <2>2. CASE UNCHANGED vars
    BY <2>2 DEF vars, hostVars, boardVars, fixed, LinkTypes, HostTypes, BoardTypes,
       FixedTypes, Places
  <2>. QED
    BY <2>1, <2>2
<1>. QED
  BY <1>1, <1>2, PTL DEF Spec

\* Whatever is killed or switched off, both sides stay in the states of the
\* model, and the line carries nothing but tokens.
THEOREM LinkStaysTyped == Spec => []TypeOK
<1>1. ASSUME LinkTypes PROVE TypeOK
  <2>. USE <1>1 DEF LinkTypes
  <2>1. \A t \in HostTokens : Kind(t) \in TokensToHost
    BY DEF HostTokens, TokensToHost, Kind
  <2>2. \A t \in BoardTokens : Kind(t) \in TokensToBoard
    BY ImageTokens
  <2>3. ASSUME NEW r \in 0..(Outputs - 1), NEW i \in 0..(Size - 1)
        PROVE  samples[r][i].value \in -1..(Outputs * Size - 1)
    <3>1. samples[r][i].value \in {-1} \cup Values
      BY DEF HostTypes, Arrays
    <3>. QED
      BY <3>1, LinkAssumption DEF Values, LinkAssumption
  <2>4. image \in NoImage..(Cores - 1) /\ loaded \subseteq -1..(Cores - 1)
    BY LinkAssumption DEF BoardTypes, Images, NoImage, LinkAssumption
  <2>. QED
    BY <2>1, <2>2, <2>3, <2>4 DEF TypeOK, HostTypes, BoardTypes, FixedTypes
<1>. QED
  BY <1>1, LinkTypesHold, PTL

\* A victim whose binary cannot be opened yields no samples, under any faults
\* and any timeouts: its image is never in the line, so RUN prints no value.
THEOREM VictimIsLoaded == Spec => []VictimLoaded
<1>. USE LinkAssumption
<1>1. Init => NoVictim
  BY SilentAnswers DEF Init, NoVictim, VictimLoaded, NoImage
<1>2. LinkTypes /\ NoVictim /\ [Next]_vars => NoVictim'
  <2>. SUFFICES ASSUME LinkTypes, NoVictim, [Next]_vars PROVE NoVictim'
    OBVIOUS
  <2>1. CASE Next
    <3>1. missing' = missing
      BY <2>1, MissingStays
    <3>2. CASE 0 \in missing
      BY <2>1, <3>2, VictimHost, VictimBoard, VictimFaults DEF Next
    <3>3. CASE 0 \notin missing
      BY <3>1, <3>3 DEF NoVictim
    <3>. QED
      BY <3>2, <3>3
  <2>2. CASE UNCHANGED vars
    BY <2>2 DEF vars, hostVars, boardVars, fixed, NoVictim, VictimLoaded, Silent, Kind
  <2>. QED
    BY <2>1, <2>2
<1>3. NoVictim => VictimLoaded
  BY DEF NoVictim, VictimLoaded
<1>. QED
  BY <1>1, <1>2, <1>3, LinkTypesHold, PTL DEF Spec

\* What is undisturbed was so before, and no fault is what happened.
LEMMA UndisturbedBefore ==
    ASSUME LinkTypes, Next, Undisturbed'
    PROVE  Undisturbed /\ (Host \/ Board)
<1>1. missing = {}
  BY MissingStays DEF Undisturbed
<1>2. ASSUME KillTool \/ PowerCycle PROVE FALSE
  BY <1>2 DEF KillTool, PowerCycle, Undisturbed, LinkTypes, FixedTypes
<1>3. Host \/ Board
  BY <1>2 DEF Next
<1>4. faults = 0
  BY <1>3, HostFootprint, BoardFootprint DEF Undisturbed
<1>. QED
  BY <1>1, <1>3, <1>4 DEF Undisturbed

------------------------------------------------------------------------------
(* The samples: what a benchmark prints, and how the host reads it.         *)

Total == Outputs * Size
Length == 2 * Total + 2
\* What the board has printed and the host has not read.
Stream == toHost \o out
\* The tokens of s from place k on are those of the benchmark from place p on,
\* as far as s goes; they are all there.
Follows(s, k, p) == \A q \in 0..(Length - p) : k + q <= Len(s) => s[k + q] = Benchmark[p + q]
Reaches(s, k, p) == k + (Length - p) <= Len(s)
Starting(s, k) == Kind(s[k]) = "dollar"

\* A firmware that has just started has printed nothing but its 0x1,
Fresh ==
    /\ board = "off" => toBoard = <<>>
    /\ board \in {"off", "hello"} => out = <<>>
    /\ board = "greeted" => out \in {<<>>, <<Token("one")>>}
    /\ Greeting(out) => board = "greeted"
    /\ host \in {"closed", "done"} => toHost = <<>>
\* and nothing at all to a host that found the line with a 0x0 of the last one,
Stale ==
    host = "knock" /\ (\E k \in DOMAIN toBoard : Kind(toBoard[k]) = "zero") =>
        /\ board = "hello" => toHost = <<>>
        /\ board = "greeted" => Stream \in {<<>>, <<Token("one")>>}
\* so what comes after a 0x1 is read after it: the host does not knock again.
Answered == Stream # <<>> /\ Kind(Stream[1]) = "one"
Greets ==
    host = "knock" =>
        /\ (\E k, m \in DOMAIN Stream :
               k < m /\ Kind(Stream[k]) = "one" /\ Kind(Stream[m]) # "one") => Answered
        /\ Greeting(Stream) /\ board \notin {"off", "hello", "greeted"} => Answered
HandshakeInv == Fresh /\ Stale /\ Greets

\* The firmware has nothing to print and waits for a knock that is not sent.
Stopped == board \in {"off", "hello"} /\ out = <<>> /\ ~Greeting(toBoard)
\* What the board prints is a whole benchmark,
OutWhole ==
    \A k \in DOMAIN out : Starting(out, k) => Follows(out, k, 1) /\ Reaches(out, k, 1)
\* and so is what the host will read, unless the board was switched off and
\* prints nothing more to this host.
Whole ==
    \A k \in DOMAIN Stream : Starting(Stream, k) =>
        Follows(Stream, k, 1) /\ (Reaches(Stream, k, 1) \/ Stopped)
Open == host \in {"log", "send", "hdr", "body", "seek", "collect", "exit"}
StreamInv == OutWhole /\ (Open \/ (host = "knock" /\ Answered) => Whole)

\* The samples of the first n values.
Stored(n) == \A v \in 0..(n - 1) :
    samples[v % Outputs][v \div Outputs] = [value |-> v, run |-> iter, whole |-> TRUE]
\* Before place p the host has read "total" values, and the mark of one more,
\* or it has lost the rest of the last one to a timeout.
Between(p) == line = <<>> /\ p = 2 * total + 2
Within(p) == line = <<<<"mark", total>>>> /\ p = 2 * total + 3
Lost(p) == line = <<>> /\ total > 0 /\ p = 2 * total + 1
Collects(p) ==
    /\ Follows(Stream, 1, p) /\ (Reaches(Stream, 1, p) \/ Stopped)
    /\ Between(p) \/ Within(p) \/ Lost(p)
    /\ ~slow => Stream = <<>> \/ (Stored(total) /\ ~Lost(p))
SampleInv ==
    /\ InPlace
    /\ host = "seek" => total = 0
    /\ host = "collect" => \E p \in 2..Length : Collects(p)
    /\ ~slow /\ host \notin {"seek", "collect"} /\ step >= Visited + 3 => Stored(Total)

\* What is printed and what is in the line, as one sequence.
LEMMA Joined ==
    ASSUME NEW a \in Seq(HostTokens), NEW b \in Seq(HostTokens)
    PROVE  /\ a \o b \in Seq(HostTokens) /\ Len(a \o b) = Len(a) + Len(b)
           /\ Len(a) \in Nat /\ Len(b) \in Nat
           /\ DOMAIN a = 1..Len(a) /\ DOMAIN b = 1..Len(b)
           /\ DOMAIN (a \o b) = 1..(Len(a) + Len(b))
           /\ \A k \in 1..Len(a) : (a \o b)[k] = a[k]
           /\ \A k \in 1..Len(b) : (a \o b)[Len(a) + k] = b[k]
           /\ a = <<>> => a \o b = b
           /\ b = <<>> => a \o b = a
OBVIOUS

\* The benchmark, token by token.
LEMMA BenchmarkIs ==
    ASSUME LinkAssumption
    PROVE  /\ Total \in Nat /\ Length \in Nat /\ Length >= 2 /\ Length = 2 * Total + 2
           /\ Benchmark \in Seq(HostTokens) /\ Len(Benchmark) = Length
           /\ Benchmark[1] = Token("dollar") /\ Benchmark[Length] = Token("end")
           /\ \A v \in 0..(Total - 1) : /\ Benchmark[2 * v + 2] = <<"mark", v>>
                                        /\ Benchmark[2 * v + 3] = <<"tail", v>>
<1>1. Total \in Nat /\ 2 * Outputs * Size = 2 * Total
  BY DEF LinkAssumption, Total
<1>. HIDE DEF Total
<1>. DEFINE value(n) == IF n % 2 = 1 THEN <<"mark", n \div 2>>
                                 ELSE <<"tail", (n \div 2) - 1>>
            middle == [n \in 1..(2 * Total) |-> value(n)]
            first == <<Token("dollar")>>
            last == <<Token("end")>>
<1>2. Benchmark = first \o middle \o last
  BY <1>1 DEF Benchmark
<1>3. ASSUME NEW v \in 0..(Total - 1)
      PROVE  /\ 2 * v + 1 \in 1..(2 * Total) /\ 2 * v + 2 \in 1..(2 * Total)
             /\ value(2 * v + 1) = <<"mark", v>> /\ value(2 * v + 2) = <<"tail", v>>
  BY <1>1, <1>3
<1>4. middle \in Seq(HostTokens)
  <2>1. ASSUME NEW n \in 1..(2 * Total) PROVE value(n) \in HostTokens
    <3>1. CASE n % 2 = 1
      <4>1. n \div 2 \in 0..(Total - 1)
        BY <1>1, <3>1
      <4>. QED
        BY <3>1, <4>1 DEF HostTokens, Values, Total
    <3>2. CASE n % 2 # 1
      <4>1. (n \div 2) - 1 \in 0..(Total - 1)
        BY <1>1, <3>2
      <4>. QED
        BY <3>2, <4>1 DEF HostTokens, Values, Total
    <3>. QED
      BY <3>1, <3>2
  <2>. HIDE DEF value
  <2>. QED
    BY <1>1, <2>1
<1>5. Len(middle) = 2 * Total /\ \A n \in 1..(2 * Total) : middle[n] = value(n)
  BY <1>1
<1>6. /\ first \in Seq(HostTokens) /\ Len(first) = 1 /\ first[1] = Token("dollar")
      /\ last \in Seq(HostTokens) /\ Len(last) = 1 /\ last[1] = Token("end")
  BY DEF HostTokens, Token
<1>. HIDE DEF middle, first, last, value
<1>. DEFINE front == first \o middle
<1>7. /\ front \in Seq(HostTokens) /\ Len(front) = 2 * Total + 1
      /\ front[1] = Token("dollar")
      /\ \A n \in 1..(2 * Total) : front[1 + n] = value(n)
  <2>1. /\ front \in Seq(HostTokens) /\ Len(front) = 1 + 2 * Total
        /\ front[1] = first[1]
        /\ \A n \in 1..(2 * Total) : front[1 + n] = middle[n]
    <3>1. /\ front \in Seq(HostTokens) /\ Len(front) = Len(first) + Len(middle)
          /\ \A k \in 1..Len(first) : front[k] = first[k]
          /\ \A k \in 1..Len(middle) : front[Len(first) + k] = middle[k]
      BY <1>4, <1>6, Joined
    <3>. QED
      BY <1>1, <1>5, <1>6, <3>1
  <2>2. Len(front) = 2 * Total + 1
    BY <1>1, <2>1
  <2>. QED
    BY <1>5, <1>6, <2>1, <2>2
<1>. HIDE DEF front
<1>8. /\ Benchmark \in Seq(HostTokens) /\ Len(Benchmark) = 2 * Total + 2
      /\ Benchmark[2 * Total + 2] = Token("end")
      /\ \A n \in 1..(2 * Total + 1) : Benchmark[n] = front[n]
  <2>1. Benchmark = front \o last
    BY <1>2 DEF front
  <2>2. /\ Benchmark \in Seq(HostTokens) /\ Len(Benchmark) = Len(front) + Len(last)
        /\ \A k \in 1..Len(front) : Benchmark[k] = front[k]
        /\ \A k \in 1..Len(last) : Benchmark[Len(front) + k] = last[k]
    BY <1>6, <1>7, <2>1, Joined
  <2>3. Benchmark[(2 * Total + 1) + 1] = last[1] /\ (2 * Total + 1) + 1 = 2 * Total + 2
    BY <1>1, <1>6, <1>7, <2>2
  <2>. QED
    BY <1>1, <1>6, <1>7, <2>2, <2>3
<1>9. ASSUME NEW v \in 0..(Total - 1)
      PROVE  Benchmark[2 * v + 2] = <<"mark", v>> /\ Benchmark[2 * v + 3] = <<"tail", v>>
  <2>. DEFINE j == 2 * v + 1
  <2>1. /\ j \in 1..(2 * Total) /\ j + 1 \in 1..(2 * Total)
        /\ value(j) = <<"mark", v>> /\ value(j + 1) = <<"tail", v>>
        /\ j + 1 \in 1..(2 * Total + 1) /\ j + 2 \in 1..(2 * Total + 1)
        /\ 2 * v + 2 = j + 1 /\ 2 * v + 3 = j + 2 /\ j + 2 = 1 + (j + 1)
        /\ j + 1 = 1 + j
    BY <1>1, <1>3
  <2>. HIDE DEF j
  <2>. QED
    BY <1>7, <1>8, <2>1
<1>10. Length = 2 * Total + 2 /\ Length \in Nat /\ Length >= 2 /\ 1 \in 1..(2 * Total + 1)
  BY <1>1 DEF Length
<1>. QED
  BY <1>1, <1>7, <1>8, <1>9, <1>10

\* The stream is what is in the line, then what is to be printed.
LEMMA StreamIs ==
    ASSUME LinkTypes
    PROVE  /\ Stream \in Seq(HostTokens) /\ Len(Stream) = Len(toHost) + Len(out)
           /\ Len(toHost) \in Nat /\ Len(out) \in Nat /\ Len(Stream) \in Nat
           /\ DOMAIN toHost = 1..Len(toHost) /\ DOMAIN out = 1..Len(out)
           /\ DOMAIN Stream = 1..Len(Stream)
           /\ \A k \in 1..Len(toHost) : Stream[k] = toHost[k]
           /\ \A k \in 1..Len(out) : Stream[Len(toHost) + k] = out[k]
           /\ toHost = <<>> => Stream = out
           /\ out = <<>> => Stream = toHost
           /\ toHost \in Seq(HostTokens) /\ out \in Seq(HostTokens)
BY Joined DEF LinkTypes, HostTypes, BoardTypes, Stream

\* How a step moves the stream: it is read, the board prints behind it, or what
\* was not yet in the line is lost.
Reads ==
    /\ Len(Stream) > 0 /\ Len(Stream') = Len(Stream) - 1
    /\ \A k \in 1..(Len(Stream) - 1) : Stream'[k] = Stream[k + 1]
Prints ==
    /\ Len(Stream') = Len(Stream) + Len(out')
    /\ \A k \in 1..Len(Stream) : Stream'[k] = Stream[k]
    /\ \A k \in 1..Len(out') : Stream'[Len(Stream) + k] = out'[k]
    /\ Stream = <<>> => Stream' = out'
Cuts ==
    /\ Len(Stream') <= Len(Stream)
    /\ \A k \in 1..Len(Stream') : Stream'[k] = Stream[k]

\* A byte that the host reads is the first of the stream.
LEMMA HostReads ==
    ASSUME LinkTypes, LinkTypes', toHost # <<>>, Receive, out' = out
    PROVE  Reads /\ Stream[1] = Head(toHost)
<1>1. /\ Head(toHost) = toHost[1] /\ Len(toHost) \in Nat \ {0}
      /\ Len(toHost') = Len(toHost) - 1
      /\ \A k \in 1..(Len(toHost) - 1) : toHost'[k] = toHost[k + 1]
  BY Received DEF LinkTypes, HostTypes
<1>2. /\ Stream' \in Seq(HostTokens) /\ Len(Stream') = Len(toHost') + Len(out')
      /\ \A k \in 1..Len(toHost') : Stream'[k] = toHost'[k]
      /\ \A k \in 1..Len(out') : Stream'[Len(toHost') + k] = out'[k]
  BY Joined DEF LinkTypes, HostTypes, BoardTypes, Stream
<1>3. /\ Len(Stream) = Len(toHost) + Len(out) /\ Len(out) \in Nat
      /\ \A k \in 1..Len(toHost) : Stream[k] = toHost[k]
      /\ \A k \in 1..Len(out) : Stream[Len(toHost) + k] = out[k]
  BY StreamIs
<1>4. ASSUME NEW k \in 1..(Len(Stream) - 1) PROVE Stream'[k] = Stream[k + 1]
  <2>1. CASE k <= Len(toHost) - 1
    <3>1. k \in 1..(Len(toHost) - 1) /\ k \in 1..Len(toHost') /\ k + 1 \in 1..Len(toHost)
      BY <1>1, <2>1
    <3>. QED
      BY <1>1, <1>2, <1>3, <3>1
  <2>2. CASE ~(k <= Len(toHost) - 1)
    <3>. DEFINE j == k - (Len(toHost) - 1)
    <3>1. /\ j \in 1..Len(out) /\ k = Len(toHost') + j /\ k + 1 = Len(toHost) + j
      BY <1>1, <1>3, <2>2
    <3>. HIDE DEF j
    <3>. QED
      BY <1>2, <1>3, <3>1
  <2>. QED
    BY <2>1, <2>2
<1>. QED
  BY <1>1, <1>2, <1>3, <1>4 DEF Reads

\* A firmware prints only when all it had to print is in the line.
LEMMA BoardPrints ==
    ASSUME LinkTypes, LinkTypes', out = <<>>, toHost' = toHost
    PROVE  Prints /\ Stream = toHost
<1>1. Stream = toHost /\ Len(toHost) \in Nat
  BY StreamIs
<1>2. /\ Len(Stream') = Len(toHost) + Len(out')
      /\ \A k \in 1..Len(toHost) : Stream'[k] = toHost[k]
      /\ \A k \in 1..Len(out') : Stream'[Len(toHost) + k] = out'[k]
      /\ toHost = <<>> => Stream' = out'
  <2>1. Stream' = toHost \o out' /\ toHost \in Seq(HostTokens) /\ out' \in Seq(HostTokens)
    BY DEF LinkTypes, HostTypes, BoardTypes, Stream
  <2>. QED
    BY <2>1, Joined
<1>. QED
  BY <1>1, <1>2 DEF Prints

\* A reset or a loss of power loses what is not in the line yet.
LEMMA BoardCuts ==
    ASSUME LinkTypes, out' = <<>>, toHost' = toHost
    PROVE  Cuts /\ Stream' = toHost
<1>1. Stream' = toHost
  BY DEF LinkTypes, HostTypes, Stream
<1>. QED
  BY <1>1, StreamIs DEF Cuts

\* A byte that goes into the line stays where it is in the stream.
LEMMA BoardTransmits ==
    ASSUME LinkTypes, Transmit, host \notin {"closed", "done"}
    PROVE  Stream' = Stream /\ out # <<>>
<1>1. /\ out # <<>> /\ out' = Tail(out) /\ toHost' = Append(toHost, Head(out))
      /\ out \in Seq(HostTokens) /\ toHost \in Seq(HostTokens)
  BY DEF Transmit, LinkTypes, HostTypes, BoardTypes
<1>2. \A a, b \in Seq(HostTokens) : b # <<>> => Append(a, Head(b)) \o Tail(b) = a \o b
  OBVIOUS
<1>. QED
  BY <1>1, <1>2 DEF Stream

------------------------------------------------------------------------------
(* The handshake, whatever was left in the line.                            *)

\* Reading puts no byte behind a 0x1,
LEMMA ReadNoMore ==
    ASSUME LinkTypes, LinkTypes', Reads, ~Answered,
           \E k, m \in DOMAIN Stream' :
               k < m /\ Kind(Stream'[k]) = "one" /\ Kind(Stream'[m]) # "one"
    PROVE  \E k, m \in DOMAIN Stream :
               k < m /\ Kind(Stream[k]) = "one" /\ Kind(Stream[m]) # "one"
<1>1. PICK k, m \in DOMAIN Stream' :
          k < m /\ Kind(Stream'[k]) = "one" /\ Kind(Stream'[m]) # "one"
  OBVIOUS
<1>2. Stream' \in Seq(HostTokens) /\ DOMAIN Stream = 1..Len(Stream) /\ Len(Stream) \in Nat
  BY StreamIs, Joined DEF LinkTypes, HostTypes, BoardTypes, Stream
<1>3. /\ k \in 1..(Len(Stream) - 1) /\ m \in 1..(Len(Stream) - 1)
      /\ Stream'[k] = Stream[k + 1] /\ Stream'[m] = Stream[m + 1]
  BY <1>1, <1>2 DEF Reads
<1>4. k + 1 \in DOMAIN Stream /\ m + 1 \in DOMAIN Stream /\ k + 1 < m + 1
  BY <1>1, <1>2, <1>3
<1>. QED
  BY <1>1, <1>3, <1>4

\* nothing but knocks into knocks,
LEMMA ReadKnocks ==
    ASSUME LinkTypes, LinkTypes', Reads, Knocks(Stream)
    PROVE  Knocks(Stream')
<1>1. ASSUME NEW k \in DOMAIN Stream' PROVE Kind(Stream'[k]) = "one"
  <2>1. Stream' \in Seq(HostTokens) /\ DOMAIN Stream = 1..Len(Stream) /\ Len(Stream) \in Nat
    BY StreamIs, Joined DEF LinkTypes, HostTypes, BoardTypes, Stream
  <2>2. k + 1 \in DOMAIN Stream /\ Stream'[k] = Stream[k + 1]
    BY <1>1, <2>1 DEF Reads
  <2>. QED
    BY <2>2 DEF Knocks
<1>. QED
  BY <1>1 DEF Knocks

\* and no 0x1 into the stream.
LEMMA ReadGreeting ==
    ASSUME LinkTypes, LinkTypes', Reads, Greeting(Stream')
    PROVE  Greeting(Stream)
<1>1. PICK k \in DOMAIN Stream' : Kind(Stream'[k]) = "one"
  BY DEF Greeting
<1>2. Stream' \in Seq(HostTokens) /\ DOMAIN Stream = 1..Len(Stream) /\ Len(Stream) \in Nat
  BY StreamIs, Joined DEF LinkTypes, HostTypes, BoardTypes, Stream
<1>3. k + 1 \in DOMAIN Stream /\ Stream'[k] = Stream[k + 1]
  BY <1>1, <1>2 DEF Reads
<1>. QED
  BY <1>1, <1>3 DEF Greeting

\* A knock puts no 0x0 into the line.
LEMMA KnockNoZero ==
    ASSUME LinkTypes, SendToken(Token("one")),
           \E k \in DOMAIN toBoard' : Kind(toBoard'[k]) = "zero"
    PROVE  \E k \in DOMAIN toBoard : Kind(toBoard[k]) = "zero"
<1>1. PICK k \in DOMAIN toBoard' : Kind(toBoard'[k]) = "zero"
  OBVIOUS
<1>2. Kind(Token("one")) # "zero" /\ Kind(Token("scrap")) # "zero"
  BY DEF Token, Kind
<1>3. k \in DOMAIN toBoard /\ toBoard'[k] = toBoard[k]
  BY <1>1, <1>2, SentRest
<1>. QED
  BY <1>1, <1>3

\* A firmware that greeted has its answer still before it, and nothing else.
LEMMA GreetingIsAll ==
    ASSUME LinkTypes, Fresh, Greeting(out)
    PROVE  board = "greeted" /\ out = <<Token("one")>>
BY DEF Fresh, Greeting

\* The host knocks, and reads the answer, with what was left in the line.
LEMMA HandshakeHost ==
    ASSUME LinkTypes, LinkTypes', HandshakeInv, Host
    PROVE  HandshakeInv'
<1>. USE DEF HandshakeInv
<1>1. UNCHANGED <<board, out>>
  BY HostFootprint
<1>2. board = "off" => toBoard' = toBoard
  BY DEF Host, OpenPort, KnockAgain, HandshakeDone, LogByte, LogEnds, LogTimesOut, SkipCore,
     SendCommand, SendImage, SkipImage, ReadLine, LineTimesOut, ClosePort, Send, SendToken,
     Unheard
<1>3. host' \in {"closed", "done"} => toHost' = <<>>
  BY DEF Host, OpenPort, KnockAgain, HandshakeDone, LogByte, LogEnds, LogTimesOut, SkipCore,
     SendCommand, SendImage, SkipImage, ReadLine, LineTimesOut, ClosePort, ProcessLine, hostVars, AfterLog,
     LinkTypes, Places
<1>4. Fresh'
  BY <1>1, <1>2, <1>3 DEF Fresh, Greeting, Kind
<1>5. CASE OpenPort
  <2>1. host = "closed" /\ SendToken(Token("one")) /\ toHost' = toHost /\ toHost = <<>>
    BY <1>5 DEF OpenPort, Send, Fresh
  <2>2. Stream' = out
    BY <1>1, <2>1, StreamIs DEF Stream
  <2>3. Stale'
    BY <1>1, <2>1, <2>2 DEF Stale, Fresh
  <2>4. Greeting(out) => board = "greeted" /\ out = <<Token("one")>>
    BY GreetingIsAll
  <2>5. Greets'
    <3>1. ASSUME NEW k \in DOMAIN out, NEW m \in DOMAIN out, k < m, Kind(out[k]) = "one" PROVE FALSE
      <4>1. out = <<Token("one")>>
        BY <2>4, <3>1 DEF Greeting
      <4>2. DOMAIN out = 1..1
        BY <4>1
      <4>. QED
        BY <3>1, <4>2
    <3>. QED
      BY <1>1, <2>2, <2>4, <3>1 DEF Greets
  <2>. QED
    BY <1>4, <2>3, <2>5
<1>6. CASE KnockAgain
  <2>1. host = "knock" /\ host' = "knock" /\ SendToken(Token("one"))
    BY <1>6 DEF KnockAgain, Send, hostVars
  <2>2. CASE UNCHANGED toHost
    <3>1. Stream' = Stream
      BY <1>1, <2>2 DEF Stream
    <3>2. Stale'
      BY <1>1, <2>1, <2>2, <3>1, KnockNoZero DEF Stale
    <3>3. Greets'
      BY <1>1, <2>1, <3>1 DEF Greets, Answered, Greeting
    <3>. QED
      BY <1>4, <3>2, <3>3
  <2>3. CASE toHost # <<>> /\ Kind(Head(toHost)) # "one" /\ Receive
    <3>1. Reads /\ Stream[1] = Head(toHost)
      BY <1>1, <2>3, HostReads
    <3>2. ~Answered
      BY <2>3, <3>1 DEF Answered
    <3>3. Stale'
      <4>1. SUFFICES ASSUME \E k \in DOMAIN toBoard' : Kind(toBoard'[k]) = "zero",
                            board \in {"hello", "greeted"}
                     PROVE  FALSE
        BY <1>1 DEF Stale
      <4>2. Stream \in {<<>>, <<Token("one")>>}
        BY <2>1, <2>3, <4>1, KnockNoZero DEF Stale
      <4>3. Stream = <<Token("one")>>
        BY <2>3, <4>2, StreamIs
      <4>4. Answered
        BY <4>3 DEF Answered, Token, Kind
      <4>. QED
        BY <3>2, <4>4
    <3>4. ~ \E k, m \in DOMAIN Stream' :
              k < m /\ Kind(Stream'[k]) = "one" /\ Kind(Stream'[m]) # "one"
      BY <2>1, <3>1, <3>2, ReadNoMore DEF Greets
    <3>5. ~(Greeting(Stream') /\ board' \notin {"off", "hello", "greeted"})
      BY <1>1, <2>1, <3>1, <3>2, ReadGreeting DEF Greets
    <3>6. Greets'
      BY <3>4, <3>5 DEF Greets, Greeting
    <3>. QED
      BY <1>4, <3>3, <3>6
  <2>. QED
    BY <1>6, <2>2, <2>3 DEF KnockAgain
<1>7. CASE ~OpenPort /\ ~KnockAgain
  <2>1. host' # "knock"
    BY <1>7 DEF Host, HandshakeDone, LogByte, LogEnds, LogTimesOut, SkipCore, SendCommand,
       SendImage, SkipImage, ReadLine, LineTimesOut, ClosePort, ProcessLine, AfterLog
  <2>. QED
    BY <1>4, <2>1 DEF Stale, Greets
<1>. QED
  BY <1>5, <1>6, <1>7

\* The firmware starts, greets and goes on to its prompt.
LEMMA HandshakeBoard ==
    ASSUME LinkAssumption, LinkTypes, LinkTypes', HandshakeInv,
           (Board /\ ~TakeForHandshake) \/ PowerCycle
    PROVE  HandshakeInv'
<1>. USE DEF HandshakeInv
<1>1. host' = host
  BY BoardFootprint DEF PowerCycle, hostVars
<1>2. CASE Boot
  <2>1. board = "off" /\ board' = "hello" /\ UNCHANGED <<out, toBoard, toHost>>
    BY <1>2 DEF Boot
  <2>2. toBoard = <<>> /\ out = <<>> /\ Stream' = Stream
    BY <2>1 DEF Fresh, Stream
  <2>. QED
    BY <1>1, <2>1, <2>2 DEF Fresh, Stale, Greets, Answered, Greeting
<1>3. CASE board = "hello" /\ Greet
  <2>1. /\ board = "hello" /\ Hears("one") /\ board' = "greeted" /\ out' = <<Token("one")>>
        /\ out = <<>> /\ toHost' = toHost
    BY <1>3 DEF Greet, Hears, Takes
  <2>2. Prints /\ Stream = toHost
    BY <2>1, BoardPrints
  <2>3. Fresh'
    BY <1>1, <2>1 DEF Fresh
  <2>4. Stale'
    <3>1. (\E k \in DOMAIN toBoard' : Kind(toBoard'[k]) = "zero") =>
              \E k \in DOMAIN toBoard : Kind(toBoard[k]) = "zero"
      <4>1. SUFFICES ASSUME NEW k \in DOMAIN toBoard', Kind(toBoard'[k]) = "zero"
                     PROVE  \E m \in DOMAIN toBoard : Kind(toBoard[m]) = "zero"
        OBVIOUS
      <4>2. k + 1 \in DOMAIN toBoard /\ toBoard'[k] = toBoard[k + 1]
        BY <2>1, <4>1, HeardRest
      <4>. QED
        BY <4>1, <4>2
    <3>. QED
      BY <1>1, <2>1, <2>2, <3>1 DEF Stale, Prints
  <2>5. ASSUME NEW k \in DOMAIN Stream', NEW m \in DOMAIN Stream', host = "knock",
               k < m, Kind(Stream'[k]) = "one", Kind(Stream'[m]) # "one"
        PROVE  Answered'
    <3>1. DOMAIN Stream' = 1..(Len(Stream) + 1) /\ Stream'[Len(Stream) + 1] = Token("one")
      <4>1. Len(out') = 1 /\ out'[1] = Token("one") /\ DOMAIN Stream' = 1..Len(Stream')
        BY <2>1, Joined DEF LinkTypes, HostTypes, BoardTypes, Stream
      <4>2. Len(Stream') = Len(Stream) + 1
        BY <2>2, <4>1 DEF Prints
      <4>3. Stream'[Len(Stream) + 1] = out'[1]
        BY <2>2, <4>1, 1 \in 1..1 DEF Prints
      <4>. QED
        BY <4>1, <4>2, <4>3
    <3>2. Kind(Token("one")) = "one" /\ Len(Stream) \in Nat /\ DOMAIN Stream = 1..Len(Stream)
      BY StreamIs DEF Token, Kind
    <3>3. m \in DOMAIN Stream /\ k \in DOMAIN Stream
      BY <2>5, <3>1, <3>2
    <3>4. Stream'[k] = Stream[k] /\ Stream'[m] = Stream[m] /\ Stream'[1] = Stream[1]
      BY <2>2, <3>2, <3>3 DEF Prints
    <3>5. Answered
      BY <2>5, <3>3, <3>4 DEF Greets
    <3>. QED
      BY <2>5, <3>4, <3>5 DEF Answered
  <2>6. Greets'
    BY <1>1, <2>1, <2>5 DEF Greets
  <2>. QED
    BY <2>3, <2>4, <2>6
<1>4. CASE board # "hello" /\ Greet
  <2>1. /\ board = "greeted" /\ Hears("zero") /\ board' = "prompt"
        /\ out' = <<Token("text")>> \o Prompt /\ out = <<>> /\ toHost' = toHost
    BY <1>4 DEF Greet, Hears, Takes
  <2>2. Prints /\ Stream = toHost /\ ~Greeting(out')
    BY <2>1, BoardPrints, NoGreeting
  <2>3. Fresh' /\ Stale'
    BY <1>1, <2>1, <2>2 DEF Fresh, Stale
  <2>4. ASSUME host = "knock", Greeting(Stream') PROVE Answered'
    <3>1. toBoard # <<>> /\ Kind(toBoard[1]) = "zero" /\ 1 \in DOMAIN toBoard
      BY <2>1, Heard DEF LinkTypes, BoardTypes
    <3>2. Stream \in {<<>>, <<Token("one")>>}
      BY <2>1, <2>4, <3>1 DEF Stale
    <3>3. Stream = <<Token("one")>>
      BY <2>2, <2>4, <3>2 DEF Prints
    <3>4. Stream'[1] = Token("one") /\ Len(Stream') > 0
      <4>1. Len(Stream) = 1 /\ Stream[1] = Token("one") /\ Len(out') \in Nat
        BY <3>3 DEF LinkTypes, BoardTypes
      <4>. QED
        BY <2>2, <4>1 DEF Prints
    <3>. QED
      BY <3>4 DEF Answered, Token, Kind
  <2>5. Greets'
    BY <1>1, <2>4 DEF Greets, Greeting
  <2>. QED
    BY <2>3, <2>5
<1>5. CASE Ignore
  <2>1. UNCHANGED <<board, out, toHost>> /\ board # "off" /\ out = <<>>
    BY <1>5 DEF Ignore, Hears, Takes, boardVars
  <2>2. (\E k \in DOMAIN toBoard' : Kind(toBoard'[k]) = "zero") =>
              \E k \in DOMAIN toBoard : Kind(toBoard[k]) = "zero"
    <3>1. SUFFICES ASSUME NEW k \in DOMAIN toBoard', Kind(toBoard'[k]) = "zero"
                   PROVE  \E m \in DOMAIN toBoard : Kind(toBoard[m]) = "zero"
      OBVIOUS
    <3>0. PICK t : Hears(t)
      BY <1>5 DEF Ignore
    <3>2. k + 1 \in DOMAIN toBoard /\ toBoard'[k] = toBoard[k + 1]
      BY <3>0, <3>1, HeardRest
    <3>. QED
      BY <3>1, <3>2
  <2>3. Stream' = Stream
    BY <2>1 DEF Stream
  <2>4. Fresh' /\ Greets'
    BY <1>1, <2>1, <2>3 DEF Fresh, Greets, Answered, Greeting, Kind
  <2>5. Stale'
    BY <1>1, <2>1, <2>2, <2>3 DEF Stale
  <2>. QED
    BY <2>4, <2>5
<1>6. CASE Board /\ ~TakeForHandshake /\ ~Boot /\ ~Greet /\ ~Ignore /\ ~ChipResets
           /\ ~Transmit
  <2>1. /\ board \notin {"off", "hello", "greeted"} /\ board' \notin {"off", "hello", "greeted"}
        /\ out = <<>> /\ toHost' = toHost /\ ~Greeting(out')
    BY <1>6, PastHandshake
  <2>2. Prints /\ Stream = toHost
    BY <2>1, BoardPrints
  <2>3. Fresh' /\ Stale'
    BY <1>1, <2>1 DEF Fresh, Stale
  <2>4. ASSUME host = "knock", NEW k \in DOMAIN Stream', Kind(Stream'[k]) = "one" PROVE Answered'
    <3>1. DOMAIN Stream' = 1..(Len(Stream) + Len(out')) /\ Len(out') \in Nat /\ DOMAIN out' = 1..Len(out')
      <4>1. DOMAIN Stream' = 1..Len(Stream') /\ Len(out') \in Nat /\ DOMAIN out' = 1..Len(out')
        BY Joined DEF LinkTypes, HostTypes, BoardTypes, Stream
      <4>. QED
        BY <2>2, <4>1 DEF Prints
    <3>2. Len(Stream) \in Nat /\ DOMAIN Stream = 1..Len(Stream)
      BY StreamIs
    <3>3. CASE k <= Len(Stream)
      <4>1. k \in 1..Len(Stream) /\ 1 \in 1..Len(Stream)
        BY <3>1, <3>2, <3>3
      <4>2. Stream'[k] = Stream[k] /\ Stream'[1] = Stream[1]
        BY <2>2, <4>1 DEF Prints
      <4>3. Answered
        BY <2>1, <2>4, <3>2, <4>1, <4>2 DEF Greets, Greeting
      <4>. QED
        BY <2>4, <4>2, <4>3 DEF Answered
    <3>4. CASE ~(k <= Len(Stream))
      <4>. DEFINE j == k - Len(Stream)
      <4>1. j \in 1..Len(out') /\ k = Len(Stream) + j
        BY <3>1, <3>2, <3>4
      <4>. HIDE DEF j
      <4>2. Stream'[k] = out'[j]
        BY <2>2, <4>1 DEF Prints
      <4>. QED
        BY <2>1, <2>4, <3>1, <4>1, <4>2 DEF Greeting
    <3>. QED
      BY <3>3, <3>4
  <2>5. Greets'
    BY <1>1, <2>4 DEF Greets, Greeting
  <2>. QED
    BY <2>3, <2>5
<1>7. CASE ChipResets \/ PowerCycle
  <2>1. board' = "off" /\ out' = <<>> /\ toBoard' = <<>> /\ toHost' = toHost
    BY <1>7 DEF ChipResets, PowerCycle
  <2>2. Cuts
    BY <2>1, BoardCuts
  <2>3. Fresh' /\ Stale'
    BY <1>1, <2>1 DEF Fresh, Stale, Greeting
  <2>4. ASSUME NEW k \in DOMAIN Stream', NEW m \in DOMAIN Stream', host = "knock",
               k < m, Kind(Stream'[k]) = "one", Kind(Stream'[m]) # "one"
        PROVE  Answered'
    <3>1. Stream' \in Seq(HostTokens) /\ DOMAIN Stream' = 1..Len(Stream') /\ Len(Stream') \in Nat
      BY Joined DEF LinkTypes, HostTypes, BoardTypes, Stream
    <3>2. DOMAIN Stream = 1..Len(Stream) /\ Len(Stream) \in Nat
      BY StreamIs
    <3>3. k \in DOMAIN Stream /\ m \in DOMAIN Stream /\ 1 \in DOMAIN Stream'
      BY <2>2, <2>4, <3>1, <3>2 DEF Cuts
    <3>4. Stream'[k] = Stream[k] /\ Stream'[m] = Stream[m] /\ Stream'[1] = Stream[1]
      BY <2>2, <2>4, <3>1, <3>3 DEF Cuts
    <3>5. Answered
      BY <2>4, <3>3, <3>4 DEF Greets
    <3>. QED
      BY <2>4, <3>4, <3>5 DEF Answered
  <2>5. Greets'
    BY <1>1, <2>1, <2>4 DEF Greets
  <2>. QED
    BY <2>3, <2>5
<1>8. CASE Transmit
  <2>1. /\ UNCHANGED <<board, toBoard>> /\ out # <<>> /\ out' = Tail(out)
        /\ host \in {"closed", "done"} => toHost' = toHost
    BY <1>8 DEF Transmit
  <2>2. Greeting(out') => Greeting(out)
    BY <2>1, NoGreetingTail DEF LinkTypes, BoardTypes
  <2>3. Fresh'
    <3>0. Tail(<<Token("one")>>) = <<>>
      OBVIOUS
    <3>1. board = "greeted" => out' = <<>>
      BY <2>1, <3>0 DEF Fresh
    <3>. QED
      BY <1>1, <2>1, <2>2, <3>1 DEF Fresh
  <2>4. CASE host = "knock"
    <3>1. Stream' = Stream
      BY <1>8, <2>4, BoardTransmits
    <3>2. board # "hello"
      BY <2>1 DEF Fresh
    <3>. QED
      BY <1>1, <2>1, <2>3, <3>1, <3>2 DEF Stale, Greets, Answered, Greeting, Kind
  <2>. QED
    BY <1>1, <2>3, <2>4 DEF Stale, Greets
<1>. QED
  BY <1>2, <1>3, <1>4, <1>5, <1>6, <1>7, <1>8

------------------------------------------------------------------------------
(* A benchmark in the stream.                                               *)

\* A place that is read, or behind which something is lost or printed.
LEMMA FollowsRead ==
    ASSUME LinkAssumption, NEW s, NEW t, NEW k \in Nat, NEW p \in Nat,
           Len(s) \in Nat, Len(t) = Len(s) - 1,
           \A j \in 1..(Len(s) - 1) : t[j] = s[j + 1], k > 0,
           Follows(s, k + 1, p)
    PROVE  /\ Follows(t, k, p)
           /\ Reaches(s, k + 1, p) => Reaches(t, k, p)
<1>0. Length \in Nat
  BY BenchmarkIs
<1>1. ASSUME NEW q \in 0..(Length - p), k + q <= Len(t) PROVE t[k + q] = Benchmark[p + q]
  <2>1. k + q \in 1..(Len(s) - 1) /\ (k + 1) + q <= Len(s) /\ (k + 1) + q = (k + q) + 1
    BY <1>0, <1>1
  <2>2. s[(k + 1) + q] = Benchmark[p + q]
    BY <1>1, <2>1 DEF Follows
  <2>. QED
    BY <2>1, <2>2
<1>. QED
  BY <1>0, <1>1 DEF Follows, Reaches

\* The next place of the benchmark comes up when one is read.
LEMMA FollowsNext ==
    ASSUME LinkAssumption, NEW s, NEW t, NEW p \in Nat, p < Length,
           Len(s) \in Nat, Len(t) = Len(s) - 1,
           \A j \in 1..(Len(s) - 1) : t[j] = s[j + 1], Follows(s, 1, p)
    PROVE  /\ Follows(t, 1, p + 1)
           /\ Reaches(s, 1, p) => Reaches(t, 1, p + 1)
<1>0. Length \in Nat
  BY BenchmarkIs
<1>1. ASSUME NEW q \in 0..(Length - (p + 1)), 1 + q <= Len(t)
      PROVE  t[1 + q] = Benchmark[(p + 1) + q]
  <2>0. q \in Nat /\ q + 1 <= Length - p /\ 1 + q <= Len(s) - 1
    BY <1>0, <1>1
  <2>1. /\ 1 + q \in 1..(Len(s) - 1) /\ 1 + (q + 1) <= Len(s) /\ 1 + (q + 1) = (1 + q) + 1
        /\ q + 1 \in 0..(Length - p) /\ p + (q + 1) = (p + 1) + q
    BY <1>0, <2>0
  <2>2. s[1 + (q + 1)] = Benchmark[p + (q + 1)]
    BY <2>1 DEF Follows
  <2>. QED
    BY <2>1, <2>2
<1>. QED
  BY <1>0, <1>1 DEF Follows, Reaches

\* The tokens that are left are still those of the benchmark,
LEMMA FollowsCut ==
    ASSUME LinkAssumption, NEW s, NEW t, NEW k \in Nat, NEW p \in Nat, k > 0,
           Len(s) \in Nat, Len(t) \in Nat, Len(t) <= Len(s),
           \A j \in 1..Len(t) : t[j] = s[j], Follows(s, k, p)
    PROVE  Follows(t, k, p)
<1>0. Length \in Nat
  BY BenchmarkIs
<1>1. ASSUME NEW q \in 0..(Length - p), k + q <= Len(t) PROVE t[k + q] = Benchmark[p + q]
  <2>1. k + q \in 1..Len(t) /\ k + q <= Len(s)
    BY <1>0, <1>1
  <2>2. s[k + q] = Benchmark[p + q]
    BY <1>1, <2>1 DEF Follows
  <2>. QED
    BY <2>1, <2>2
<1>. QED
  BY <1>1 DEF Follows

\* and a whole benchmark does not mind what is printed behind it.
LEMMA FollowsPrinted ==
    ASSUME LinkAssumption, NEW s, NEW t, NEW k \in Nat, NEW p \in Nat, k > 0,
           Len(s) \in Nat, Len(t) \in Nat, Len(s) <= Len(t),
           \A j \in 1..Len(s) : t[j] = s[j], Follows(s, k, p), Reaches(s, k, p)
    PROVE  Follows(t, k, p) /\ Reaches(t, k, p)
<1>0. Length \in Nat
  BY BenchmarkIs
<1>1. ASSUME NEW q \in 0..(Length - p) PROVE t[k + q] = Benchmark[p + q]
  <2>1. k + q \in 1..Len(s) /\ k + q <= Len(s)
    BY <1>0, <1>1 DEF Reaches
  <2>2. s[k + q] = Benchmark[p + q]
    BY <1>1, <2>1 DEF Follows
  <2>. QED
    BY <2>1, <2>2
<1>2. Follows(t, k, p)
  BY <1>1 DEF Follows
<1>3. Reaches(t, k, p)
  BY <1>0 DEF Reaches
<1>. QED
  BY <1>2, <1>3

\* Behind something else a benchmark stands as it does alone.
LEMMA FollowsBehind ==
    ASSUME LinkAssumption, NEW s, NEW t, NEW n \in Nat, NEW k \in Nat, NEW p \in Nat, k > 0,
           Len(s) \in Nat, Len(t) = n + Len(s),
           \A j \in 1..Len(s) : t[n + j] = s[j], Follows(s, k, p), Reaches(s, k, p)
    PROVE  Follows(t, n + k, p) /\ Reaches(t, n + k, p)
<1>0. Length \in Nat
  BY BenchmarkIs
<1>1. ASSUME NEW q \in 0..(Length - p) PROVE t[(n + k) + q] = Benchmark[p + q]
  <2>1. k + q \in 1..Len(s) /\ k + q <= Len(s) /\ (n + k) + q = n + (k + q)
    BY <1>0, <1>1 DEF Reaches
  <2>2. s[k + q] = Benchmark[p + q]
    BY <1>1, <2>1 DEF Follows
  <2>. QED
    BY <2>1, <2>2
<1>2. Follows(t, n + k, p)
  BY <1>1 DEF Follows
<1>3. Reaches(t, n + k, p)
  BY <1>0 DEF Reaches
<1>. QED
  BY <1>2, <1>3

\* Each answer of the firmware has no benchmark in it, or is one.
LEMMA AnswersWhole ==
    ASSUME LinkAssumption, LinkTypes', out' = Benchmark \o Prompt
    PROVE  OutWhole'
<1>1. /\ out' \in Seq(HostTokens) /\ Len(out') = Length + 2 /\ DOMAIN out' = 1..(Length + 2)
      /\ \A k \in 1..Length : out'[k] = Benchmark[k]
      /\ out'[Length + 1] = Token("prompt") /\ out'[Length + 2] = Token("nul")
  <2>1. /\ Prompt \in Seq(HostTokens) /\ Len(Prompt) = 2
        /\ Prompt[1] = Token("prompt") /\ Prompt[2] = Token("nul")
    BY AnswersAreTokens DEF Prompt
  <2>2. /\ Benchmark \o Prompt \in Seq(HostTokens)
        /\ Len(Benchmark \o Prompt) = Len(Benchmark) + Len(Prompt)
        /\ DOMAIN (Benchmark \o Prompt) = 1..(Len(Benchmark) + Len(Prompt))
        /\ \A k \in 1..Len(Benchmark) : (Benchmark \o Prompt)[k] = Benchmark[k]
        /\ \A k \in 1..Len(Prompt) : (Benchmark \o Prompt)[Len(Benchmark) + k] = Prompt[k]
    BY <2>1, BenchmarkIs, Joined
  <2>3. Len(Benchmark) = Length /\ Length \in Nat
    BY BenchmarkIs
  <2>. QED
    BY <2>1, <2>2, <2>3
<1>2. Length \in Nat /\ Length >= 2 /\ Total \in Nat /\ Length = 2 * Total + 2
  BY BenchmarkIs
<1>3. ASSUME NEW k \in 2..(Length + 2) PROVE Kind(out'[k]) # "dollar"
  <2>1. CASE k <= Length
    <3>1. out'[k] = Benchmark[k] /\ Benchmark[Length] = Token("end")
      BY <1>1, <1>2, <2>1, BenchmarkIs
    <3>2. CASE k = Length
      BY <3>1, <3>2 DEF Token, Kind
    <3>3. CASE k # Length
      <4>1. PICK v \in 0..(Total - 1) : k = 2 * v + 2 \/ k = 2 * v + 3
        <5>1. (k - 2) \div 2 \in 0..(Total - 1)
              /\ (k = 2 * ((k - 2) \div 2) + 2 \/ k = 2 * ((k - 2) \div 2) + 3)
          BY <1>2, <2>1, <3>3
        <5>. QED
          BY <5>1
      <4>2. Benchmark[k] \in {<<"mark", v>>, <<"tail", v>>}
        BY <4>1, BenchmarkIs
      <4>. QED
        BY <3>1, <4>2 DEF Kind
    <3>. QED
      BY <3>2, <3>3
  <2>2. CASE k = Length + 1
    BY <1>1, <2>2 DEF Token, Kind
  <2>3. CASE k = Length + 2
    BY <1>1, <2>3 DEF Token, Kind
  <2>4. k <= Length \/ k = Length + 1 \/ k = Length + 2
    BY <1>2
  <2>. QED
    BY <2>1, <2>2, <2>3, <2>4
<1>4. Follows(out', 1, 1) /\ Reaches(out', 1, 1)
  <2>1. \A q \in 0..(Length - 1) : 1 + q \in 1..Length
    BY <1>2
  <2>. QED
    BY <1>1, <1>2, <2>1 DEF Follows, Reaches
<1>5. ASSUME NEW k \in DOMAIN out', Starting(out', k) PROVE k = 1
  <2>1. k \in 1..(Length + 2) /\ k \notin 2..(Length + 2)
    BY <1>1, <1>3, <1>5 DEF Starting
  <2>. QED
    BY <1>2, <2>1
<1>. QED
  BY <1>4, <1>5 DEF OutWhole

\* Whatever the firmware prints, a benchmark in it is whole.
LEMMA OutStaysWhole ==
    ASSUME LinkAssumption, LinkTypes, LinkTypes', OutWhole, Next, ~TakeForHandshake
    PROVE  OutWhole'
<1>1. CASE out' = out
  BY <1>1 DEF OutWhole
<1>2. CASE out' \in {<<>>, Prompt, Reject, <<Token("text")>> \o Prompt, <<Token("one")>>,
                     <<Token("nul")>>}
  <2>1. ~Starts(out')
    BY <1>2, ReadyAnswers DEF Reject
  <2>. QED
    BY <2>1 DEF OutWhole, Starts, Starting
<1>3. CASE out' = Benchmark \o Prompt
  BY <1>3, AnswersWhole
<1>4. CASE Transmit
  <2>1. out # <<>> /\ out' = Tail(out) /\ out \in Seq(HostTokens)
    BY <1>4 DEF Transmit, LinkTypes, BoardTypes
  <2>2. /\ Len(out) \in Nat /\ Len(out') = Len(out) - 1 /\ DOMAIN out = 1..Len(out)
        /\ DOMAIN out' = 1..(Len(out) - 1)
        /\ \A j \in 1..(Len(out) - 1) : out'[j] = out[j + 1]
    BY <2>1
  <2>3. ASSUME NEW k \in DOMAIN out', Starting(out', k)
        PROVE  Follows(out', k, 1) /\ Reaches(out', k, 1)
    <3>1. k + 1 \in DOMAIN out /\ Starting(out, k + 1) /\ k \in Nat /\ k > 0
      BY <2>2, <2>3 DEF Starting
    <3>2. Follows(out, k + 1, 1) /\ Reaches(out, k + 1, 1)
      BY <3>1 DEF OutWhole
    <3>. QED
      BY <2>2, <3>1, <3>2, FollowsRead
  <2>. QED
    BY <2>3 DEF OutWhole
<1>5. ASSUME Board, ~Transmit
      PROVE  \/ out' = out \/ out' = Benchmark \o Prompt
             \/ out' \in {<<>>, Prompt, Reject, <<Token("text")>> \o Prompt, <<Token("one")>>,
                     <<Token("nul")>>}
  BY <1>5 DEF Board, Boot, Greet, Ignore, Gather, MissCommand, AskImage, TakeImage,
     TakeFalseHeader, TakeGarbage, Info, RunApplication, ResetCommand, ChipResets, boardVars
<1>. QED
  BY <1>1, <1>2, <1>3, <1>4, <1>5, HostFootprint DEF Next, KillTool, PowerCycle, boardVars

\* What a step does to the stream of a host that has the port open.
LEMMA BoardMoves ==
    ASSUME LinkAssumption, LinkTypes, LinkTypes', Fresh, host \notin {"closed", "done"},
           (Board /\ ~TakeForHandshake) \/ PowerCycle
    PROVE  \/ Stream' = Stream /\ (Stopped => Stopped')
           \/ Cuts /\ Stopped'
           \/ Prints /\ ~Stopped
<1>1. CASE Boot
  BY <1>1 DEF Boot, Stream, Stopped, Greeting
<1>2. CASE Greet
  <2>1. out = <<>> /\ toHost' = toHost /\ (board = "greeted" \/ Hears("one"))
    BY <1>2 DEF Greet, Hears, Takes
  <2>2. ASSUME Hears("one") PROVE Greeting(toBoard)
    <3>1. 1 \in DOMAIN toBoard /\ Kind(toBoard[1]) = "one"
      BY <2>2, Heard DEF LinkTypes, BoardTypes
    <3>. QED
      BY <3>1 DEF Greeting
  <2>3. ~Stopped
    BY <2>1, <2>2 DEF Stopped
  <2>. QED
    BY <2>1, <2>3, BoardPrints
<1>3. CASE Ignore
  <2>1. UNCHANGED <<board, out, toHost>>
    BY <1>3 DEF Ignore, Hears, Takes, boardVars
  <2>2. PICK t : Hears(t)
    BY <1>3 DEF Ignore
  <2>3. Greeting(toBoard') => Greeting(toBoard)
    <3>1. SUFFICES ASSUME NEW k \in DOMAIN toBoard', Kind(toBoard'[k]) = "one"
                   PROVE  Greeting(toBoard)
      BY DEF Greeting
    <3>2. k + 1 \in DOMAIN toBoard /\ Kind(toBoard[k + 1]) = "one"
      BY <2>2, <3>1, HeardRest
    <3>. QED
      BY <3>2 DEF Greeting
  <2>. QED
    BY <2>1, <2>3 DEF Stream, Stopped
<1>4. CASE Board /\ ~TakeForHandshake /\ ~Boot /\ ~Greet /\ ~Ignore /\ ~ChipResets
           /\ ~Transmit
  BY <1>4, PastHandshake, BoardPrints DEF Stopped
<1>5. CASE ChipResets \/ PowerCycle
  <2>1. board' = "off" /\ out' = <<>> /\ toBoard' = <<>> /\ toHost' = toHost
    BY <1>5 DEF ChipResets, PowerCycle
  <2>. QED
    BY <2>1, BoardCuts DEF Stopped, Greeting
<1>6. CASE Transmit
  BY <1>6, BoardTransmits DEF Stopped
<1>. QED
  BY <1>1, <1>2, <1>3, <1>4, <1>5, <1>6

\* A stream of whole benchmarks is one when its first token is read,
LEMMA ReadStaysWhole ==
    ASSUME LinkAssumption, LinkTypes, LinkTypes', Whole, Reads, Stopped => Stopped'
    PROVE  Whole'
<1>1. /\ DOMAIN Stream = 1..Len(Stream) /\ Len(Stream) \in Nat
      /\ DOMAIN Stream' = 1..Len(Stream')
  BY StreamIs, Joined DEF LinkTypes, HostTypes, BoardTypes, Stream
<1>2. /\ Len(Stream') = Len(Stream) - 1 /\ Len(Stream) > 0
      /\ \A k \in 1..(Len(Stream) - 1) : Stream'[k] = Stream[k + 1]
  BY DEF Reads
<1>3. ASSUME NEW k \in DOMAIN Stream', Starting(Stream', k)
      PROVE  Follows(Stream', k, 1) /\ (Reaches(Stream', k, 1) \/ Stopped')
  <2>1. k \in 1..(Len(Stream) - 1) /\ k \in Nat /\ k > 0
    BY <1>1, <1>2, <1>3
  <2>2. k + 1 \in DOMAIN Stream /\ Starting(Stream, k + 1)
    BY <1>1, <1>2, <1>3, <2>1 DEF Starting
  <2>3. Follows(Stream, k + 1, 1) /\ (Reaches(Stream, k + 1, 1) \/ Stopped)
    BY <2>2 DEF Whole
  <2>. QED
    BY <1>1, <1>2, <2>1, <2>3, FollowsRead
<1>. QED
  BY <1>3 DEF Whole

\* when the rest is lost,
LEMMA CutStaysWhole ==
    ASSUME LinkAssumption, LinkTypes, LinkTypes', Whole, Cuts, Stopped'
    PROVE  Whole'
<1>1. /\ DOMAIN Stream = 1..Len(Stream) /\ Len(Stream) \in Nat
      /\ DOMAIN Stream' = 1..Len(Stream') /\ Len(Stream') \in Nat
  BY StreamIs, Joined DEF LinkTypes, HostTypes, BoardTypes, Stream
<1>3. ASSUME NEW k \in DOMAIN Stream', Starting(Stream', k)
      PROVE  Follows(Stream', k, 1)
  <2>1. k \in Nat /\ k > 0 /\ k \in DOMAIN Stream /\ Stream'[k] = Stream[k]
    BY <1>1, <1>3 DEF Cuts
  <2>2. Follows(Stream, k, 1)
    BY <1>3, <2>1 DEF Whole, Starting
  <2>. QED
    BY <1>1, <2>1, <2>2, FollowsCut DEF Cuts
<1>. QED
  BY <1>3 DEF Whole

\* A stream that is nothing but what the board prints.
LEMMA AloneIsWhole ==
    ASSUME OutWhole', Stream' = out'
    PROVE  Whole'
BY DEF OutWhole, Whole

\* and when another answer is printed.
LEMMA PrintStaysWhole ==
    ASSUME LinkAssumption, LinkTypes, LinkTypes', Whole, OutWhole', Prints, ~Stopped
    PROVE  Whole'
<1>1. /\ DOMAIN Stream = 1..Len(Stream) /\ Len(Stream) \in Nat
      /\ DOMAIN Stream' = 1..Len(Stream') /\ Len(Stream') \in Nat
      /\ DOMAIN out' = 1..Len(out') /\ Len(out') \in Nat
  BY StreamIs, Joined DEF LinkTypes, HostTypes, BoardTypes, Stream
<1>2. /\ Len(Stream') = Len(Stream) + Len(out')
      /\ \A j \in 1..Len(Stream) : Stream'[j] = Stream[j]
      /\ \A j \in 1..Len(out') : Stream'[Len(Stream) + j] = out'[j]
  BY DEF Prints
<1>3. ASSUME NEW k \in DOMAIN Stream', Starting(Stream', k)
      PROVE  Follows(Stream', k, 1) /\ Reaches(Stream', k, 1)
  <2>1. CASE k <= Len(Stream)
    <3>1. k \in Nat /\ k > 0 /\ k \in DOMAIN Stream /\ Stream'[k] = Stream[k]
      BY <1>1, <1>2, <1>3, <2>1
    <3>2. Follows(Stream, k, 1) /\ Reaches(Stream, k, 1)
      BY <1>3, <3>1 DEF Whole, Starting
    <3>3. Len(Stream) <= Len(Stream')
      BY <1>1, <1>2
    <3>. QED
      BY <1>1, <1>2, <3>1, <3>2, <3>3, FollowsPrinted
  <2>2. CASE ~(k <= Len(Stream))
    <3>. DEFINE j == k - Len(Stream)
    <3>1. j \in 1..Len(out') /\ k = Len(Stream) + j /\ j \in Nat /\ j > 0
      BY <1>1, <1>2, <1>3, <2>2
    <3>. HIDE DEF j
    <3>2. Follows(out', j, 1) /\ Reaches(out', j, 1)
      BY <1>1, <1>2, <1>3, <3>1 DEF OutWhole, Starting
    <3>. QED
      BY <1>1, <1>2, <3>1, <3>2, FollowsBehind
  <2>. QED
    BY <2>1, <2>2
<1>. QED
  BY <1>3 DEF Whole

\* What the host sends after the handshake is no knock.
LEMMA SentNoKnock ==
    ASSUME LinkTypes, NEW token \in BoardTokens, Kind(token) # "one", SendToken(token)
    PROVE  Greeting(toBoard') => Greeting(toBoard)
<1>1. SUFFICES ASSUME NEW k \in DOMAIN toBoard', Kind(toBoard'[k]) = "one"
               PROVE  Greeting(toBoard)
  BY DEF Greeting
<1>2. Kind(Token("scrap")) # "one"
  BY DEF Token, Kind
<1>3. k \in DOMAIN toBoard /\ toBoard'[k] = toBoard[k]
  BY <1>1, <1>2, SentRest
<1>. QED
  BY <1>1, <1>3 DEF Greeting

\* The board leaves whole benchmarks to the host.
LEMMA StreamBoard ==
    ASSUME LinkAssumption, LinkTypes, LinkTypes', HandshakeInv, StreamInv, OutWhole',
           (Board /\ ~TakeForHandshake) \/ PowerCycle
    PROVE  StreamInv'
<1>1. host' = host
  BY BoardFootprint DEF PowerCycle, hostVars
<1>2. SUFFICES ASSUME Open \/ (host = "knock" /\ Answered') PROVE Whole'
  BY <1>1 DEF StreamInv, Open
<1>3. \/ Stream' = Stream /\ (Stopped => Stopped')
      \/ Cuts /\ Stopped'
      \/ Prints /\ ~Stopped
  BY <1>2, BoardMoves DEF HandshakeInv, Open
<1>4. /\ DOMAIN Stream = 1..Len(Stream) /\ Len(Stream) \in Nat /\ Stream \in Seq(HostTokens)
      /\ DOMAIN Stream' = 1..Len(Stream') /\ Len(Stream') \in Nat /\ Stream' \in Seq(HostTokens)
  BY StreamIs, Joined DEF LinkTypes, HostTypes, BoardTypes, Stream
<1>5. CASE Stream' = Stream /\ (Stopped => Stopped')
  <2>1. Whole
    BY <1>2, <1>5 DEF StreamInv, Answered
  <2>. QED
    BY <1>5, <2>1 DEF Whole
<1>6. CASE Cuts /\ Stopped'
  <2>1. Answered' => Answered
    <3>1. ASSUME Answered' PROVE Answered
      <4>1. 1 \in 1..Len(Stream')
        BY <1>4, <3>1 DEF Answered
      <4>2. Stream'[1] = Stream[1] /\ Len(Stream) > 0
        BY <1>4, <1>6, <4>1 DEF Cuts
      <4>. QED
        BY <1>4, <3>1, <4>2 DEF Answered
    <3>. QED
      BY <3>1
  <2>2. Whole
    BY <1>2, <2>1 DEF StreamInv
  <2>. QED
    BY <1>6, <2>2, CutStaysWhole
<1>7. CASE Prints /\ ~Stopped
  <2>1. CASE Stream = <<>>
    <3>1. Stream' = out'
      BY <1>7, <2>1 DEF Prints
    <3>. QED
      BY <3>1, AloneIsWhole
  <2>2. CASE Stream # <<>>
    <3>1. Stream'[1] = Stream[1]
      BY <1>4, <1>7, <2>2 DEF Prints
    <3>2. Whole
      BY <1>2, <2>2, <3>1 DEF StreamInv, Answered
    <3>. QED
      BY <1>7, <3>2, PrintStaysWhole
  <2>. QED
    BY <2>1, <2>2
<1>. QED
  BY <1>3, <1>5, <1>6, <1>7

\* A command, or a part of an image, is no knock.
LEMMA SentByHost ==
    ASSUME LinkAssumption, LinkTypes, SendCommand \/ SendImage
    PROVE  \E token \in BoardTokens : SendToken(token) /\ Kind(token) \notin {"one", "zero", "scrap"}
<1>1. CASE SendCommand
  <2>1. SendToken(Token(Script[step + 1][1])) /\ host = "send"
    BY <1>1 DEF SendCommand, Send
  <2>2. step + 1 \in 1..Len(Script)
    BY <2>1, ScriptLength DEF LinkTypes, HostTypes, Places
  <2>3. Script[step + 1][1] \in Commands
    BY <2>2, ScriptCommands
  <2>. QED
    BY <2>1, <2>3 DEF Token, Kind, BoardTokens, Commands
<1>2. CASE SendImage
  <2>1. SendToken(<<host, Script[step][2]>>) /\ host \in {"hdr", "body"}
    BY <1>2 DEF SendImage
  <2>2. step \in 1..Len(Script) /\ step <= Visited + 1
    BY <2>1, ScriptLength DEF LinkTypes, Places
  <2>3. Script[step][2] \in Images
    BY <2>2, ScriptCommands
  <2>. QED
    BY <2>1, <2>3 DEF Kind, BoardTokens
<1>. QED
  BY <1>1, <1>2

\* What the host sends and reads once it has the answer of the firmware.
LEMMA OpenMoves ==
    ASSUME LinkAssumption, LinkTypes, LinkTypes', Host, ~OpenPort, ~KnockAgain, ~ClosePort
    PROVE  /\ Stopped => Stopped'
           /\ \/ UNCHANGED toHost /\ Stream' = Stream /\ host # "knock"
              \/ /\ toHost # <<>> /\ Receive /\ Reads /\ Stream[1] = Head(toHost)
                 /\ host = "knock" => Answered
<1>1. UNCHANGED <<board, out>>
  BY HostFootprint
<1>2. CASE UNCHANGED <<toBoard, toHost>> /\ host # "knock"
  BY <1>1, <1>2 DEF Stream, Stopped
<1>3. CASE toBoard' = toBoard /\ toHost # <<>> /\ Receive /\ host # "knock"
  BY <1>1, <1>3, HostReads DEF Stopped
<1>4. CASE HandshakeDone
  <2>1. /\ toHost # <<>> /\ Kind(Head(toHost)) = "one" /\ Receive
        /\ SendToken(Token("zero")) /\ Token("zero") \in BoardTokens
        /\ Kind(Token("zero")) # "one"
    BY <1>4 DEF HandshakeDone, Send, Token, Kind, BoardTokens
  <2>2. Reads /\ Stream[1] = Head(toHost)
    BY <1>1, <2>1, HostReads
  <2>3. Answered
    BY <2>1, <2>2 DEF Answered, Reads
  <2>4. Stopped => Stopped'
    BY <1>1, <2>1, SentNoKnock DEF Stopped
  <2>. QED
    BY <2>1, <2>2, <2>3, <2>4
<1>5. CASE SendCommand \/ SendImage
  <2>1. PICK token \in BoardTokens : SendToken(token) /\ Kind(token) # "one"
    BY <1>5, SentByHost
  <2>2. Stopped => Stopped'
    BY <1>1, <2>1, SentNoKnock DEF Stopped
  <2>3. toHost' = toHost /\ host # "knock"
    BY <1>5 DEF SendCommand, SendImage
  <2>. QED
    BY <1>1, <2>2, <2>3 DEF Stream
<1>6. CASE LogByte \/ LogEnds \/ ReadLine
  BY <1>3, <1>6 DEF LogByte, LogEnds, ReadLine
<1>7. CASE LogTimesOut \/ SkipCore \/ SkipImage \/ LineTimesOut
  BY <1>2, <1>7 DEF LogTimesOut, SkipCore, SkipImage, LineTimesOut
<1>. QED
  BY <1>4, <1>5, <1>6, <1>7 DEF Host

\* The host, from its knock on, finds whole benchmarks.
LEMMA StreamHost ==
    ASSUME LinkAssumption, LinkTypes, LinkTypes', HandshakeInv, StreamInv, OutWhole', Host
    PROVE  StreamInv'
<1>1. UNCHANGED <<board, out>>
  BY HostFootprint
<1>2. CASE OpenPort
  <2>1. toHost' = <<>>
    BY <1>2 DEF OpenPort, HandshakeInv, Fresh
  <2>2. Stream' = out'
    BY <2>1, Joined DEF Stream, LinkTypes, HostTypes, BoardTypes
  <2>. QED
    BY <2>2, AloneIsWhole DEF StreamInv
<1>3. CASE KnockAgain
  <2>1. host = "knock" /\ host' = "knock"
    BY <1>3 DEF KnockAgain, hostVars
  <2>2. CASE toHost = <<>> /\ UNCHANGED toHost
    <3>1. Stream' = out'
      BY <2>2, Joined DEF Stream, LinkTypes, HostTypes, BoardTypes
    <3>. QED
      BY <3>1, AloneIsWhole DEF StreamInv
  <2>3. CASE toHost # <<>> /\ Kind(Head(toHost)) # "one" /\ Receive
    <3>1. Reads /\ Stream[1] = Head(toHost) /\ ~Answered
      BY <1>1, <2>3, HostReads DEF Answered
    <3>2. ~ \E k, m \in DOMAIN Stream' :
              k < m /\ Kind(Stream'[k]) = "one" /\ Kind(Stream'[m]) # "one"
      BY <2>1, <3>1, ReadNoMore DEF HandshakeInv, Greets
    <3>3. ASSUME Answered' PROVE Whole'
      <4>1. DOMAIN Stream' = 1..Len(Stream') /\ Len(Stream') \in Nat
        BY Joined DEF LinkTypes, HostTypes, BoardTypes, Stream
      <4>2. ASSUME NEW k \in DOMAIN Stream' PROVE Kind(Stream'[k]) = "one"
        BY <3>2, <3>3, <4>1 DEF Answered
      <4>. QED
        BY <4>2 DEF Whole, Starting
    <3>. QED
      BY <2>1, <3>3 DEF StreamInv, Open
  <2>. QED
    BY <1>3, <2>2, <2>3 DEF KnockAgain
<1>4. CASE ClosePort
  <2>1. host' \in {"closed", "done"}
    BY <1>4 DEF ClosePort
  <2>. QED
    BY <2>1 DEF StreamInv, Open
<1>5. CASE ~OpenPort /\ ~KnockAgain /\ ~ClosePort
  <2>1. host # "closed" /\ host # "done"
    BY <1>5 DEF Host, HandshakeDone, LogByte, LogEnds, LogTimesOut, SkipCore, SendCommand,
       SendImage, SkipImage, ReadLine, LineTimesOut
  <2>2. CASE UNCHANGED toHost /\ Stream' = Stream /\ host # "knock"
    <3>1. Whole
      BY <2>1, <2>2 DEF StreamInv, Open, LinkTypes, HostTypes
    <3>2. Whole'
      BY <1>5, <2>2, <3>1, OpenMoves DEF Whole
    <3>. QED
      BY <3>2 DEF StreamInv
  <2>3. CASE Reads /\ (host = "knock" => Answered)
    <3>1. Whole
      BY <2>1, <2>3 DEF StreamInv, Open, LinkTypes, HostTypes
    <3>2. Whole'
      BY <1>5, <2>3, <3>1, OpenMoves, ReadStaysWhole
    <3>. QED
      BY <3>2 DEF StreamInv
  <2>. QED
    BY <1>5, <2>2, <2>3, OpenMoves
<1>. QED
  BY <1>2, <1>3, <1>4, <1>5

------------------------------------------------------------------------------
(* The samples.                                                             *)

\* A line of two tokens.
LEMMA Pair ==
    ASSUME NEW S, NEW x \in S, NEW y \in S
    PROVE  Append(<<x>>, y) = <<x, y>>
<1>. DEFINE s == Append(<<x>>, y)
            t == <<x, y>>
<1>1. s \in Seq(S) /\ Len(s) = 2 /\ s[1] = x /\ s[2] = y
  OBVIOUS
<1>2. t \in Seq(S) /\ Len(t) = 2 /\ t[1] = x /\ t[2] = y
  OBVIOUS
<1>. HIDE DEF s, t
<1>3. \A k \in 1..Len(s) : s[k] = t[k]
  BY <1>1, <1>2
<1>4. s = t
  BY <1>1, <1>2, <1>3, SeqEqual
<1>. QED
  BY <1>4 DEF s, t

\* The slot of a value, and the value of a slot.
LEMMA Slots ==
    ASSUME LinkAssumption
    PROVE  /\ \A v \in 0..(Total - 1) :
                 /\ v % Outputs \in 0..(Outputs - 1) /\ v \div Outputs \in 0..(Size - 1)
                 /\ (v \div Outputs) * Outputs + (v % Outputs) = v
           /\ \A r \in 0..(Outputs - 1), i \in 0..(Size - 1) :
                 /\ i * Outputs + r \in 0..(Total - 1)
                 /\ (i * Outputs + r) % Outputs = r /\ (i * Outputs + r) \div Outputs = i
<1>. DEFINE d == Outputs
            n == Size
<1>1. d \in Nat /\ d # 0 /\ n \in Nat /\ Total = d * n /\ Outputs = d /\ Size = n
  BY DEF LinkAssumption, Total
<1>. HIDE DEF d, n
<1>2. ASSUME NEW v \in Nat
      PROVE  v % d \in 0..(d - 1) /\ v \div d \in Nat /\ v = d * (v \div d) + (v % d)
  BY <1>1
<1>3. ASSUME NEW q \in Nat, NEW m \in Nat, q < m PROVE d * q + d <= d * m
  <2>1. m >= q + 1 /\ d * m >= d * (q + 1) /\ d * (q + 1) = d * q + d
    BY <1>1, <1>3
  <2>. QED
    BY <2>1, <1>1
<1>4. \A q \in Nat : d * q \in Nat /\ d * q = q * d
  BY <1>1
<1>5. ASSUME NEW v \in 0..(Total - 1)
      PROVE  v % d \in 0..(d - 1) /\ v \div d \in 0..(n - 1) /\ (v \div d) * d + (v % d) = v
  <2>. DEFINE q == v \div d
              r == v % d
  <2>0. v \in Nat /\ v < d * n
    BY <1>1, <1>4, <1>5
  <2>1. r \in 0..(d - 1) /\ q \in Nat /\ v = d * q + r
    BY <1>2, <2>0
  <2>. HIDE DEF q, r
  <2>2. n <= q => d * n <= d * q
    BY <1>1, <2>1
  <2>3. q < n
    BY <1>1, <1>4, <2>0, <2>1, <2>2
  <2>4. q * d + r = v /\ q \in 0..(n - 1)
    BY <1>1, <1>4, <2>1, <2>3
  <2>. QED
    BY <2>1, <2>4 DEF q, r
<1>6. ASSUME NEW r \in 0..(d - 1), NEW i \in 0..(n - 1)
      PROVE  /\ i * d + r \in 0..(Total - 1)
             /\ (i * d + r) % d = r /\ (i * d + r) \div d = i
  <2>. DEFINE v == i * d + r
              q == v \div d
              s == v % d
  <2>0. i \in Nat /\ r \in Nat /\ i < n /\ r < d /\ n \in Nat
    BY <1>1
  <2>1. d * i + d <= d * n /\ d * i \in Nat /\ v = d * i + r
    BY <1>3, <1>4, <2>0
  <2>2. v \in 0..(Total - 1) /\ v \in Nat
    BY <1>1, <1>4, <2>0, <2>1
  <2>3. s \in 0..(d - 1) /\ q \in Nat /\ v = d * q + s
    BY <1>2, <2>2
  <2>. HIDE DEF q, s, v
  <2>4. q < i => d * q + d <= d * i
    BY <1>3, <2>0, <2>3
  <2>5. i < q => d * i + d <= d * q
    BY <1>3, <2>0, <2>3
  <2>6. q = i
    BY <1>1, <1>4, <2>0, <2>1, <2>3, <2>4, <2>5
  <2>7. s = r
    BY <1>1, <1>4, <2>0, <2>1, <2>3, <2>6
  <2>. QED
    BY <2>2, <2>6, <2>7 DEF v, q, s
<1>. QED
  BY <1>1, <1>5, <1>6

\* The marks of the lines a benchmark gives.
LEMMA MarksOfLine ==
    ASSUME NEW t
    PROVE  /\ Marks(<<>>) = {} /\ Marks(<<Token("end")>>) = {}
           /\ Marks(<< <<"tail", t>> >>) = {}
           /\ Marks(<< <<"mark", t>> >>) = {<<"mark", t>>}
           /\ Marks(<< <<"mark", t>>, <<"tail", t>> >>) = {<<"mark", t>>}
<1>1. Marks(<<>>) = {} /\ Marks(<<Token("end")>>) = {}
  BY DEF Marks, Token, Kind
<1>2. Marks(<< <<"tail", t>> >>) = {}
  BY DEF Marks, Kind
<1>3. Marks(<< <<"mark", t>> >>) = {<<"mark", t>>}
  BY 1 \in DOMAIN << <<"mark", t>> >> DEF Marks, Kind
<1>4. Marks(<< <<"mark", t>>, <<"tail", t>> >>) = {<<"mark", t>>}
  <2>. DEFINE ln == << <<"mark", t>>, <<"tail", t>> >>
  <2>1. DOMAIN ln = {1, 2} /\ ln[1] = <<"mark", t>> /\ ln[2] = <<"tail", t>>
    OBVIOUS
  <2>. HIDE DEF ln
  <2>2. {k \in DOMAIN ln : Kind(ln[k]) = "mark"} = {1}
    BY <2>1 DEF Kind
  <2>3. Marks(ln) = {ln[1]}
    BY <2>2 DEF Marks
  <2>. QED
    BY <2>1, <2>3 DEF ln
<1>. QED
  BY <1>1, <1>2, <1>3, <1>4

\* What is stored for a mark, alone or with its tail.
LEMMA SampleOfLine ==
    ASSUME NEW t
    PROVE  /\ Sample(<< <<"mark", t>> >>).value = t
           /\ Sample(<< <<"mark", t>>, <<"tail", t>> >>) =
                 [value |-> t, run |-> iter, whole |-> TRUE]
<1>. DEFINE full == << <<"mark", t>>, <<"tail", t>> >>
            m == <<"mark", t>>
<1>1. m[2] = t /\ (CHOOSE mark \in {m} : TRUE) = m
  OBVIOUS
<1>2. \E k \in DOMAIN full : full[k] = <<"tail", t>>
  BY 2 \in DOMAIN full
<1>3. Marks(full) = {m} /\ Marks(<< m >>) = {m}
  BY MarksOfLine
<1>. HIDE DEF m, full
<1>. QED
  BY <1>1, <1>2, <1>3 DEF Sample, full, m

\* Storing value t.
LEMMA StoreInPlace ==
    ASSUME LinkAssumption, LinkTypes, InPlace, iter' = iter, NEW t \in 0..(Total - 1),
           NEW e, e.value = t,
           samples' = [samples EXCEPT ![t % Outputs][t \div Outputs] = e]
    PROVE  /\ InPlace'
           /\ e = [value |-> t, run |-> iter, whole |-> TRUE] /\ Stored(t) =>
                 \A v \in 0..t : samples'[v % Outputs][v \div Outputs] =
                                    [value |-> v, run |-> iter, whole |-> TRUE]
<1>. DEFINE R == 0..(Outputs - 1)
            I == 0..(Size - 1)
            a == t % Outputs
            b == t \div Outputs
<1>0. samples \in [R -> [I -> [value : {-1} \cup Values, whole : BOOLEAN, run : Nat]]]
  BY DEF LinkTypes, HostTypes, Arrays
<1>1. a \in R /\ b \in I /\ b * Outputs + a = t
  BY Slots
<1>2. samples' = [samples EXCEPT ![a][b] = e]
  OBVIOUS
<1>. HIDE DEF a, b, R, I
<1>3. samples'[a][b] = e /\ \A r \in R, i \in I : r # a \/ i # b => samples'[r][i] = samples[r][i]
  BY <1>0, <1>1, <1>2
<1>4. InPlace'
  <2>1. ASSUME NEW r \in R, NEW i \in I
        PROVE  samples'[r][i].value \in {-1, i * Outputs + r}
    <3>1. CASE r = a /\ i = b
      BY <1>1, <1>3, <3>1
    <3>2. CASE ~(r = a /\ i = b)
      BY <1>3, <3>2 DEF InPlace, R, I
    <3>. QED
      BY <3>1, <3>2
  <2>. QED
    BY <2>1 DEF InPlace, R, I
<1>5. ASSUME e = [value |-> t, run |-> iter, whole |-> TRUE], Stored(t), NEW v \in 0..t
      PROVE  samples'[v % Outputs][v \div Outputs] = [value |-> v, run |-> iter, whole |-> TRUE]
  <2>1. CASE v = t
    BY <1>3, <1>5, <2>1 DEF a, b
  <2>2. CASE v # t
    <3>0. Total \in Nat /\ t \in Nat /\ t < Total
      BY BenchmarkIs
    <3>1. v \in 0..(t - 1) /\ v \in 0..(Total - 1)
      BY <1>5, <2>2, <3>0
    <3>2. v % Outputs \in R /\ v \div Outputs \in I
          /\ (v \div Outputs) * Outputs + (v % Outputs) = v
      BY <3>1, Slots DEF R, I
    <3>3. samples[v % Outputs][v \div Outputs] = [value |-> v, run |-> iter, whole |-> TRUE]
      BY <1>5, <3>1 DEF Stored
    <3>4. v % Outputs # a \/ v \div Outputs # b
      BY <1>1, <2>2, <3>2
    <3>. QED
      BY <1>3, <3>2, <3>3, <3>4
  <2>. QED
    BY <2>1, <2>2
<1>. QED
  BY <1>4, <1>5

\* The host reads one more token of a benchmark.
LEMMA CollectRead ==
    ASSUME LinkAssumption, LinkTypes, LinkTypes', InPlace, host = "collect", ReadLine,
           NEW p \in 2..Length, Collects(p)
    PROVE  /\ InPlace'
           /\ \/ host' = "collect" /\ p + 1 \in 2..Length /\ Collects(p + 1)'
              \/ host' = "log" /\ (~slow => Stored(Total)')
<1>0. /\ Total \in Nat /\ Length = 2 * Total + 2 /\ total \in Nat
      /\ p \in Nat /\ p >= 2 /\ p <= Length /\ p - 2 \in Nat /\ Length \in Nat
  <2>1. Total \in Nat /\ Length = 2 * Total + 2 /\ Length \in Nat /\ total \in Nat
    BY BenchmarkIs DEF LinkTypes, HostTypes
  <2>. QED
    BY <2>1
<1>1. /\ toHost # <<>> /\ Receive /\ UNCHANGED <<out, board, toBoard, slow, iter>>
  BY DEF ReadLine, boardVars, fixed, ProcessLine
<1>2. Reads /\ Stream[1] = Head(toHost) /\ Len(Stream) \in Nat /\ Stream # <<>>
  BY <1>1, HostReads, StreamIs DEF Reads
<1>. DEFINE tok == Head(toHost)
<1>3. tok = Benchmark[p]
  <2>1. 0 \in 0..(Length - p) /\ 1 + 0 <= Len(Stream) /\ 1 + 0 = 1 /\ p + 0 = p
    BY <1>0, <1>2 DEF Reads
  <2>2. Stream[1 + 0] = Benchmark[p + 0]
    BY <2>1 DEF Collects, Follows
  <2>. QED
    BY <1>2, <2>1, <2>2
<1>4. ASSUME p < Length
      PROVE  Follows(Stream', 1, p + 1) /\ (Reaches(Stream', 1, p + 1) \/ Stopped')
  <2>1. Stopped => Stopped'
    BY <1>1 DEF Stopped
  <2>2. /\ Len(Stream') = Len(Stream) - 1
        /\ \A j \in 1..(Len(Stream) - 1) : Stream'[j] = Stream[j + 1]
    BY <1>2 DEF Reads
  <2>. QED
    BY <1>0, <1>2, <1>4, <2>1, <2>2, FollowsNext DEF Collects
<1>. HIDE DEF tok
<1>5. IF EndsLine(tok) THEN ProcessLine(Append(line, tok))
      ELSE line' = Append(line, tok) /\ UNCHANGED <<host, total, samples>>
  BY DEF ReadLine, tok
<1>6. ~slow => Stored(total) /\ ~Lost(p)
  BY <1>2 DEF Collects
<1>7. ASSUME UNCHANGED <<total, samples>> PROVE InPlace' /\ (Stored(total) => Stored(total)')
  BY <1>1, <1>7 DEF InPlace, Stored
<1>8. CASE Between(p) /\ p = Length
  <2>1. line = <<>> /\ total = Total /\ tok = Token("end")
    BY <1>0, <1>3, <1>8, BenchmarkIs DEF Between
  <2>2. EndsLine(tok) /\ Append(line, tok) = <<Token("end")>>
    BY <2>1 DEF EndsLine, Token, Kind
  <2>3. ProcessLine(<<Token("end")>>) /\ Marks(<<Token("end")>>) = {}
    BY <1>5, <2>2, MarksOfLine
  <2>4. Kind(<<Token("end")>>[1]) = "end" /\ <<Token("end")>> # <<>>
    BY DEF Token, Kind
  <2>5. host' = "log" /\ UNCHANGED samples
    BY <2>3, <2>4 DEF ProcessLine, StoreLine
  <2>6. total' = total + Cardinality(Marks(<<Token("end")>>))
    BY <1>8, <2>3 DEF ProcessLine
  <2>7. total' = total
    <3>1. Cardinality({}) = 0 /\ Marks(<<Token("end")>>) = {}
      BY <2>3, FS_EmptySet
    <3>2. total' = total + Cardinality({})
      BY <2>6, <3>1
    <3>. QED
      BY <1>0, <3>1, <3>2
  <2>. QED
    BY <1>6, <1>7, <2>1, <2>5, <2>7
<1>9. CASE Between(p) /\ p # Length
  <2>1. line = <<>> /\ total \in 0..(Total - 1) /\ p = 2 * total + 2
    BY <1>0, <1>9 DEF Between
  <2>2. tok = <<"mark", total>>
    BY <1>3, <2>1, BenchmarkIs
  <2>3. ~EndsLine(tok)
    BY <2>2 DEF EndsLine, Kind
  <2>4. line' = <<tok>> /\ UNCHANGED <<host, total, samples>>
    BY <1>5, <2>1, <2>3
  <2>5. p + 1 \in 2..Length /\ p < Length /\ p + 1 = 2 * total + 3
    BY <1>0, <1>9, <2>1
  <2>6. Within(p + 1)' /\ ~Lost(p + 1)'
    BY <2>2, <2>4, <2>5 DEF Within, Lost
  <2>7. Collects(p + 1)'
    BY <1>1, <1>4, <1>6, <1>7, <2>4, <2>5, <2>6 DEF Collects
  <2>. QED
    BY <1>7, <2>4, <2>5, <2>7
<1>10. CASE Within(p)
  <2>1. line = << <<"mark", total>> >> /\ total \in 0..(Total - 1) /\ p = 2 * total + 3
    BY <1>0, <1>10 DEF Within
  <2>2. tok = <<"tail", total>>
    BY <1>3, <2>1, BenchmarkIs
  <2>. DEFINE ln == << <<"mark", total>>, <<"tail", total>> >>
  <2>3. EndsLine(tok) /\ Append(line, tok) = ln
    <3>1. EndsLine(tok)
      BY <2>2 DEF EndsLine, Kind
    <3>2. <<"mark", total>> \in HostTokens /\ <<"tail", total>> \in HostTokens
      BY <2>1 DEF HostTokens, Values, Total
    <3>. QED
      BY <2>1, <2>2, <3>1, <3>2, Pair
  <2>4. ProcessLine(ln)
    BY <1>5, <2>3
  <2>5. Marks(ln) = {<<"mark", total>>} /\ ln # <<>> /\ Kind(ln[1]) = "mark"
    BY MarksOfLine DEF Kind
  <2>6. Sample(ln) = [value |-> total, run |-> iter, whole |-> TRUE]
    BY SampleOfLine
  <2>. HIDE DEF ln
  <2>7. host' = "collect" /\ line' = <<>> /\ StoreLine(ln) /\ total' = total + Cardinality(Marks(ln))
    BY <2>4, <2>5 DEF ProcessLine
  <2>8. total' = total + 1
    BY <1>0, <2>5, <2>7, FS_Singleton
  <2>9. total \div Outputs < Size
    BY <2>1, Slots DEF LinkAssumption
  <2>10. samples' = [samples EXCEPT ![total % Outputs][total \div Outputs] = Sample(ln)]
    BY <2>5, <2>7, <2>9 DEF StoreLine, Slot
  <2>11. InPlace' /\ (Stored(total) => Stored(total)')
    <3>. DEFINE e == Sample(ln)
    <3>1. /\ total \in 0..(Total - 1) /\ e.value = total /\ iter' = iter
          /\ samples' = [samples EXCEPT ![total % Outputs][total \div Outputs] = e]
          /\ e = [value |-> total, run |-> iter, whole |-> TRUE]
      BY <1>1, <2>1, <2>6, <2>10
    <3>. HIDE DEF e
    <3>2. /\ InPlace'
          /\ Stored(total) =>
                \A v \in 0..total : samples'[v % Outputs][v \div Outputs] =
                                        [value |-> v, run |-> iter, whole |-> TRUE]
      BY <3>1, StoreInPlace
    <3>3. total' - 1 = total
      BY <1>0, <2>8
    <3>. QED
      BY <3>1, <3>2, <3>3 DEF Stored
  <2>12. p + 1 \in 2..Length /\ p < Length /\ p + 1 = 2 * total' + 2
    BY <1>0, <2>1, <2>8
  <2>13. Between(p + 1)' /\ ~Lost(p + 1)'
    BY <1>0, <2>7, <2>8, <2>12 DEF Between, Lost
  <2>14. Collects(p + 1)'
    BY <1>1, <1>4, <1>6, <2>11, <2>12, <2>13 DEF Collects
  <2>. QED
    BY <2>7, <2>11, <2>12, <2>14
<1>11. CASE Lost(p)
  <2>. DEFINE v == total - 1
  <2>1. line = <<>> /\ v \in 0..(Total - 1) /\ p = 2 * v + 3 /\ total = v + 1
    BY <1>0, <1>11 DEF Lost
  <2>. HIDE DEF v
  <2>2. tok = <<"tail", v>>
    BY <1>3, <2>1, BenchmarkIs
  <2>. DEFINE ln == << <<"tail", v>> >>
  <2>3. EndsLine(tok) /\ Append(line, tok) = ln
    BY <2>1, <2>2 DEF EndsLine, Kind
  <2>4. ProcessLine(ln)
    BY <1>5, <2>3
  <2>5. Marks(ln) = {} /\ ln # <<>> /\ Kind(ln[1]) = "tail"
    BY MarksOfLine DEF Kind
  <2>. HIDE DEF ln
  <2>6. host' = "collect" /\ line' = <<>> /\ UNCHANGED samples
        /\ total' = total + Cardinality(Marks(ln))
    BY <2>4, <2>5 DEF ProcessLine, StoreLine
  <2>7. total' = total
    BY <1>0, <2>5, <2>6, FS_EmptySet
  <2>8. p + 1 \in 2..Length /\ p < Length /\ p + 1 = 2 * total' + 2
    BY <1>0, <2>1, <2>7
  <2>9. Between(p + 1)'
    BY <2>6, <2>8 DEF Between
  <2>10. slow
    BY <1>6, <1>11
  <2>11. Collects(p + 1)'
    BY <1>1, <1>4, <2>8, <2>9, <2>10 DEF Collects
  <2>. QED
    BY <1>7, <2>6, <2>7, <2>8, <2>11
<1>. QED
  BY <1>8, <1>9, <1>10, <1>11 DEF Collects

\* A timeout inside a benchmark: a value that was begun is stored as it is.
LEMMA CollectTimesOut ==
    ASSUME LinkAssumption, LinkTypes, LinkTypes', InPlace, host = "collect", LineTimesOut,
           NEW p \in 2..Length, Collects(p)
    PROVE  InPlace' /\ host' = "collect" /\ Collects(p)'
<1>0. /\ Total \in Nat /\ Length = 2 * Total + 2 /\ total \in Nat
      /\ p \in Nat /\ p >= 2 /\ p <= Length
  <2>1. Total \in Nat /\ Length = 2 * Total + 2 /\ Length \in Nat /\ total \in Nat
    BY BenchmarkIs DEF LinkTypes, HostTypes
  <2>. QED
    BY <2>1
<1>1. /\ ProcessLine(line) /\ TimesOut
      /\ UNCHANGED <<out, board, toBoard, toHost, slow, iter>>
  BY DEF LineTimesOut, boardVars, fixed, ProcessLine
<1>2. Stream' = Stream /\ Stopped' = Stopped
  BY <1>1 DEF Stream, Stopped
<1>3. Follows(Stream', 1, p) /\ (Reaches(Stream', 1, p) \/ Stopped')
  BY <1>2 DEF Collects
<1>4. ~slow => Stream = <<>>
  BY <1>1, StreamIs DEF TimesOut, BoardQuiet
<1>5. /\ line' = <<>> /\ StoreLine(line) /\ total' = total + Cardinality(Marks(line))
      /\ host' = IF line # <<>> /\ Kind(line[1]) = "end" THEN "log" ELSE "collect"
  BY <1>1 DEF ProcessLine
<1>6. CASE line = <<>>
  <2>1. Marks(line) = {} /\ Cardinality({}) = 0
    BY <1>6, MarksOfLine, FS_EmptySet
  <2>2. total' = total + Cardinality({}) /\ samples' = samples
    BY <1>5, <2>1 DEF StoreLine
  <2>3. total' = total /\ line' = line
    BY <1>0, <1>5, <1>6, <2>1, <2>2
  <2>4. InPlace'
    BY <2>2 DEF InPlace
  <2>5. (Between(p) \/ Within(p) \/ Lost(p))'
    BY <2>3 DEF Collects, Between, Within, Lost
  <2>. QED
    BY <1>1, <1>2, <1>3, <1>4, <1>5, <1>6, <2>4, <2>5 DEF Collects
<1>7. CASE line # <<>>
  <2>. DEFINE ln == << <<"mark", total>> >>
  <2>1. line = ln /\ p = 2 * total + 3 /\ total \in 0..(Total - 1)
    BY <1>0, <1>7 DEF Collects, Between, Within, Lost
  <2>2. Marks(ln) = {<<"mark", total>>} /\ ln # <<>> /\ Kind(ln[1]) = "mark"
    BY MarksOfLine DEF Kind
  <2>3. Sample(ln).value = total
    BY SampleOfLine
  <2>. HIDE DEF ln
  <2>4. host' = "collect" /\ StoreLine(ln) /\ total' = total + Cardinality(Marks(ln))
    BY <1>5, <2>1, <2>2
  <2>5. total' = total + 1
    BY <1>0, <2>2, <2>4, FS_Singleton
  <2>6. total \div Outputs < Size
    BY <2>1, Slots DEF LinkAssumption
  <2>7. samples' = [samples EXCEPT ![total % Outputs][total \div Outputs] = Sample(ln)]
    BY <2>2, <2>4, <2>6 DEF StoreLine, Slot
  <2>8. InPlace'
    <3>. DEFINE e == Sample(ln)
    <3>1. /\ total \in 0..(Total - 1) /\ e.value = total /\ iter' = iter
          /\ samples' = [samples EXCEPT ![total % Outputs][total \div Outputs] = e]
      BY <1>1, <2>1, <2>3, <2>7
    <3>. HIDE DEF e
    <3>. QED
      BY <3>1, StoreInPlace
  <2>9. Lost(p)'
    BY <1>0, <1>5, <2>1, <2>5 DEF Lost
  <2>. QED
    BY <1>1, <1>2, <1>3, <1>4, <2>4, <2>8, <2>9 DEF Collects
<1>. QED
  BY <1>6, <1>7

\* Before the benchmark nothing is stored, and after its first line the host is
\* at the first value.
LEMMA SeekStep ==
    ASSUME LinkAssumption, LinkTypes, LinkTypes', StreamInv, host = "seek", total = 0,
           ReadLine \/ LineTimesOut
    PROVE  /\ UNCHANGED <<samples, iter>> /\ total' = 0
           /\ \/ host' = "seek"
              \/ host' = "collect" /\ Collects(2)'
<1>1. UNCHANGED <<iter, slow>>
  BY DEF ReadLine, LineTimesOut, ProcessLine, fixed
<1>2. ASSUME NEW ln, ProcessLine(ln)
      PROVE  /\ UNCHANGED <<samples, total>> /\ line' = <<>>
             /\ host' = "seek" \/ (host' = "collect" /\ ln # <<>> /\ Kind(ln[1]) = "dollar")
  BY <1>2 DEF ProcessLine
<1>3. ASSUME NEW ln, ProcessLine(ln), ln # <<>> => Kind(ln[1]) # "dollar"
      PROVE  UNCHANGED <<samples, total>> /\ host' = "seek"
  BY <1>2, <1>3
<1>4. CASE LineTimesOut
  <2>1. ProcessLine(line) /\ (line # <<>> => Kind(line[1]) # "dollar")
    BY <1>4 DEF LineTimesOut, LinkTypes, HostTypes, Places, EndsLine
  <2>. QED
    BY <1>1, <1>3, <2>1
<1>5. CASE ReadLine /\ ~EndsLine(Head(toHost))
  BY <1>1, <1>5 DEF ReadLine
<1>6. CASE ReadLine /\ EndsLine(Head(toHost))
  <2>. DEFINE tok == Head(toHost)
              ln == Append(line, tok)
  <2>1. ProcessLine(ln) /\ tok \in HostTokens /\ line \in Seq(HostTokens) /\ EndsLine(tok)
    BY <1>6, ReceiveTypes DEF ReadLine, LinkTypes, HostTypes
  <2>2. CASE line # <<>> \/ Kind(tok) # "dollar"
    <3>1. ln # <<>> => Kind(ln[1]) # "dollar"
      <4>1. CASE line = <<>>
        <5>1. ln = <<tok>>
          BY <2>1, <4>1
        <5>. QED
          BY <2>2, <4>1, <5>1
      <4>2. CASE line # <<>>
        <5>1. 1 \in DOMAIN line /\ ln[1] = line[1]
          BY <2>1, <4>2
        <5>. QED
          BY <5>1 DEF LinkTypes, Places, EndsLine
      <4>. QED
        BY <4>1, <4>2
    <3>. HIDE DEF ln, tok
    <3>. QED
      BY <1>1, <1>3, <2>1, <3>1
  <2>3. CASE line = <<>> /\ Kind(tok) = "dollar"
    <3>1. /\ toHost # <<>> /\ Receive /\ UNCHANGED <<out, board, toBoard>>
      BY <1>6 DEF ReadLine, boardVars
    <3>2. Reads /\ Stream[1] = tok /\ Len(Stream) \in Nat /\ DOMAIN Stream = 1..Len(Stream)
      BY <3>1, HostReads, StreamIs
    <3>. HIDE DEF tok
    <3>3. Follows(Stream, 1, 1) /\ (Reaches(Stream, 1, 1) \/ Stopped)
      <4>1. Whole
        BY DEF StreamInv, Open
      <4>2. 1 \in DOMAIN Stream /\ Starting(Stream, 1)
        BY <2>3, <3>2 DEF Reads, Starting
      <4>. QED
        BY <4>1, <4>2 DEF Whole
    <3>4. Follows(Stream', 1, 2) /\ (Reaches(Stream', 1, 2) \/ Stopped')
      <4>1. Stopped => Stopped'
        BY <3>1 DEF Stopped
      <4>2. /\ Len(Stream') = Len(Stream) - 1
            /\ \A j \in 1..(Len(Stream) - 1) : Stream'[j] = Stream[j + 1]
        BY <3>2 DEF Reads
      <4>3. 1 < Length /\ 1 \in Nat /\ 1 + 1 = 2
        BY BenchmarkIs
      <4>4. /\ Follows(Stream', 1, 1 + 1)
            /\ Reaches(Stream, 1, 1) => Reaches(Stream', 1, 1 + 1)
        BY <3>2, <3>3, <4>2, <4>3, FollowsNext
      <4>. QED
        BY <3>3, <4>1, <4>3, <4>4
    <3>5. ln # <<>> /\ Kind(ln[1]) = "dollar"
      BY <2>1, <2>3
    <3>. HIDE DEF ln
    <3>6. UNCHANGED <<samples, total>> /\ line' = <<>> /\ host' = "collect"
      BY <2>1, <3>5 DEF ProcessLine
    <3>7. Between(2)' /\ ~Lost(2)' /\ Stored(total)'
      BY <3>6 DEF Between, Lost, Stored
    <3>. QED
      BY <1>1, <3>4, <3>6, <3>7 DEF Collects
  <2>. QED
    BY <2>2, <2>3
<1>. QED
  BY <1>4, <1>5, <1>6

\* What the board does to the stream of a host inside a benchmark.
LEMMA CollectBoard ==
    ASSUME LinkAssumption, LinkTypes, LinkTypes', HandshakeInv, host = "collect",
           (Board /\ ~TakeForHandshake) \/ PowerCycle, NEW p \in 2..Length, Collects(p)
    PROVE  Collects(p)'
<1>1. UNCHANGED <<host, iter, line, total, samples, slow>>
  BY BoardFootprint DEF PowerCycle, hostVars
<1>2. (Between(p) \/ Within(p) \/ Lost(p))' /\ (Lost(p)' <=> Lost(p)) /\ (Stored(total) => Stored(total)')
  BY <1>1 DEF Collects, Between, Within, Lost, Stored
<1>3. /\ DOMAIN Stream = 1..Len(Stream) /\ Len(Stream) \in Nat /\ Stream \in Seq(HostTokens)
      /\ DOMAIN Stream' = 1..Len(Stream') /\ Len(Stream') \in Nat /\ Stream' \in Seq(HostTokens)
  BY StreamIs, Joined DEF LinkTypes, HostTypes, BoardTypes, Stream
<1>4. p \in Nat /\ p <= Length /\ Length \in Nat /\ 1 \in Nat /\ 1 > 0
  <2>1. Length \in Nat
    BY BenchmarkIs
  <2>. QED
    BY <2>1
<1>5. SUFFICES /\ Follows(Stream', 1, p) /\ (Reaches(Stream', 1, p) \/ Stopped')
               /\ Stream = <<>> => Stream' = <<>>
  BY <1>1, <1>2 DEF Collects
<1>6. CASE Stream' = Stream /\ (Stopped => Stopped')
  BY <1>6 DEF Collects
<1>7. CASE Cuts /\ Stopped'
  <2>1. Stream = <<>> => Stream' = <<>>
    BY <1>3, <1>7 DEF Cuts
  <2>2. /\ Follows(Stream, 1, p) /\ Len(Stream') <= Len(Stream)
        /\ \A j \in 1..Len(Stream') : Stream'[j] = Stream[j]
    BY <1>7 DEF Collects, Cuts
  <2>3. Follows(Stream', 1, p)
    BY <1>3, <1>4, <2>2, FollowsCut
  <2>. QED
    BY <1>7, <2>1, <2>3
<1>8. CASE Prints /\ ~Stopped
  <2>1. Follows(Stream, 1, p) /\ Reaches(Stream, 1, p)
    BY <1>8 DEF Collects
  <2>2. Len(Stream) > 0
    BY <1>3, <1>4, <2>1 DEF Reaches
  <2>3. Len(Stream) <= Len(Stream') /\ \A j \in 1..Len(Stream) : Stream'[j] = Stream[j]
    <3>1. Len(Stream') = Len(Stream) + Len(out') /\ Len(out') \in Nat
      BY <1>8 DEF Prints, LinkTypes, BoardTypes
    <3>. QED
      BY <1>3, <1>8, <3>1 DEF Prints
  <2>4. Follows(Stream', 1, p) /\ Reaches(Stream', 1, p)
    BY <1>3, <1>4, <2>1, <2>3, FollowsPrinted
  <2>. QED
    BY <1>3, <2>2, <2>4
<1>. QED
  BY <1>6, <1>7, <1>8, BoardMoves DEF HandshakeInv

\* The board touches neither the samples nor the place of the host.
LEMMA SampleBoard ==
    ASSUME LinkAssumption, LinkTypes, LinkTypes', HandshakeInv, SampleInv,
           (Board /\ ~TakeForHandshake) \/ PowerCycle
    PROVE  SampleInv'
<1>1. UNCHANGED <<host, step, iter, line, total, samples, slow>>
  BY BoardFootprint DEF PowerCycle, hostVars
<1>2. host = "collect" => (\E p \in 2..Length : Collects(p))'
  BY CollectBoard DEF SampleInv
<1>3. Stored(Total) => Stored(Total)'
  BY <1>1 DEF Stored
<1>. QED
  BY <1>1, <1>2, <1>3 DEF SampleInv, InPlace

\* Only a run fills the arrays, and its step is the one before the last.
LEMMA SampleHost ==
    ASSUME LinkAssumption, LinkTypes, LinkTypes', StreamInv, SampleInv, Host
    PROVE  SampleInv'
<1>0. Visited \in Nat /\ Len(Script) = Visited + 4 /\ step \in Nat
  BY ScriptLength DEF LinkTypes, HostTypes
<1>1. CASE host = "seek" /\ (ReadLine \/ LineTimesOut)
  <2>1. UNCHANGED <<samples, iter>> /\ total' = 0
        /\ \/ host' = "seek"
           \/ host' = "collect" /\ Collects(2)'
    BY <1>1, SeekStep DEF SampleInv
  <2>2. InPlace'
    BY <2>1 DEF SampleInv, InPlace
  <2>3. 2 \in 2..Length
    BY BenchmarkIs
  <2>. QED
    BY <2>1, <2>2, <2>3 DEF SampleInv
<1>2. CASE host = "collect" /\ ReadLine
  <2>1. PICK p \in 2..Length : Collects(p)
    BY <1>2 DEF SampleInv
  <2>2. /\ InPlace'
        /\ \/ host' = "collect" /\ p + 1 \in 2..Length /\ Collects(p + 1)'
           \/ host' = "log" /\ (~slow => Stored(Total)')
    BY <1>2, <2>1, CollectRead DEF SampleInv
  <2>3. slow' = slow
    BY <1>2 DEF ReadLine, fixed
  <2>. QED
    BY <2>2, <2>3 DEF SampleInv
<1>3. CASE host = "collect" /\ LineTimesOut
  <2>1. PICK p \in 2..Length : Collects(p)
    BY <1>3 DEF SampleInv
  <2>2. InPlace' /\ host' = "collect" /\ Collects(p)'
    BY <1>3, <2>1, CollectTimesOut DEF SampleInv
  <2>. QED
    BY <2>2 DEF SampleInv
<1>4. CASE SendCommand
  <2>. DEFINE n == step + 1
  <2>1. n \in 1..Len(Script) /\ step' = n /\ host = "send"
    BY <1>0, <1>4 DEF SendCommand, LinkTypes, Places
  <2>2. /\ total' = 0 /\ UNCHANGED <<samples, iter, slow>>
        /\ host' = CASE Script[n][1] \in {"MMU", "LOAD"} -> "hdr"
                     [] Script[n][1] = "RUN" -> "seek"
                     [] OTHER -> "log"
    BY <1>4 DEF SendCommand, fixed
  <2>3. Script[n][1] = "RUN" <=> n = Visited + 3
    BY <2>1, ScriptCommands
  <2>4. Script[n][1] = "RUN" => Script[n][1] \notin {"MMU", "LOAD"}
    OBVIOUS
  <2>. HIDE DEF n
  <2>5. host' # "collect" /\ (n = Visited + 3 => host' = "seek")
    BY <2>2, <2>3, <2>4
  <2>6. n >= Visited + 3 /\ n # Visited + 3 => step >= Visited + 3
    BY <1>0, <2>1 DEF n
  <2>7. InPlace' /\ (Stored(Total) => Stored(Total)')
    BY <2>2 DEF SampleInv, InPlace, Stored
  <2>. QED
    BY <2>1, <2>2, <2>5, <2>6, <2>7 DEF SampleInv
<1>5. CASE ClosePort
  <2>1. step' = 0 /\ host' \in {"closed", "done"} /\ samples' = samples
    BY <1>5 DEF ClosePort
  <2>2. ~(step' >= Visited + 3)
    BY <1>0, <2>1
  <2>. QED
    BY <2>1, <2>2 DEF SampleInv, InPlace
<1>6. CASE OpenPort \/ KnockAgain \/ HandshakeDone \/ LogByte \/ LogEnds \/ LogTimesOut \/ SkipCore
           \/ SendImage \/ SkipImage
  <2>1. /\ UNCHANGED <<samples, iter, slow>>
        /\ host \notin {"seek", "collect"} /\ host' \notin {"seek", "collect"}
    BY <1>6 DEF OpenPort, KnockAgain, HandshakeDone, LogByte, LogEnds, LogTimesOut, SkipCore,
       SendImage, SkipImage, AfterLog, hostVars, fixed
  <2>2. step' >= Visited + 3 => step >= Visited + 3
    <3>1. CASE SkipCore
      <4>1. step + 1 \in 1..Len(Script) /\ Script[step + 1][1] = "LOAD" /\ step' = step + 1
        BY <1>0, <3>1 DEF SkipCore, Idle, LinkTypes, Places
      <4>2. step + 1 <= Visited + 1
        BY <4>1, ScriptCommands
      <4>. QED
        BY <1>0, <4>1, <4>2
    <3>2. CASE ~SkipCore
      <4>1. step' = step
        BY <1>6, <3>2 DEF OpenPort, KnockAgain, HandshakeDone, LogByte, LogEnds, LogTimesOut,
           SendImage, SkipImage, hostVars
      <4>. QED
        BY <4>1
    <3>. QED
      BY <3>1, <3>2
  <2>3. InPlace' /\ (Stored(Total) => Stored(Total)')
    BY <2>1 DEF SampleInv, InPlace, Stored
  <2>. QED
    BY <2>1, <2>2, <2>3 DEF SampleInv
<1>7. ReadLine \/ LineTimesOut => host \in {"seek", "collect"}
  BY DEF ReadLine, LineTimesOut
<1>. QED
  BY <1>1, <1>2, <1>3, <1>4, <1>5, <1>6, <1>7 DEF Host

\* A tool that is killed leaves the line as it is; the next one opens its own.
LEMMA KillKeepsStream ==
    ASSUME LinkAssumption, LinkTypes, HandshakeInv, OutWhole, KillTool
    PROVE  HandshakeInv' /\ OutWhole' /\ StreamInv' /\ SampleInv'
<1>1. /\ host' = "closed" /\ step' = 0 /\ toHost' = <<>> /\ UNCHANGED <<board, out, toBoard>>
      /\ samples' = [r \in 0..(Outputs - 1) |-> [i \in 0..(Size - 1) |-> NoSample]]
  BY DEF KillTool, boardVars
<1>2. HandshakeInv'
  BY <1>1 DEF HandshakeInv, Fresh, Stale, Greets, Greeting
<1>3. OutWhole' /\ StreamInv'
  BY <1>1 DEF OutWhole, StreamInv, Open
<1>4. InPlace'
  BY <1>1 DEF InPlace, NoSample
<1>5. ~(step' >= Visited + 3)
  BY <1>1, ScriptLength
<1>. QED
  BY <1>1, <1>2, <1>3, <1>4, <1>5 DEF SampleInv

\* Nobody forgets that a firmware took bytes of an image for the handshake.
LEMMA NotFooledBefore ==
    ASSUME Next, ~fooled'
    PROVE  ~fooled /\ ~TakeForHandshake
<1>1. ~TakeForHandshake
  BY DEF TakeForHandshake
<1>2. fooled' = fooled
  BY <1>1, HostFootprint, BoardFootprint DEF Next, KillTool, PowerCycle
<1>. QED
  BY <1>1, <1>2

\* The place in the benchmark is an invariant, under all faults and timeouts.
HostInv == ~fooled => HandshakeInv /\ StreamInv /\ SampleInv
LEMMA SamplesAreKept == Spec => []HostInv
<1>. USE LinkAssumption
<1>1. Init => HostInv
  <2>. SUFFICES ASSUME Init PROVE HandshakeInv /\ StreamInv /\ SampleInv
    BY DEF HostInv
  <2>1. /\ host = "closed" /\ step = 0 /\ board = "off" /\ out = <<>> /\ toBoard = <<>>
        /\ toHost = <<>>
        /\ samples = [r \in 0..(Outputs - 1) |-> [i \in 0..(Size - 1) |-> NoSample]]
    BY DEF Init
  <2>2. HandshakeInv
    BY <2>1 DEF HandshakeInv, Fresh, Stale, Greets, Greeting
  <2>3. StreamInv
    BY <2>1 DEF OutWhole, StreamInv, Open
  <2>4. InPlace
    BY <2>1 DEF InPlace, NoSample
  <2>5. ~(step >= Visited + 3)
    BY <2>1, ScriptLength
  <2>. QED
    BY <2>1, <2>2, <2>3, <2>4, <2>5 DEF SampleInv
<1>2. LinkTypes /\ LinkTypes' /\ HostInv /\ [Next]_vars => HostInv'
  <2>. SUFFICES ASSUME LinkTypes, LinkTypes', HostInv, [Next]_vars, ~fooled'
                PROVE  HandshakeInv' /\ StreamInv' /\ SampleInv'
    BY DEF HostInv
  <2>1. CASE Next
    <3>1. ~TakeForHandshake /\ HandshakeInv /\ StreamInv /\ SampleInv
      BY <2>1, NotFooledBefore DEF HostInv
    <3>2. OutWhole'
      BY <2>1, <3>1, OutStaysWhole DEF StreamInv
    <3>3. CASE Host
      BY <3>1, <3>2, <3>3, HandshakeHost, StreamHost, SampleHost
    <3>4. CASE Board \/ PowerCycle
      BY <3>1, <3>2, <3>4, HandshakeBoard, StreamBoard, SampleBoard
    <3>5. CASE KillTool
      BY <3>1, <3>5, KillKeepsStream DEF StreamInv
    <3>. QED
      BY <2>1, <3>3, <3>4, <3>5 DEF Next
  <2>2. CASE UNCHANGED vars
    <3>1. HandshakeInv /\ StreamInv /\ SampleInv
      BY <2>2 DEF vars, fixed, HostInv
    <3>. USE <2>2 DEF vars, hostVars, boardVars, fixed
    <3>2. Stream' = Stream /\ Stopped' = Stopped
      BY DEF Stream, Stopped
    <3>3. HandshakeInv'
      BY <3>1, <3>2 DEF HandshakeInv, Fresh, Stale, Greets, Answered, Greeting
    <3>4. StreamInv'
      BY <3>1, <3>2 DEF StreamInv, OutWhole, Whole, Open, Answered
    <3>5. SampleInv'
      BY <3>1, <3>2 DEF SampleInv, InPlace, Collects, Between, Within, Lost, Stored
    <3>. QED
      BY <3>3, <3>4, <3>5
  <2>. QED
    BY <2>1, <2>2
<1>. QED
  BY <1>1, <1>2, LinkTypesHold, PTL DEF Spec

\* Whatever the timeouts cut, and whoever is killed, a value is never stored
\* under another output or another index, unless a firmware took bytes of an image
\* for the handshake: uart_to_result counts the values it has seen, and what it
\* reads behind a "$" is one benchmark, in order.
THEOREM SamplesStayInPlace == Spec => []SamplesInPlace
<1>1. HostInv => SamplesInPlace
  BY DEF HostInv, SampleInv, SamplesInPlace
<1>. QED
  BY <1>1, SamplesAreKept, PTL

\* When uart_to_result has returned from a board that answers in time, all of
\* the arrays are of this run, whatever was killed or missing before, unless a
\* firmware took bytes of an image for the handshake.
THEOREM SamplesAreComplete == Spec => []SamplesComplete
<1>1. LinkTypes /\ HostInv => SamplesComplete
  <2>. SUFFICES ASSUME LinkTypes, SampleInv, ~slow, RunCollected,
                       NEW r \in 0..(Outputs - 1), NEW i \in 0..(Size - 1)
                PROVE  samples[r][i] = [value |-> i * Outputs + r, run |-> iter, whole |-> TRUE]
    BY DEF SamplesComplete, HostInv
  <2>. USE LinkAssumption
  <2>1. PICK n \in 1..step : Script[n][1] = "RUN"
    BY DEF RunCollected
  <2>2. step \in 0..Len(Script) /\ n \in 1..Len(Script)
    BY <2>1, ScriptLength DEF LinkTypes, HostTypes
  <2>3. n = Visited + 3
    BY <2>1, <2>2, ScriptCommands
  <2>4. step >= Visited + 3
    BY <2>2, <2>3, ScriptLength
  <2>5. Stored(Total)
    BY <2>4 DEF SampleInv, RunCollected
  <2>. DEFINE v == i * Outputs + r
  <2>6. v \in 0..(Total - 1) /\ v % Outputs = r /\ v \div Outputs = i
    BY Slots
  <2>. HIDE DEF v
  <2>7. samples[r][i] = [value |-> v, run |-> iter, whole |-> TRUE]
    BY <2>5, <2>6 DEF Stored
  <2>. QED
    BY <2>7 DEF v
<1>. QED
  BY <1>1, LinkTypesHold, SamplesAreKept, PTL

------------------------------------------------------------------------------
(* Lockstep: an undisturbed run with a board that answers within a second.  *)

\* What makes the firmware answer, with a 0 at the end, and only there.
Asks(s) == s # <<>> /\ \A k \in DOMAIN s :
              Kind(s[k]) \in {"zero", "body", "INFO", "RUN"} <=> k = Len(s)
AsksNothing(s) == \A k \in DOMAIN s : Kind(s[k]) \notin {"zero", "body", "INFO", "RUN"}
Answers(s) == s # <<>> /\ \A k \in DOMAIN s : Kind(s[k]) = "nul" <=> k = Len(s)
AtRest == toBoard = <<>> /\ board = "prompt"
\* Either the question is on its way, or the answer; a host that is at its end, or
\* knocks, has all its answers.
Lockstep ==
    /\ host = "send" => AtRest /\ Stream = <<>>
    /\ host \in {"hdr", "body"} => AsksNothing(toBoard) /\ Stream = <<>>
    /\ host = "log" /\ step < Len(Script) =>
          (Asks(toBoard) /\ Stream = <<>>) \/ (AtRest /\ Answers(Stream))
    /\ host = "seek" =>
          \/ Asks(toBoard) /\ Stream = <<>>
          \/ AtRest /\ (Starts(Stream) => Answers(Stream))
    /\ host = "collect" => AtRest /\ Answers(Stream)
    /\ Over => AsksNothing(toBoard)
LockInv == Undisturbed /\ ~slow => ~fooled /\ InOrder /\ Lockstep

\* A benchmark is no answer yet: the 0 comes after it.
LEMMA BenchmarkSaysNoMore ==
    ASSUME LinkAssumption
    PROVE  \A k \in 1..Len(Benchmark) : Kind(Benchmark[k]) # "nul"
<1>1. Length \in Nat /\ Length >= 2 /\ Total \in Nat /\ Length = 2 * Total + 2 /\ Len(Benchmark) = Length
  BY BenchmarkIs
<1>2. SUFFICES ASSUME NEW k \in 1..Length PROVE Kind(Benchmark[k]) # "nul"
  BY <1>1
<1>3. CASE k = 1
  BY <1>3, BenchmarkIs DEF Kind, Token
<1>4. CASE k = Length
  BY <1>4, BenchmarkIs DEF Kind, Token
<1>5. CASE k # 1 /\ k # Length
  <2>1. PICK v \in 0..(Total - 1) : k = 2 * v + 2 \/ k = 2 * v + 3
    <3>1. (k - 2) \div 2 \in 0..(Total - 1)
          /\ (k = 2 * ((k - 2) \div 2) + 2 \/ k = 2 * ((k - 2) \div 2) + 3)
      BY <1>1, <1>5
    <3>. QED
      BY <3>1
  <2>2. Benchmark[k] \in {<<"mark", v>>, <<"tail", v>>}
    BY <2>1, BenchmarkIs
  <2>. QED
    BY <2>2 DEF Kind
<1>. QED
  BY <1>3, <1>4, <1>5

\* The answers of the firmware end in the only 0 they have.
LEMMA AnswersEnd ==
    ASSUME LinkAssumption
    PROVE  /\ Answers(Prompt) /\ Answers(<<Token("text")>> \o Prompt)
           /\ Answers(Benchmark \o Prompt)
<1>1. /\ Prompt \in Seq(HostTokens) /\ Len(Prompt) = 2
      /\ Prompt[1] = Token("prompt") /\ Prompt[2] = Token("nul")
  BY AnswersAreTokens DEF Prompt
<1>2. Kind(Token("prompt")) # "nul" /\ Kind(Token("nul")) = "nul" /\ Kind(Token("text")) # "nul"
  BY DEF Kind, Token
<1>3. Answers(Prompt)
  <2>1. DOMAIN Prompt = {1, 2} /\ Prompt # <<>>
    BY <1>1
  <2>. QED
    BY <1>1, <1>2, <2>1 DEF Answers
<1>4. ASSUME NEW s \in Seq(HostTokens), \A k \in 1..Len(s) : Kind(s[k]) # "nul"
      PROVE  Answers(s \o Prompt)
  <2>. DEFINE t == s \o Prompt
              n == Len(s)
  <2>1. /\ DOMAIN t = 1..(n + 2) /\ Len(t) = n + 2 /\ n \in Nat /\ t # <<>>
        /\ \A k \in 1..n : t[k] = s[k]
        /\ t[n + 1] = Prompt[1] /\ t[n + 2] = Prompt[2]
    <3>1. /\ t \in Seq(HostTokens) /\ Len(t) = n + Len(Prompt) /\ n \in Nat
          /\ DOMAIN t = 1..(n + Len(Prompt))
          /\ \A k \in 1..n : t[k] = s[k]
          /\ \A k \in 1..Len(Prompt) : t[n + k] = Prompt[k]
      BY <1>1, <1>4, Joined
    <3>. HIDE DEF t, n
    <3>2. Len(t) # 0
      BY <1>1, <3>1
    <3>. QED
      BY <1>1, <3>1, <3>2, 1 \in 1..2, 2 \in 1..2
  <2>. HIDE DEF t
  <2>2. ASSUME NEW k \in 1..(n + 2) PROVE Kind(t[k]) = "nul" <=> k = n + 2
    <3>1. CASE k \in 1..n
      BY <1>4, <2>1, <3>1
    <3>2. CASE k = n + 1
      BY <1>1, <1>2, <2>1, <3>2
    <3>3. CASE k = n + 2
      BY <1>1, <1>2, <2>1, <3>3
    <3>. QED
      BY <2>1, <3>1, <3>2, <3>3
  <2>3. Answers(t)
    BY <2>1, <2>2 DEF Answers
  <2>. QED
    BY <2>3 DEF t
<1>5. Answers(<<Token("text")>> \o Prompt)
  <2>1. /\ <<Token("text")>> \in Seq(HostTokens) /\ Len(<<Token("text")>>) = 1
        /\ <<Token("text")>>[1] = Token("text")
    BY DEF HostTokens, Token
  <2>2. \A k \in 1..Len(<<Token("text")>>) : Kind(<<Token("text")>>[k]) # "nul"
    BY <1>2, <2>1
  <2>. QED
    BY <1>4, <2>1, <2>2
<1>6. Answers(Benchmark \o Prompt)
  <2>1. \A k \in 1..Len(Benchmark) : Kind(Benchmark[k]) # "nul"
    BY BenchmarkSaysNoMore
  <2>. QED
    BY <1>4, <2>1, BenchmarkIs
<1>. QED
  BY <1>3, <1>5, <1>6

\* Reading from an answer leaves it one, until its 0.
LEMMA AnswersRead ==
    ASSUME LinkTypes, LinkTypes', Reads, Answers(Stream)
    PROVE  /\ Kind(Stream[1]) # "nul" => Answers(Stream')
           /\ Kind(Stream[1]) = "nul" => Stream' = <<>>
<1>1. /\ DOMAIN Stream = 1..Len(Stream) /\ Len(Stream) \in Nat
      /\ Stream' \in Seq(HostTokens) /\ DOMAIN Stream' = 1..Len(Stream')
      /\ Len(Stream') = Len(Stream) - 1 /\ Len(Stream) > 0
      /\ \A k \in 1..(Len(Stream) - 1) : Stream'[k] = Stream[k + 1]
  BY StreamIs, Joined DEF LinkTypes, HostTypes, BoardTypes, Stream, Reads
<1>2. \A k \in 1..Len(Stream) : Kind(Stream[k]) = "nul" <=> k = Len(Stream)
  BY <1>1 DEF Answers
<1>5. 1 \in 1..Len(Stream)
  BY <1>1
<1>3. ASSUME Kind(Stream[1]) = "nul" PROVE Stream' = <<>>
  <2>1. Len(Stream) = 1
    BY <1>1, <1>2, <1>3, <1>5
  <2>2. Len(Stream') = 0
    BY <1>1, <2>1
  <2>. QED
    BY <1>1, <2>2
<1>4. ASSUME Kind(Stream[1]) # "nul" PROVE Answers(Stream')
  <2>1. Len(Stream) # 1
    BY <1>1, <1>2, <1>4, <1>5
  <2>2. Stream' # <<>>
    BY <1>1, <2>1
  <2>3. ASSUME NEW k \in 1..(Len(Stream) - 1)
        PROVE  Kind(Stream'[k]) = "nul" <=> k = Len(Stream) - 1
    <3>1. k + 1 \in 1..Len(Stream) /\ Stream'[k] = Stream[k + 1]
      BY <1>1, <2>3
    <3>2. k + 1 = Len(Stream) <=> k = Len(Stream) - 1
      BY <1>1, <2>3
    <3>. QED
      BY <1>2, <3>1, <3>2
  <2>. QED
    BY <1>1, <2>2, <2>3 DEF Answers
<1>. QED
  BY <1>3, <1>4

\* A token that is no question leaves the questions behind it as they are.
LEMMA HeardAsks ==
    ASSUME LinkTypes, NEW kind, Hears(kind)
    PROVE  /\ kind \in {"zero", "body", "INFO", "RUN"} =>
                 ~AsksNothing(toBoard) /\ (Asks(toBoard) => toBoard' = <<>>)
           /\ kind \notin {"zero", "body", "INFO", "RUN"} =>
                 /\ AsksNothing(toBoard) => AsksNothing(toBoard')
                 /\ Asks(toBoard) => Asks(toBoard')
<1>. DEFINE n == Len(toBoard)
            Q == {"zero", "body", "INFO", "RUN"}
<1>1. /\ Kind(toBoard[1]) = kind /\ n \in Nat \ {0} /\ Len(toBoard') = n - 1
      /\ DOMAIN toBoard = 1..n /\ DOMAIN toBoard' = 1..(n - 1)
      /\ \A k \in 1..(n - 1) : toBoard'[k] = toBoard[k + 1]
      /\ toBoard' \in Seq(BoardTokens)
  BY Heard, HearsTypes DEF LinkTypes, BoardTypes
<1>. HIDE DEF n, Q
<1>2. 1 \in 1..n /\ \A k \in 1..(n - 1) : k + 1 \in 1..n /\ (k + 1 = n <=> k = n - 1)
  BY <1>1
<1>3. AsksNothing(toBoard) <=> \A k \in 1..n : Kind(toBoard[k]) \notin Q
  BY <1>1 DEF AsksNothing, Q
<1>4. Asks(toBoard) => \A k \in 1..n : Kind(toBoard[k]) \in Q <=> k = n
  BY <1>1 DEF Asks, Q, n
<1>5. ASSUME kind \in Q PROVE ~AsksNothing(toBoard) /\ (Asks(toBoard) => toBoard' = <<>>)
  <2>1. ~AsksNothing(toBoard)
    BY <1>1, <1>2, <1>3, <1>5
  <2>2. ASSUME Asks(toBoard) PROVE toBoard' = <<>>
    <3>1. 1 = n
      BY <1>1, <1>2, <1>4, <1>5, <2>2
    <3>2. Len(toBoard') = 0
      BY <1>1, <3>1
    <3>. QED
      BY <1>1, <3>2
  <2>. QED
    BY <2>1, <2>2
<1>6. ASSUME kind \notin Q, AsksNothing(toBoard) PROVE AsksNothing(toBoard')
  <2>1. \A k \in 1..(n - 1) : Kind(toBoard'[k]) \notin Q
    BY <1>1, <1>2, <1>3, <1>6
  <2>. QED
    BY <1>1, <2>1 DEF AsksNothing, Q
<1>7. ASSUME kind \notin Q, Asks(toBoard) PROVE Asks(toBoard')
  <2>1. \A k \in 1..(n - 1) : Kind(toBoard'[k]) \in Q <=> k = n - 1
    BY <1>1, <1>2, <1>4, <1>7
  <2>2. n # 1
    BY <1>1, <1>2, <1>4, <1>7
  <2>3. toBoard' # <<>>
    BY <1>1, <2>2
  <2>. QED
    BY <1>1, <2>1, <2>3 DEF Asks, Q
<1>. QED
  BY <1>5, <1>6, <1>7 DEF Q

\* What is sent behind tokens that ask nothing.
LEMMA SentAsks ==
    ASSUME LinkTypes, NEW token \in BoardTokens, Delivered(token), board # "off",
           AsksNothing(toBoard)
    PROVE  /\ Kind(token) \in {"zero", "body", "INFO", "RUN"} => Asks(toBoard')
           /\ Kind(token) \notin {"zero", "body", "INFO", "RUN"} => AsksNothing(toBoard')
<1>. DEFINE n == Len(toBoard)
            Q == {"zero", "body", "INFO", "RUN"}
<1>1. /\ n \in Nat /\ DOMAIN toBoard = 1..n /\ toBoard' # <<>> /\ Len(toBoard') = n + 1
      /\ DOMAIN toBoard' = 1..(n + 1) /\ toBoard'[n + 1] = token
      /\ \A k \in 1..n : toBoard'[k] = toBoard[k]
  BY Sent DEF LinkTypes, BoardTypes
<1>. HIDE DEF n, Q
<1>2. \A k \in 1..n : Kind(toBoard'[k]) \notin Q
  BY <1>1 DEF AsksNothing, Q
<1>3. \A k \in 1..(n + 1) : k \in 1..n \/ k = n + 1
  BY <1>1
<1>4. n + 1 \notin 1..n
  BY <1>1
<1>5. ASSUME Kind(token) \in Q PROVE Asks(toBoard')
  <2>1. \A k \in 1..(n + 1) : Kind(toBoard'[k]) \in Q <=> k = n + 1
    BY <1>1, <1>2, <1>3, <1>4, <1>5
  <2>. QED
    BY <1>1, <2>1 DEF Asks, Q
<1>6. ASSUME Kind(token) \notin Q PROVE AsksNothing(toBoard')
  <2>1. \A k \in 1..(n + 1) : Kind(toBoard'[k]) \notin Q
    BY <1>1, <1>2, <1>3, <1>6
  <2>. QED
    BY <1>1, <2>1 DEF AsksNothing, Q
<1>. QED
  BY <1>5, <1>6 DEF Q

\* In a session the firmware either goes on without an answer, or is at its
\* prompt when it has given one.
LEMMA SessionHears ==
    ASSUME LinkAssumption, LinkTypes, InOrder, Session, Board, ~Transmit
    PROVE  \E kind \in TokensToBoard :
              /\ Hears(kind)
              /\ \/ kind \notin {"zero", "body", "INFO", "RUN"} /\ out' = out
                 \/ /\ kind \in {"zero", "body", "INFO", "RUN"}
                    /\ board' = "prompt" /\ Answers(out')
<1>. USE DEF InOrder
<1>1. board \notin {"off", "hello", "reset", "litter", "garbled"} /\ ~TakeForHandshake
  BY SessionAdmits, NotFooled DEF Left
<1>2. ASSUME NEW kind, Hears(kind) PROVE kind \in Awaits /\ kind # "RESET"
  <2>1. 1 \in DOMAIN toBoard /\ Kind(toBoard[1]) = kind
    BY <1>2, Heard DEF LinkTypes, BoardTypes
  <2>. QED
    BY <1>2, <2>1, SessionAdmits, HeardInOrder
<1>3. AtPrompt => board = "prompt"
  BY <1>1 DEF AtPrompt
<1>4. CASE Greet
  <2>1. Hears("zero") /\ board' = "prompt" /\ out' = <<Token("text")>> \o Prompt
    BY <1>1, <1>4 DEF Greet
  <2>. QED
    BY <2>1, AnswersEnd DEF TokensToBoard, Messages
<1>5. CASE Ignore
  <2>1. PICK k \in Messages \ {"zero"} : board = "greeted" /\ Hears(k)
    BY <1>1, <1>5 DEF Ignore
  <2>2. k = "one" /\ out' = out
    BY <1>2, <1>5, <2>1, AwaitsIs DEF Ignore, boardVars
  <2>. QED
    BY <2>1, <2>2 DEF TokensToBoard, Messages
<1>6. CASE AskImage
  BY <1>6 DEF AskImage, TokensToBoard, Messages, Commands
<1>7. CASE TakeImage
  <2>1. \/ Hears("hdr") /\ out' = out
        \/ Hears("body") /\ board' = "prompt" /\ out' = Prompt
    BY <1>7 DEF TakeImage
  <2>. QED
    BY <2>1, AnswersEnd DEF TokensToBoard, Messages
<1>8. CASE Info
  BY <1>8, AnswersEnd DEF Info, TokensToBoard, Messages, Commands
<1>9. CASE RunApplication
  <2>1. Hears("RUN") /\ board' = "prompt" /\ out' \in {Benchmark \o Prompt, Prompt}
    BY <1>9 DEF RunApplication
  <2>. QED
    BY <2>1, AnswersEnd DEF TokensToBoard, Messages, Commands
<1>10. CASE Gather \/ MissCommand
  BY <1>1, <1>2, <1>3, <1>10, AwaitsIs DEF Gather, MissCommand, Commands
<1>11. CASE TakeFalseHeader
  <2>1. board = "hdr" /\ \E k \in Messages : (k = "hdr" => eaten > 0) /\ Hears(k)
    BY <1>11 DEF TakeFalseHeader
  <2>. QED
    BY <1>2, <2>1, AwaitsIs DEF Left
<1>12. CASE TakeGarbage
  BY <1>1, <1>2, <1>12, AwaitsIs DEF TakeGarbage
<1>13. CASE Boot \/ ChipResets \/ ResetCommand
  BY <1>1, <1>2, <1>13 DEF Boot, ChipResets, ResetCommand
<1>. QED
  BY <1>1, <1>4, <1>5, <1>6, <1>7, <1>8, <1>9, <1>10, <1>11, <1>12, <1>13 DEF Board

\* The board puts no question into the line.
LEMMA BoardAsksNothing ==
    ASSUME LinkTypes, Board, ~TakeForHandshake, AsksNothing(toBoard)
    PROVE  AsksNothing(toBoard')
<1>1. ASSUME NEW kind, Hears(kind) PROVE AsksNothing(toBoard')
  BY <1>1, HeardRest DEF AsksNothing
<1>2. CASE Boot \/ ChipResets \/ Transmit
  <2>1. toBoard' = toBoard \/ toBoard' = <<>>
    BY <1>2 DEF Boot, ChipResets, Transmit
  <2>. QED
    BY <2>1 DEF AsksNothing
<1>3. CASE Greet \/ Ignore \/ Gather \/ MissCommand \/ AskImage \/ TakeImage
  <2>1. \E kind : Hears(kind)
    BY <1>3 DEF Greet, Ignore, Gather, MissCommand, AskImage, TakeImage
  <2>. QED
    BY <1>1, <2>1
<1>4. CASE TakeFalseHeader \/ TakeGarbage \/ Info \/ RunApplication \/ ResetCommand
  <2>1. \E kind : Hears(kind)
    BY <1>4 DEF TakeFalseHeader, TakeGarbage, Info, RunApplication, ResetCommand
  <2>. QED
    BY <1>1, <2>1
<1>. QED
  BY <1>2, <1>3, <1>4 DEF Board

\* The board, which answers when it has been asked, keeps the lockstep,
LEMMA LockBoard ==
    ASSUME LinkAssumption, LinkTypes, LinkTypes', InOrder, Lockstep, Board
    PROVE  Lockstep'
<1>1. UNCHANGED <<host, step>>
  BY BoardFootprint
<1>a. (Over => AsksNothing(toBoard))'
  <2>1. ~TakeForHandshake
    BY NotFooled DEF InOrder
  <2>. QED
    BY <1>1, <2>1, BoardAsksNothing DEF Lockstep, Over
<1>2. CASE ~(host \in {"log", "send", "hdr", "body", "seek", "collect"} /\ step < Len(Script))
  <2>1. host \in {"send", "hdr", "body", "seek", "collect"} => step < Len(Script)
    BY ScriptLength DEF LinkTypes, HostTypes, Places
  <2>. QED
    BY <1>1, <1>a, <1>2, <2>1 DEF Lockstep
<1>3. CASE host \in {"log", "send", "hdr", "body", "seek", "collect"} /\ step < Len(Script)
  <2>0. Session
    BY <1>3 DEF Session
  <2>1. CASE Transmit
    <3>1. Stream' = Stream /\ UNCHANGED <<toBoard, board>>
      BY <1>3, <2>1, BoardTransmits DEF Transmit
    <3>. QED
      BY <1>1, <1>a, <3>1 DEF Lockstep, AtRest
  <2>2. CASE ~Transmit
    <3>1. PICK kind \in TokensToBoard :
              /\ Hears(kind)
              /\ \/ kind \notin {"zero", "body", "INFO", "RUN"} /\ out' = out
                 \/ /\ kind \in {"zero", "body", "INFO", "RUN"}
                    /\ board' = "prompt" /\ Answers(out')
      BY <2>0, <2>2, SessionHears
    <3>2. toBoard # <<>> /\ out = <<>> /\ toHost' = toHost
      BY <3>1, Heard DEF LinkTypes, BoardTypes
    <3>3. /\ host \in {"log", "hdr", "body", "seek"} /\ Stream = <<>>
          /\ host \in {"hdr", "body"} => AsksNothing(toBoard)
          /\ host \in {"log", "seek"} => Asks(toBoard)
      BY <1>3, <3>2 DEF Lockstep, AtRest
    <3>4. toHost = <<>>
      BY <3>2, <3>3, StreamIs
    <3>5. Stream' = out'
      BY <3>2, <3>4, Joined DEF Stream, LinkTypes, HostTypes, BoardTypes
    <3>6. CASE kind \notin {"zero", "body", "INFO", "RUN"}
      <4>1. Stream' = <<>>
        BY <3>1, <3>2, <3>5, <3>6
      <4>. QED
        BY <1>1, <1>a, <3>1, <3>3, <3>6, <4>1, HeardAsks DEF Lockstep
    <3>7. CASE kind \in {"zero", "body", "INFO", "RUN"}
      <4>1. host \in {"log", "seek"} /\ toBoard' = <<>> /\ board' = "prompt" /\ Answers(Stream')
        BY <3>1, <3>3, <3>5, <3>7, HeardAsks
      <4>. QED
        BY <1>1, <1>a, <4>1 DEF Lockstep, AtRest
    <3>. QED
      BY <3>6, <3>7
  <2>. QED
    BY <2>1, <2>2
<1>. QED
  BY <1>2, <1>3

\* and so does a host that never gives up waiting.
LEMMA LockHost ==
    ASSUME LinkAssumption, LinkTypes, LinkTypes', InOrder, SampleInv, missing = {}, ~slow,
           Lockstep, Host
    PROVE  Lockstep'
<1>0. /\ UNCHANGED <<board, out>> /\ Visited \in Nat /\ Len(Script) = Visited + 4
      /\ step \in Nat /\ toBoard \in Seq(BoardTokens)
  BY HostFootprint, ScriptLength DEF LinkTypes, HostTypes, BoardTypes
<1>a. Attended
  BY StreamIs DEF Lockstep, Attended, Over, AsksNothing
<1>1. CASE OpenPort \/ KnockAgain
  <2>1. host \in {"closed", "knock"} /\ host' = "knock" /\ SendToken(Token("one"))
    BY <1>1 DEF OpenPort, KnockAgain, hostVars, Send
  <2>2. Token("one") \in BoardTokens /\ Kind(Token("one")) = "one"
    BY DEF Token, Kind, BoardTokens
  <2>3. Delivered(Token("one")) /\ AsksNothing(toBoard)
    BY <1>a, <2>1, <2>2, HostDelivers DEF Attended, InOrder, Lockstep, Over
  <2>4. AsksNothing(toBoard')
    <3>1. CASE board = "off"
      BY <2>3, <3>1 DEF Delivered
    <3>2. CASE board # "off"
      BY <2>2, <2>3, <3>2, SentAsks
    <3>. QED
      BY <3>1, <3>2
  <2>. QED
    BY <2>1, <2>4 DEF Lockstep
<1>c. CASE ClosePort
  <2>1. host = "exit" /\ host' \in {"closed", "done"} /\ toBoard' = toBoard
    BY <1>c DEF ClosePort
  <2>. QED
    BY <2>1 DEF Lockstep, Over, AsksNothing
<1>2. CASE HandshakeDone
  <2>1. /\ toHost # <<>> /\ Kind(Head(toHost)) = "one" /\ Receive /\ host' = "log"
        /\ SendToken(Token("zero")) /\ toHost \in Seq(HostTokens)
    BY <1>2 DEF HandshakeDone, Send, LinkTypes, HostTypes
  <2>2. 1 \in DOMAIN toHost /\ Kind(toHost[1]) = "one" /\ Len(toHost) \in Nat
        /\ Len(toHost') = Len(toHost) - 1 /\ toHost' \in Seq(HostTokens)
    BY <2>1, Received, ReceiveTypes
  <2>3. /\ out = <<>> /\ 1 = Len(toHost) /\ board = "greeted" /\ Knocks(toBoard)
    BY <2>2 DEF InOrder, Greeted, Greeting
  <2>4. Stream' = <<>>
    <3>1. Len(toHost') = 0
      BY <2>2, <2>3
    <3>2. toHost' = <<>> /\ out' = <<>>
      BY <1>0, <2>2, <2>3, <3>1
    <3>. QED
      BY <3>2 DEF Stream
  <2>5. AsksNothing(toBoard)
    BY <2>3 DEF Knocks, AsksNothing
  <2>6. Token("zero") \in BoardTokens /\ Kind(Token("zero")) = "zero"
    BY DEF Token, Kind, BoardTokens
  <2>7. Asks(toBoard')
    BY <2>1, <2>3, <2>5, <2>6, KnocksHeard, SentAsks
  <2>8. ~Over'
    <3>1. step' = 0 /\ Len(Script) # 0
      BY <1>0, <1>2 DEF HandshakeDone, LinkTypes, Places
    <3>. QED
      BY <2>1, <3>1 DEF Over
  <2>. QED
    BY <2>1, <2>4, <2>7, <2>8 DEF Lockstep
<1>3. CASE LogByte \/ LogEnds
  <2>1. /\ host = "log" /\ toHost # <<>> /\ Receive /\ UNCHANGED <<step, toBoard>>
        /\ \/ host' = "log" /\ Kind(Head(toHost)) # "nul"
           \/ host' = AfterLog /\ Kind(Head(toHost)) = "nul"
    BY <1>3 DEF LogByte, LogEnds
  <2>2. Reads /\ Stream[1] = Head(toHost)
    BY <1>0, <2>1, HostReads
  <2>3. CASE step < Len(Script)
    <3>1. AtRest /\ Answers(Stream)
      BY <2>1, <2>2, <2>3, StreamIs DEF Lockstep, Reads
    <3>2. AtRest'
      BY <1>0, <2>1, <3>1 DEF AtRest
    <3>3. /\ Kind(Head(toHost)) # "nul" => Answers(Stream')
          /\ Kind(Head(toHost)) = "nul" => Stream' = <<>>
      BY <2>2, <3>1, AnswersRead
    <3>. QED
      BY <1>0, <2>1, <2>3, <3>2, <3>3 DEF Lockstep, AfterLog, Over
  <2>4. CASE ~(step < Len(Script))
    <3>1. Over
      BY <1>0, <2>1, <2>4 DEF Over, LinkTypes, HostTypes
    <3>2. AsksNothing(toBoard')
      BY <2>1, <3>1 DEF Lockstep
    <3>. QED
      BY <2>1, <2>4, <3>2 DEF Lockstep, AfterLog
  <2>. QED
    BY <2>3, <2>4
<1>4. CASE LogTimesOut
  <2>1. /\ host = "log" /\ host' = AfterLog /\ toHost = <<>> /\ out = <<>> /\ toBoard = <<>>
        /\ step' = step
    BY <1>4 DEF LogTimesOut, TimesOut, BoardQuiet
  <2>2. Stream = <<>>
    BY <2>1, StreamIs
  <2>3. ~(step < Len(Script))
    BY <2>1, <2>2 DEF Lockstep, Asks, Answers
  <2>4. toBoard' = <<>>
    BY <1>4, <2>1 DEF LogTimesOut
  <2>. QED
    BY <2>1, <2>3, <2>4 DEF Lockstep, AfterLog, AsksNothing
<1>5. CASE SkipCore
  <2>1. host = "send" /\ UNCHANGED <<host, toBoard, toHost>>
    BY <1>5 DEF SkipCore
  <2>. QED
    BY <1>0, <2>1 DEF Lockstep, AtRest, Stream, Over
<1>6. CASE SendCommand
  <2>. DEFINE n == step + 1
              c == Script[n][1]
  <2>1. /\ n \in 1..Len(Script) /\ step' = n /\ host = "send" /\ SendToken(Token(c))
        /\ toHost' = toHost
        /\ host' = CASE c \in {"MMU", "LOAD"} -> "hdr"
                     [] c = "RUN" -> "seek"
                     [] OTHER -> "log"
    BY <1>0, <1>6 DEF SendCommand, LinkTypes, Places, Send
  <2>2. /\ c \in Commands /\ (c = "RESET" <=> n = Visited + 4)
    BY <2>1, ScriptCommands
  <2>. HIDE DEF n, c
  <2>3. AtRest /\ Stream = <<>>
    BY <2>1 DEF Lockstep
  <2>4. Stream' = <<>>
    BY <1>0, <2>1, <2>3 DEF Stream
  <2>5. AsksNothing(toBoard) /\ board # "off"
    BY <2>3 DEF AtRest, AsksNothing
  <2>6. Token(c) \in BoardTokens /\ Kind(Token(c)) = c
    BY <2>2 DEF Token, Kind, BoardTokens
  <2>a. Delivered(Token(c))
    BY <1>a, <2>1, HostDelivers DEF Attended, InOrder
  <2>7. /\ c \in {"INFO", "RUN"} => Asks(toBoard')
        /\ c \in {"MMU", "LOAD", "RESET"} => AsksNothing(toBoard')
    BY <2>5, <2>6, <2>a, SentAsks
  <2>8. c = "RESET" => ~(step' < Len(Script))
    BY <1>0, <2>1, <2>2
  <2>9. \/ host' = "hdr" /\ c \in {"MMU", "LOAD"}
        \/ host' = "seek" /\ c = "RUN"
        \/ host' = "log" /\ c \in {"INFO", "RESET"}
    BY <2>1, <2>2 DEF Commands
  <2>b. Over' => c = "RESET"
    <3>1. c # "RESET" => step' # Len(Script)
      BY <1>0, <2>1, <2>2
    <3>. QED
      BY <2>9, <3>1 DEF Over
  <2>. QED
    BY <2>4, <2>7, <2>8, <2>9, <2>b DEF Lockstep
<1>7. CASE SendImage
  <2>. DEFINE token == <<host, Script[step][2]>>
  <2>1. /\ host \in {"hdr", "body"} /\ SendToken(token) /\ toHost' = toHost
        /\ host' = IF host = "hdr" THEN "body" ELSE "log"
        /\ step \in 1..Len(Script) /\ step <= Visited + 1
    BY <1>0, <1>7 DEF SendImage, LinkTypes, Places
  <2>2. token \in BoardTokens /\ Kind(token) = host
    BY <2>1, ScriptCommands DEF Kind, BoardTokens
  <2>. HIDE DEF token
  <2>3. AsksNothing(toBoard) /\ Stream = <<>> /\ Session
    BY <1>0, <2>1 DEF Lockstep, Session
  <2>4. Stream' = <<>>
    BY <1>0, <2>1, <2>3 DEF Stream
  <2>5. board # "off"
    BY <2>3, SessionAdmits
  <2>a. Delivered(token)
    BY <1>a, <2>1, HostDelivers DEF Attended, InOrder
  <2>6. /\ host = "body" => Asks(toBoard')
        /\ host = "hdr" => AsksNothing(toBoard')
    BY <2>1, <2>2, <2>3, <2>5, <2>a, SentAsks
  <2>7. ~Over'
    <3>1. step' = step /\ step # Len(Script)
      BY <1>0, <1>7, <2>1 DEF SendImage
    <3>. QED
      BY <2>1, <3>1 DEF Over
  <2>. QED
    BY <2>1, <2>4, <2>6, <2>7 DEF Lockstep
<1>8. CASE SkipImage
  BY <1>8 DEF SkipImage
<1>b. ASSUME ReadLine \/ LineTimesOut PROVE ~Over'
  <2>1. host' \in {"seek", "collect", "log"} /\ step' = step /\ host \in {"seek", "collect"}
    BY <1>b DEF ReadLine, LineTimesOut, ProcessLine
  <2>2. step # Len(Script)
    BY <1>0, <2>1 DEF LinkTypes, Places
  <2>. QED
    BY <2>1, <2>2 DEF Over
<1>9. CASE host = "collect" /\ ReadLine
  <2>1. PICK p \in 2..Length : Collects(p)
    BY <1>9 DEF SampleInv
  <2>2. /\ toHost # <<>> /\ Receive /\ UNCHANGED toBoard /\ host' \in {"collect", "log"}
    BY <1>9 DEF ReadLine, ProcessLine
  <2>3. Reads /\ Stream[1] = Head(toHost) /\ Len(Stream) \in Nat
    BY <1>0, <2>2, HostReads, StreamIs
  <2>4. Stream[1] = Benchmark[p]
    <3>1. 0 \in 0..(Length - p) /\ 1 + 0 <= Len(Stream) /\ 1 + 0 = 1 /\ p + 0 = p
      <4>1. Length \in Nat
        BY BenchmarkIs
      <4>. QED
        BY <2>3, <4>1 DEF Reads
    <3>2. Stream[1 + 0] = Benchmark[p + 0]
      BY <2>1, <3>1 DEF Collects, Follows
    <3>. QED
      BY <3>1, <3>2
  <2>5. Kind(Stream[1]) # "nul"
    <3>1. p \in 1..Len(Benchmark)
      <4>1. Length \in Nat /\ Len(Benchmark) = Length
        BY BenchmarkIs
      <4>. QED
        BY <4>1
    <3>. QED
      BY <2>4, <3>1, BenchmarkSaysNoMore
  <2>6. AtRest /\ Answers(Stream)
    BY <1>9 DEF Lockstep
  <2>7. AtRest' /\ Answers(Stream')
    BY <1>0, <2>2, <2>3, <2>5, <2>6, AnswersRead DEF AtRest
  <2>. QED
    BY <1>9, <1>b, <2>2, <2>7 DEF Lockstep
<1>10. CASE host = "collect" /\ LineTimesOut
  <2>1. toHost = <<>> /\ out = <<>>
    BY <1>10 DEF LineTimesOut, TimesOut, BoardQuiet
  <2>. QED
    BY <1>10, <2>1, StreamIs DEF Lockstep, Answers
<1>11. CASE host = "seek" /\ LineTimesOut
  <2>1. UNCHANGED <<toBoard, toHost>> /\ host' = "seek"
    <3>1. line # <<>> => Kind(line[1]) # "dollar"
      BY DEF LinkTypes, HostTypes, Places, EndsLine
    <3>. QED
      BY <1>11, <3>1 DEF LineTimesOut, ProcessLine
  <2>. QED
    BY <1>0, <1>11, <1>b, <2>1 DEF Lockstep, AtRest, Stream
<1>12. CASE host = "seek" /\ ReadLine
  <2>1. /\ toHost # <<>> /\ Receive /\ UNCHANGED toBoard /\ host' \in {"seek", "collect"}
    BY <1>12 DEF ReadLine, ProcessLine
  <2>2. Reads /\ Stream[1] = Head(toHost) /\ Stream # <<>>
    BY <1>0, <2>1, HostReads, StreamIs
  <2>3. AtRest /\ (Starts(Stream) => Answers(Stream))
    BY <1>12, <2>2 DEF Lockstep
  <2>4. AtRest'
    BY <1>0, <2>1, <2>3 DEF AtRest
  <2>5. /\ DOMAIN Stream = 1..Len(Stream) /\ Len(Stream) \in Nat
        /\ Stream' \in Seq(HostTokens) /\ DOMAIN Stream' = 1..Len(Stream')
        /\ Len(Stream') = Len(Stream) - 1 /\ Len(Stream) > 0
        /\ \A k \in 1..(Len(Stream) - 1) : Stream'[k] = Stream[k + 1]
    BY <2>2, StreamIs, Joined DEF LinkTypes, HostTypes, BoardTypes, Stream, Reads
  <2>6. ASSUME Starts(Stream') PROVE Answers(Stream')
    <3>1. PICK k \in 1..(Len(Stream) - 1) : Kind(Stream'[k]) = "dollar"
      BY <2>5, <2>6 DEF Starts
    <3>2. k + 1 \in DOMAIN Stream /\ Kind(Stream[k + 1]) = "dollar"
      BY <2>5, <3>1
    <3>3. Answers(Stream)
      BY <2>3, <3>2 DEF Starts
    <3>4. 1 \in DOMAIN Stream /\ 1 # Len(Stream)
      BY <2>5, <3>1
    <3>5. Kind(Stream[1]) # "nul"
      BY <3>3, <3>4 DEF Answers
    <3>. QED
      BY <2>2, <3>3, <3>5, AnswersRead
  <2>7. ASSUME host' = "collect" PROVE Answers(Stream')
    <3>. DEFINE tok == Head(toHost)
                ln == Append(line, tok)
    <3>1. Kind(tok) = "dollar"
      <4>1. /\ EndsLine(tok) /\ ProcessLine(ln) /\ tok \in HostTokens
            /\ line \in Seq(HostTokens)
        BY <1>12, <2>7, ReceiveTypes DEF ReadLine, LinkTypes, HostTypes
      <4>2. ln # <<>> /\ Kind(ln[1]) = "dollar"
        BY <1>12, <2>7, <4>1 DEF ProcessLine
      <4>3. CASE line = <<>>
        <5>1. ln = <<tok>>
          BY <4>1, <4>3
        <5>. QED
          BY <4>2, <5>1
      <4>4. CASE line # <<>>
        <5>1. 1 \in DOMAIN line /\ ln[1] = line[1]
          BY <4>1, <4>4
        <5>. QED
          BY <4>2, <5>1 DEF LinkTypes, Places, EndsLine
      <4>. QED
        BY <4>3, <4>4
    <3>. HIDE DEF tok, ln
    <3>2. Kind(Stream[1]) = "dollar" /\ 1 \in DOMAIN Stream
      BY <2>2, <2>5, <3>1 DEF tok
    <3>3. Answers(Stream)
      BY <2>3, <3>2 DEF Starts
    <3>. QED
      BY <2>2, <3>2, <3>3, AnswersRead
  <2>. QED
    BY <1>12, <1>b, <2>1, <2>4, <2>6, <2>7 DEF Lockstep
<1>13. ReadLine \/ LineTimesOut => host \in {"seek", "collect"}
  BY DEF ReadLine, LineTimesOut
<1>. QED
  BY <1>1, <1>2, <1>3, <1>4, <1>5, <1>6, <1>7, <1>8, <1>9, <1>10, <1>11, <1>12, <1>13, <1>c DEF Host

\* The lockstep, and with it the order of the line, is an invariant of an undisturbed
\* run with a board in time.
LEMMA LockHolds == Spec => []LockInv
<1>. USE LinkAssumption
<1>1. Init => LockInv
  <2>. SUFFICES ASSUME Init PROVE ~fooled /\ InOrder /\ Lockstep
    BY DEF LockInv
  <2>1. Awaits = {"one"} /\ Admitted = {"one"}
    BY DEF Init, Awaits, Admitted
  <2>2. ~fooled /\ Lockstep
    BY DEF Init, Lockstep, AsksNothing
  <2>3. InOrder
    BY <2>1, NoGreeting
    DEF Init, InOrder, Left, Right, Greeted, Restart, Chained, Unscathed, Over, Knocks, Spent
  <2>. QED
    BY <2>2, <2>3
<1>2. LinkTypes /\ LinkTypes' /\ HostInv /\ LockInv /\ [Next]_vars => LockInv'
  <2>. SUFFICES ASSUME LinkTypes, LinkTypes', HostInv, LockInv, [Next]_vars,
                       Undisturbed', ~slow'
                PROVE  ~fooled' /\ InOrder' /\ Lockstep'
    BY DEF LockInv
  <2>1. CASE Next
    <3>1. Undisturbed /\ (Host \/ Board)
      BY <2>1, UndisturbedBefore
    <3>2. ~slow /\ missing = {}
      BY <3>1, HostFootprint, BoardFootprint DEF Undisturbed
    <3>3. ~fooled /\ InOrder /\ Lockstep
      BY <3>1, <3>2 DEF LockInv
    <3>4. SampleInv
      BY <3>3 DEF HostInv
    <3>5. Attended
      BY <3>3, StreamIs DEF Lockstep, Attended, Over, AsksNothing
    <3>6. ~TakeForHandshake
      BY <3>3, NotFooled DEF InOrder
    <3>7. ~fooled'
      BY <3>1, <3>3, <3>6, HostFootprint, BoardFootprint
    <3>8. InOrder'
      BY <3>1, <3>2, <3>3, <3>5, OrderHost, OrderBoard
    <3>9. Lockstep'
      BY <3>1, <3>2, <3>3, <3>4, LockHost, LockBoard
    <3>. QED
      BY <3>7, <3>8, <3>9
  <2>2. CASE UNCHANGED vars
    <3>1. Undisturbed /\ ~slow /\ fooled' = fooled
      BY <2>2 DEF vars, fixed, Undisturbed
    <3>0. Undisturbed /\ ~slow => ~fooled /\ InOrder /\ Lockstep
      BY DEF LockInv
    <3>2. ~fooled /\ InOrder /\ Lockstep
      BY <3>0, <3>1, Zenon
    <3>5. UNCHANGED <<host, step, board, eaten, out, toBoard, toHost>>
      BY <2>2 DEF vars, hostVars, boardVars
    <3>6. Left' /\ Right'
      BY <3>2, <3>5, LineUntouched DEF InOrder, Right, Over
    <3>7. Greeted' /\ Restart'
      BY <3>2, <3>5 DEF InOrder, Greeted, Restart, Greeting, Knocks, Spent, Kind
    <3>3. InOrder'
      BY <3>6, <3>7 DEF InOrder
    <3>4. Lockstep'
      BY <2>2, <3>2 DEF vars, hostVars, boardVars, Lockstep, AtRest, Stream, Over, AsksNothing
    <3>. QED
      BY <3>1, <3>2, <3>3, <3>4
  <2>. QED
    BY <2>1, <2>2
<1>. QED
  BY <1>1, <1>2, LinkTypesHold, SamplesAreKept, PTL DEF Spec

\* Before each command of an undisturbed run the two sides agree, if the board
\* answers within the second: what the host has sent asks for one answer, and the
\* host goes on at its last byte and not before.
THEOREM StaysInStep == Spec => []InStep
<1>1. LinkTypes /\ LockInv => InStep
  BY StreamIs DEF LockInv, Lockstep, InStep, AtRest
<1>. QED
  BY <1>1, LinkTypesHold, LockHolds, PTL

\* Where the loop over the cores reaches every configured core, each has its
\* image while the samples come in from a board that answers in time: the sections
\* of an image are sent to a board that has nothing left to print.
THEOREM CoresAreLoaded ==
    ASSUME Reached
    PROVE  Spec => []CoresLoaded
<1>. USE LinkAssumption
<1>1. Init => ImagesInv
  BY DEF Init, ImagesInv, SentComing, RunsLast, ReadReady, Session
<1>2. LinkTypes /\ LinkTypes' /\ LockInv /\ ImagesInv /\ [Next]_vars => ImagesInv'
  <2>. SUFFICES ASSUME LinkTypes, LinkTypes', LockInv, ImagesInv, [Next]_vars,
                       Undisturbed', ~slow'
                PROVE  SentComing' /\ RunsLast' /\ ReadReady'
    BY DEF ImagesInv
  <2>1. CASE Next
    <3>1. Undisturbed /\ (Host \/ Board)
      BY <2>1, UndisturbedBefore
    <3>0. ~slow
      BY <3>1, HostFootprint, BoardFootprint
    <3>2. InOrder /\ Lockstep /\ SentComing /\ RunsLast /\ ReadReady
      BY <3>0, <3>1 DEF LockInv, ImagesInv
    <3>3. Attended
      BY <3>2, StreamIs DEF Lockstep, Attended, Over, AsksNothing
    <3>. QED
      BY <3>0, <3>1, <3>2, <3>3, ImagesHost, ImagesBoard
  <2>2. CASE UNCHANGED vars
    <3>1. Undisturbed /\ ~slow /\ SentComing /\ RunsLast /\ ReadReady
      BY <2>2 DEF vars, fixed, Undisturbed, ImagesInv
    <3>2. (Session' <=> Session) /\ UNCHANGED <<toBoard, board, image, loaded, out, toHost, host>>
      BY <2>2 DEF vars, hostVars, boardVars, Session
    <3>3. SentComing' /\ RunsLast'
      BY <2>2, <3>1, <3>2, LineKeepsImages DEF vars, hostVars
    <3>4. ReadReady'
      BY <3>1, <3>2, ReadKeepsReady DEF ReadReady
    <3>. QED
      BY <3>3, <3>4
  <2>. QED
    BY <2>1, <2>2
<1>3. ImagesInv => CoresLoaded
  <2>1. \A c \in 0..(Cores - 1) : Configured(c) => c \in Loading
    BY DEF Reached, Loading
  <2>. QED
    BY <2>1 DEF ImagesInv, ReadReady, CoresLoaded
<1>. QED
  BY <1>1, <1>2, <1>3, LinkTypesHold, LockHolds, PTL DEF Spec

------------------------------------------------------------------------------
(* A firmware that has just started, whatever was left in the line.         *)

Knocking(s) == \A k \in DOMAIN s : Kind(s[k]) \in {"one", "zero"}
\* A firmware that has started, and was knocked at.
Young == board = "greeted" \/ (board = "hello" /\ Greeting(toBoard))
\* With a board that answers in time the host does not go on before it does,
Patient ==
    /\ Young => \/ host \in {"closed", "knock", "done"}
                \/ /\ host = "log" /\ step = 0 /\ Knocks(Stream)
                   /\ toBoard # <<>> /\ Kind(toBoard[Len(toBoard)]) = "zero"
    /\ Young /\ host = "knock" /\ Answered => Knocks(Stream)
    \* so it has sent no command that the firmware could take.
    /\ board = "greeted" => Knocking(toBoard)
    /\ board = "hello" =>
          \A k, m \in DOMAIN toBoard :
              k < m /\ Kind(toBoard[k]) = "one" => Kind(toBoard[m]) \in {"one", "zero"}
    \* A firmware that prints nothing yet has lost nothing of what was sent to it.
    /\ board \in {"hello", "greeted"} => Unscathed(toBoard)
\* The memory is cleared before the firmware starts,
Unused == board \in {"off", "hello", "greeted", "reset"} => loaded = {}
\* and is still clear when the host has its answer.
Untouched ==
    (host \in {"log", "send"} /\ step = 0) \/ (host = "knock" /\ Greeting(Stream)) =>
        /\ loaded = {}
        /\ board = "hello" \/ (board \in {"off", "greeted", "prompt"} /\ Knocking(toBoard))
CleanInv == ~fooled =>
    /\ Unused /\ (~slow => Patient) /\ (faults = 0 => Orderly)
    /\ (slow => faults = 0) => Untouched

\* A firmware that nobody has knocked at need not be waited for.
LEMMA NotYoung ==
    ASSUME ~Young', (board \in {"hello", "greeted"} => Unscathed(toBoard))'
    PROVE  Patient'
BY DEF Patient, Young, Greeting

\* A host that does not give up waits for the firmware,
LEMMA PatientHost ==
    ASSUME LinkAssumption, LinkTypes, LinkTypes', HandshakeInv, Patient, ~slow, Host
    PROVE  Patient'
<1>1. UNCHANGED <<board, out>> /\ (Young => board # "off")
  BY HostFootprint DEF Young
<1>2. /\ Kind(Token("one")) = "one" /\ Kind(Token("zero")) = "zero"
      /\ Token("one") \in BoardTokens /\ Token("zero") \in BoardTokens
  BY DEF Token, Kind, BoardTokens
<1>d. ASSUME NEW token \in BoardTokens, SendToken(token), board \in {"hello", "greeted"},
             \/ out = <<>>
             \/ Kind(token) # "body" /\ Knocking(toBoard)
      PROVE  Delivered(token)
  <2>1. Unscathed(toBoard)
    BY <1>d DEF Patient
  <2>. QED
    BY <1>d, <2>1, SentLine DEF Unheard, Overruns, Deaf, Unscathed, Knocking
<1>e. ASSUME NEW token, Delivered(token), Kind(token) # "scrap"
      PROVE  (board \in {"hello", "greeted"} => Unscathed(toBoard))'
  <2>1. ASSUME board \in {"hello", "greeted"}, NEW k \in DOMAIN toBoard'
        PROVE  Kind(toBoard'[k]) # "scrap"
    <3>1. (k \in DOMAIN toBoard /\ toBoard'[k] = toBoard[k]) \/ toBoard'[k] = token
      BY <1>e, <2>1, DeliveredRest
    <3>. QED
      BY <1>e, <2>1, <3>1 DEF Patient, Unscathed
  <2>. QED
    BY <1>1, <2>1 DEF Unscathed
<1>f. ASSUME UNCHANGED toBoard
      PROVE  (board \in {"hello", "greeted"} => Unscathed(toBoard))'
  BY <1>1, <1>f DEF Patient, Unscathed
\* A knock, or the 0x0 that ends the handshake, is not a command.
<1>g. ASSUME NEW token \in BoardTokens, SendToken(token), Kind(token) \in {"one", "zero"},
             board \in {"hello", "greeted"}
      PROVE  Delivered(token)
  <2>1. board = "hello" => out = <<>>
    BY DEF HandshakeInv, Fresh
  <2>2. board = "greeted" => Knocking(toBoard)
    BY DEF Patient
  <2>. QED
    BY <1>d, <1>g, <2>1, <2>2
<1>a. ASSUME NEW token \in BoardTokens, SendToken(token), Kind(token) \in {"one", "zero"}
      PROVE  /\ (board \in {"hello", "greeted"} => Unscathed(toBoard))'
             /\ board' = "greeted" => Knocking(toBoard')
             /\ board' = "hello" =>
                   \A k, m \in DOMAIN toBoard' :
                      k < m /\ Kind(toBoard'[k]) = "one" => Kind(toBoard'[m]) \in {"one", "zero"}
  <2>1. /\ board = "greeted" => Knocking(toBoard)
        /\ board = "hello" =>
              \A k, m \in DOMAIN toBoard :
                  k < m /\ Kind(toBoard[k]) = "one" => Kind(toBoard[m]) \in {"one", "zero"}
    BY DEF Patient
  <2>2. ASSUME board = "greeted", NEW k \in DOMAIN toBoard'
        PROVE  Kind(toBoard'[k]) \in {"one", "zero"}
    BY <1>a, <1>g, <2>1, <2>2, DeliveredRest DEF Knocking
  <2>3. ASSUME board = "hello", NEW k \in DOMAIN toBoard', NEW m \in DOMAIN toBoard',
               k < m, Kind(toBoard'[k]) = "one"
        PROVE  Kind(toBoard'[m]) \in {"one", "zero"}
    <3>0. Delivered(token)
      BY <1>a, <1>g, <2>3
    <3>1. k \in DOMAIN toBoard /\ toBoard'[k] = toBoard[k]
      BY <2>3, <3>0, DeliveredRest
    <3>2. CASE m \in DOMAIN toBoard /\ toBoard'[m] = toBoard[m]
      BY <2>1, <2>3, <3>1, <3>2
    <3>3. CASE toBoard'[m] = token
      BY <1>a, <3>3
    <3>. QED
      BY <2>3, <3>0, <3>2, <3>3, DeliveredRest
  <2>4. (board \in {"hello", "greeted"} => Unscathed(toBoard))'
    <3>1. CASE board \in {"hello", "greeted"}
      BY <1>a, <1>e, <1>g, <3>1
    <3>. QED
      BY <1>1, <3>1
  <2>. QED
    BY <1>1, <2>2, <2>3, <2>4 DEF Knocking
\* Before the first answer the stream is all of the firmware's.
<1>b. ASSUME toHost' = <<>>, Young' PROVE Knocks(Stream')
  <2>1. Stream' = out
    BY <1>1, <1>b, Joined DEF Stream, LinkTypes, HostTypes, BoardTypes
  <2>2. out \in {<<>>, <<Token("one")>>}
    BY <1>1, <1>b DEF Young, HandshakeInv, Fresh
  <2>. QED
    BY <1>2, <2>1, <2>2 DEF Knocks
<1>3. CASE OpenPort
  <2>1. host' = "knock" /\ SendToken(Token("one")) /\ toHost' = <<>>
    BY <1>3 DEF OpenPort, Send, HandshakeInv, Fresh
  <2>. QED
    BY <1>2, <1>a, <1>b, <2>1 DEF Patient
<1>4. CASE KnockAgain
  <2>1. host = "knock" /\ host' = "knock" /\ SendToken(Token("one"))
    BY <1>4 DEF KnockAgain, Send, hostVars
  <2>2. ASSUME Young', Answered' PROVE Knocks(Stream')
    <3>1. CASE toHost = <<>> /\ UNCHANGED toHost
      BY <1>b, <2>2, <3>1
    <3>2. CASE toHost # <<>> /\ Kind(Head(toHost)) # "one" /\ Receive
      <4>1. Reads /\ Stream[1] = Head(toHost) /\ ~Answered
        BY <1>1, <3>2, HostReads DEF Answered
      <4>2. ~ \E k, m \in DOMAIN Stream' :
                k < m /\ Kind(Stream'[k]) = "one" /\ Kind(Stream'[m]) # "one"
        BY <2>1, <4>1, ReadNoMore DEF HandshakeInv, Greets
      <4>3. DOMAIN Stream' = 1..Len(Stream') /\ Len(Stream') \in Nat
        BY Joined DEF LinkTypes, HostTypes, BoardTypes, Stream
      <4>4. ASSUME NEW k \in DOMAIN Stream' PROVE Kind(Stream'[k]) = "one"
        BY <2>2, <4>2, <4>3 DEF Answered
      <4>. QED
        BY <4>4 DEF Knocks
    <3>. QED
      BY <1>4, <3>1, <3>2 DEF KnockAgain
  <2>. QED
    BY <1>2, <1>a, <2>1, <2>2 DEF Patient
<1>5. CASE HandshakeDone
  <2>1. /\ host = "knock" /\ host' = "log" /\ step' = step /\ SendToken(Token("zero"))
        /\ toHost # <<>> /\ Receive /\ Kind(Head(toHost)) = "one"
    BY <1>5 DEF HandshakeDone, Send
  <2>2. Reads /\ Stream[1] = Head(toHost)
    BY <1>1, <2>1, HostReads
  <2>3. Answered /\ step = 0
    BY <2>1, <2>2 DEF Answered, Reads, LinkTypes, Places
  <2>4. Young' => Young
    <3>1. Token("zero") \in BoardTokens
      BY DEF Token, BoardTokens
    <3>. QED
      BY <1>1, <1>2, <2>1, <3>1, SentNoKnock DEF Young
  <2>5. ASSUME Young PROVE Knocks(Stream')
    <3>1. Knocks(Stream)
      BY <2>1, <2>3, <2>5 DEF Patient
    <3>. QED
      BY <2>2, <3>1, ReadKnocks
  <2>6. Young => toBoard' # <<>> /\ Kind(toBoard'[Len(toBoard')]) = "zero"
    <3>1. ASSUME Young PROVE Delivered(Token("zero")) /\ board # "off"
      BY <1>2, <1>g, <2>1, <3>1 DEF Young
    <3>. QED
      BY <1>2, <3>1, DeliveredRest
  <2>. QED
    BY <1>2, <1>a, <2>1, <2>3, <2>4, <2>5, <2>6 DEF Patient
<1>6. CASE LogByte \/ LogEnds
  <2>1. /\ host = "log" /\ toHost # <<>> /\ Receive /\ UNCHANGED <<step, toBoard>>
        /\ (LogByte /\ host' = "log") \/ (LogEnds /\ Kind(Head(toHost)) = "nul")
    BY <1>6 DEF LogByte, LogEnds
  <2>2. Reads /\ Stream[1] = Head(toHost)
    BY <1>1, <2>1, HostReads
  <2>3. (Young' <=> Young) /\ 1 \in DOMAIN Stream
    <3>1. 1 \in 1..Len(Stream)
      BY <2>2, StreamIs DEF Reads
    <3>. QED
      BY <1>1, <2>1, <3>1, StreamIs DEF Young
  <2>4. ASSUME Young PROVE Patient'
    <3>1. /\ step = 0 /\ Knocks(Stream)
          /\ toBoard # <<>> /\ Kind(toBoard[Len(toBoard)]) = "zero"
      BY <2>1, <2>4 DEF Patient
    <3>2. Knocks(Stream') /\ host' = "log"
      BY <2>1, <2>2, <2>3, <3>1, ReadKnocks DEF Knocks
    <3>. QED
      BY <1>1, <1>f, <2>1, <3>1, <3>2 DEF Patient, Knocking, Kind
  <2>. QED
    BY <1>f, <2>1, <2>3, <2>4, NotYoung
<1>7. CASE LogTimesOut
  <2>1. host = "log" /\ TimesOut /\ UNCHANGED toBoard
    BY <1>7 DEF LogTimesOut
  <2>2. toBoard = <<>>
    BY <2>1 DEF TimesOut, BoardQuiet
  <2>3. ~Young
    BY <2>1, <2>2 DEF Patient
  <2>4. ~Young'
    BY <1>1, <2>1, <2>3 DEF Young
  <2>. QED
    BY <1>f, <2>1, <2>4, NotYoung
<1>8. CASE SkipCore \/ SkipImage \/ ReadLine \/ LineTimesOut \/ ClosePort
  <2>1. host \notin {"closed", "knock", "done", "log"} /\ UNCHANGED toBoard
    BY <1>8 DEF SkipCore, SkipImage, ReadLine, LineTimesOut, ClosePort
  <2>2. ~Young'
    BY <1>1, <2>1 DEF Young, Patient
  <2>. QED
    BY <1>f, <2>1, <2>2, NotYoung
<1>9. CASE SendCommand \/ SendImage
  <2>1. host \notin {"closed", "knock", "done", "log"}
    BY <1>9 DEF SendCommand, SendImage
  <2>2. PICK token \in BoardTokens : SendToken(token) /\ Kind(token) \notin {"one", "scrap"}
    BY <1>9, SentByHost
  <2>3. ~Young'
    BY <1>1, <2>1, <2>2, SentNoKnock DEF Young, Patient
  <2>4. board # "greeted"
    BY <2>1 DEF Patient, Young
  <2>5. (board \in {"hello", "greeted"} => Unscathed(toBoard))'
    <3>1. CASE board = "hello"
      <4>1. out = <<>>
        BY <3>1 DEF HandshakeInv, Fresh
      <4>2. Delivered(token)
        BY <1>d, <2>2, <3>1, <4>1
      <4>. QED
        BY <1>e, <2>2, <4>2
    <3>2. CASE board # "hello"
      BY <1>1, <2>4, <3>2
    <3>. QED
      BY <3>1, <3>2
  <2>. QED
    BY <2>3, <2>5, NotYoung
<1>. QED
  BY <1>3, <1>4, <1>5, <1>6, <1>7, <1>8, <1>9 DEF Host

\* which goes on when it has heard from the host.
LEMMA PatientBoard ==
    ASSUME LinkAssumption, LinkTypes, LinkTypes', HandshakeInv, Patient,
           (Board /\ ~TakeForHandshake) \/ PowerCycle
    PROVE  Patient'
<1>1. UNCHANGED <<host, step>>
  BY BoardFootprint DEF PowerCycle, hostVars
<1>2. Kind(Token("one")) = "one"
  BY DEF Token, Kind
<1>3. CASE Boot \/ ChipResets \/ PowerCycle
  <2>1. board' # "greeted" /\ toBoard' = <<>>
    BY <1>3 DEF Boot, ChipResets, PowerCycle, HandshakeInv, Fresh
  <2>. QED
    BY <2>1, NotYoung DEF Young, Greeting, Unscathed
<1>4. CASE board = "hello" /\ Greet
  <2>1. /\ Hears("one") /\ board' = "greeted" /\ out' = <<Token("one")>> /\ out = <<>>
        /\ toHost' = toHost
    BY <1>4 DEF Greet, Hears, Takes
  <2>2. /\ Kind(toBoard[1]) = "one" /\ 1 \in DOMAIN toBoard /\ Len(toBoard) \in Nat
        /\ DOMAIN toBoard = 1..Len(toBoard)
        /\ toBoard' # <<>> => toBoard'[Len(toBoard')] = toBoard[Len(toBoard)]
        /\ toBoard' = <<>> => Len(toBoard) = 1
    BY <2>1, HeardRest
  <2>3. Young
    BY <1>4, <2>2 DEF Young, Greeting
  <2>4. Knocks(Stream) => Knocks(Stream')
    <3>1. Prints
      BY <2>1, BoardPrints
    <3>2. /\ Len(Stream') = Len(Stream) + 1 /\ Len(Stream) \in Nat
          /\ DOMAIN Stream = 1..Len(Stream) /\ DOMAIN Stream' = 1..Len(Stream')
          /\ Stream'[Len(Stream) + 1] = Token("one")
      <4>1. Len(out') = 1 /\ out'[1] = Token("one") /\ 1 \in 1..1
        BY <2>1
      <4>2. Len(Stream) \in Nat /\ DOMAIN Stream = 1..Len(Stream) /\ DOMAIN Stream' = 1..Len(Stream')
        BY StreamIs, Joined DEF LinkTypes, HostTypes, BoardTypes, Stream
      <4>. QED
        BY <3>1, <4>1, <4>2 DEF Prints
    <3>3. ASSUME Knocks(Stream), NEW k \in DOMAIN Stream' PROVE Kind(Stream'[k]) = "one"
      <4>1. CASE k = Len(Stream) + 1
        BY <1>2, <3>2, <4>1
      <4>2. CASE k # Len(Stream) + 1
        <5>1. k \in DOMAIN Stream
          BY <3>2, <3>3, <4>2
        <5>. QED
          BY <3>1, <3>2, <3>3, <5>1 DEF Prints, Knocks
      <4>. QED
        BY <4>1, <4>2
    <3>. QED
      BY <3>3 DEF Knocks
  <2>5. \/ host \in {"closed", "knock", "done"}
        \/ /\ host = "log" /\ step = 0 /\ Knocks(Stream)
           /\ toBoard # <<>> /\ Kind(toBoard[Len(toBoard)]) = "zero"
    BY <2>3 DEF Patient
  <2>6. Kind(toBoard[Len(toBoard)]) = "zero" =>
            toBoard' # <<>> /\ Kind(toBoard'[Len(toBoard')]) = "zero"
    BY <2>2
  <2>7. ASSUME host = "knock", Answered' PROVE Knocks(Stream')
    <3>1. CASE Stream = <<>>
      BY <2>4, <3>1 DEF Knocks
    <3>2. CASE Stream # <<>>
      <4>1. Prints /\ 1 \in 1..Len(Stream)
        BY <2>1, <3>2, BoardPrints, StreamIs
      <4>2. Answered
        BY <2>7, <3>2, <4>1 DEF Answered, Prints
      <4>. QED
        BY <2>3, <2>4, <2>7, <4>2 DEF Patient
    <3>. QED
      BY <3>1, <3>2
  <2>8. Knocking(toBoard')
    <3>1. ASSUME NEW k \in DOMAIN toBoard' PROVE Kind(toBoard'[k]) \in {"one", "zero"}
      <4>1. k + 1 \in DOMAIN toBoard /\ toBoard'[k] = toBoard[k + 1] /\ 1 < k + 1
        <5>1. k \in 1..(Len(toBoard) - 1)
          BY <2>1, <3>1, Heard DEF LinkTypes, BoardTypes
        <5>. QED
          BY <2>1, <2>2, <3>1, <5>1, HeardRest
      <4>. QED
        BY <1>4, <2>2, <4>1 DEF Patient
    <3>. QED
      BY <3>1 DEF Knocking
  <2>9. Unscathed(toBoard')
    BY <1>4, <2>1, HeardRest DEF Patient, Unscathed
  <2>. QED
    BY <1>1, <2>1, <2>4, <2>5, <2>6, <2>7, <2>8, <2>9 DEF Patient, Kind
<1>5. CASE board = "greeted" /\ Greet
  <2>1. board' = "prompt"
    BY <1>5 DEF Greet
  <2>. QED
    BY <2>1, NotYoung DEF Young
<1>6. CASE Ignore
  <2>1. PICK kind : /\ Hears(kind)
                    /\ board = "greeted" => kind # "zero"
                    /\ board = "hello" \/ board = "greeted"
    BY <1>6 DEF Ignore
  <2>2. UNCHANGED <<board, out, toHost>>
    BY <1>6, <2>1 DEF Ignore, boardVars, Hears, Takes
  <2>3. Stream' = Stream
    BY <2>2 DEF Stream
  <2>4. Greeting(toBoard') => Greeting(toBoard) /\ toBoard' # <<>>
    BY <2>1, HeardRest DEF Greeting
  <2>5. ASSUME Young', host = "log", Kind(toBoard[Len(toBoard)]) = "zero"
        PROVE  toBoard' # <<>> /\ Kind(toBoard'[Len(toBoard')]) = "zero"
    <3>1. toBoard' # <<>>
      BY <2>1, <2>2, <2>4, <2>5, HeardRest DEF Young
    <3>. QED
      BY <2>1, <2>5, <3>1, HeardRest
  <2>6. board = "greeted" => Knocking(toBoard')
    BY <2>1, HeardRest DEF Patient, Knocking
  <2>7. ASSUME board = "hello", NEW k \in DOMAIN toBoard', NEW m \in DOMAIN toBoard',
               k < m, Kind(toBoard'[k]) = "one"
        PROVE  Kind(toBoard'[m]) \in {"one", "zero"}
    <3>1. /\ k + 1 \in DOMAIN toBoard /\ toBoard'[k] = toBoard[k + 1]
          /\ m + 1 \in DOMAIN toBoard /\ toBoard'[m] = toBoard[m + 1]
      BY <2>1, <2>7, HeardRest
    <3>2. k + 1 < m + 1
      <4>1. k \in Nat /\ m \in Nat
        BY <2>1, <2>7, Heard DEF LinkTypes, BoardTypes
      <4>. QED
        BY <2>7, <4>1
    <3>. QED
      BY <2>7, <3>1, <3>2 DEF Patient
  <2>8. Young' => Young
    BY <2>2, <2>4 DEF Young
  <2>9. Young' => \/ host \in {"closed", "knock", "done"}
                  \/ /\ host = "log" /\ step = 0 /\ Knocks(Stream)
                     /\ toBoard' # <<>> /\ Kind(toBoard'[Len(toBoard')]) = "zero"
    BY <2>5, <2>8 DEF Patient
  <2>10. Young' /\ host = "knock" /\ Answered => Knocks(Stream)
    BY <2>8 DEF Patient
  <2>11. Unscathed(toBoard')
    BY <2>1, HeardRest DEF Patient, Unscathed
  <2>. QED
    BY <1>1, <2>2, <2>3, <2>6, <2>7, <2>9, <2>10, <2>11 DEF Patient, Answered, Kind
<1>7. CASE Board /\ ~TakeForHandshake /\ ~Boot /\ ~Greet /\ ~Ignore /\ ~ChipResets
           /\ ~Transmit
  BY <1>7, PastHandshake, NotYoung DEF Young
<1>8. CASE Transmit
  <2>1. UNCHANGED <<board, toBoard>>
    BY <1>8 DEF Transmit
  <2>2. host \in {"closed", "done"} \/ Stream' = Stream
    BY <1>8, BoardTransmits
  <2>3. Young' <=> Young
    BY <2>1 DEF Young
  <2>4. /\ board' = "greeted" => Knocking(toBoard')
        /\ board' = "hello" =>
              \A k, m \in DOMAIN toBoard' :
                  k < m /\ Kind(toBoard'[k]) = "one" => Kind(toBoard'[m]) \in {"one", "zero"}
    BY <2>1 DEF Patient, Knocking, Kind
  <2>7. (board \in {"hello", "greeted"} => Unscathed(toBoard))'
    BY <2>1 DEF Patient, Unscathed, Kind
  <2>5. CASE host \in {"closed", "done"}
    BY <1>1, <2>4, <2>5, <2>7 DEF Patient
  <2>6. CASE Stream' = Stream
    BY <1>1, <2>1, <2>3, <2>4, <2>6, <2>7 DEF Patient, Answered, Kind
  <2>. QED
    BY <2>2, <2>5, <2>6
<1>9. CASE Greet
  BY <1>4, <1>5, <1>9 DEF Greet
<1>. QED
  BY <1>3, <1>6, <1>7, <1>8, <1>9

\* No image is loaded before the firmware is at its prompt.
LEMMA UnusedBoard ==
    ASSUME Unused, (Board /\ ~TakeForHandshake) \/ PowerCycle
    PROVE  Unused'
<1>1. CASE Boot \/ Greet \/ Ignore \/ Gather \/ MissCommand \/ AskImage
  BY <1>1 DEF Boot, Greet, Ignore, Gather, MissCommand, AskImage, AtPrompt, boardVars, Unused
<1>2. CASE TakeImage \/ TakeFalseHeader \/ TakeGarbage
  BY <1>2 DEF TakeImage, TakeFalseHeader, TakeGarbage, Unused
<1>3. CASE Info \/ RunApplication \/ ResetCommand \/ ChipResets \/ Transmit \/ PowerCycle
  BY <1>3 DEF Info, RunApplication, ResetCommand, ChipResets, Transmit, PowerCycle, Unused
<1>. QED
  BY <1>1, <1>2, <1>3 DEF Board

\* A knock of the host finds the memory as the firmware left it.
LEMMA UntouchedHost ==
    ASSUME LinkAssumption, LinkTypes, LinkTypes', Fresh, Unused, Untouched, Patient \/ Greeted,
           Host
    PROVE  Untouched'
<1>1. UNCHANGED <<board, out, loaded>>
  BY HostFootprint
<1>2. Kind(Token("one")) = "one" /\ Kind(Token("zero")) = "zero"
  BY DEF Token, Kind
<1>a. ASSUME NEW token, SendToken(token), Kind(token) \in {"one", "zero"}, Knocking(toBoard)
      PROVE  Knocking(toBoard')
  <2>1. toBoard' = toBoard \/ Delivered(token)
    BY <1>a, SentLine DEF Overruns, Knocking
  <2>. QED
    BY <1>a, <2>1, DeliveredRest DEF Knocking
<1>3. CASE OpenPort
  <2>1. host = "closed" /\ host' = "knock" /\ SendToken(Token("one")) /\ toHost' = <<>>
    BY <1>3 DEF OpenPort, Send, Fresh
  <2>2. Stream' = out
    BY <1>1, <2>1, Joined DEF Stream, LinkTypes, HostTypes, BoardTypes
  <2>3. ASSUME Greeting(out) PROVE loaded = {} /\ board = "greeted" /\ Knocking(toBoard')
    <3>1. board = "greeted"
      BY <2>3, GreetingIsAll
    <3>2. Knocking(toBoard)
      BY <2>1, <2>3, <3>1 DEF Patient, Greeted
    <3>. QED
      BY <1>2, <1>a, <2>1, <3>1, <3>2 DEF Unused
  <2>. QED
    BY <1>1, <2>1, <2>2, <2>3 DEF Untouched
<1>4. CASE KnockAgain \/ HandshakeDone
  <2>1. PICK token : /\ host = "knock" /\ SendToken(token) /\ Kind(token) \in {"one", "zero"}
                     /\ HandshakeDone => Kind(Head(toHost)) = "one" /\ toHost # <<>> /\ Receive
                     /\ KnockAgain => /\ host' = "knock"
                                      /\ toHost' = toHost \/ (toHost # <<>> /\ Receive)
    BY <1>2, <1>4 DEF KnockAgain, HandshakeDone, Send, hostVars
  <2>2. (host' = "knock" /\ Greeting(Stream')) \/ HandshakeDone => Greeting(Stream)
    <3>1. CASE HandshakeDone
      <4>1. Reads /\ Stream[1] = Head(toHost)
        BY <1>1, <2>1, <3>1, HostReads
      <4>2. 1 \in DOMAIN Stream
        BY <4>1, StreamIs DEF Reads
      <4>. QED
        BY <2>1, <3>1, <4>1, <4>2 DEF Greeting
    <3>2. CASE ~HandshakeDone /\ toHost' = toHost
      BY <1>1, <3>2 DEF Stream
    <3>3. CASE ~HandshakeDone /\ toHost # <<>> /\ Receive
      BY <1>1, <3>3, HostReads, ReadGreeting
    <3>. QED
      BY <1>4, <2>1, <3>1, <3>2, <3>3
  <2>3. ASSUME Greeting(Stream)
        PROVE  /\ loaded = {}
               /\ \/ board = "hello"
                  \/ board \in {"off", "greeted", "prompt"} /\ Knocking(toBoard')
    BY <1>a, <2>1, <2>3 DEF Untouched
  <2>4. KnockAgain => host' = "knock"
    BY <2>1
  <2>. QED
    BY <1>1, <1>4, <2>2, <2>3, <2>4 DEF Untouched
<1>5. CASE LogByte \/ LogEnds \/ LogTimesOut
  <2>1. host = "log" /\ UNCHANGED <<step, toBoard>> /\ host' # "knock"
    BY <1>5 DEF LogByte, LogEnds, LogTimesOut, AfterLog
  <2>. QED
    BY <1>1, <2>1 DEF Untouched, Knocking, Kind
<1>6. CASE SkipCore \/ SendCommand \/ SendImage \/ SkipImage
  <2>1. host' # "knock" /\ (step' = step + 1 \/ (host \in {"hdr", "body"} /\ step' = step))
    BY <1>6 DEF SkipCore, SendCommand, SendImage, SkipImage
  <2>2. step' # 0
    BY <2>1, ScriptLength DEF LinkTypes, HostTypes, Places
  <2>. QED
    BY <2>1, <2>2 DEF Untouched
<1>7. CASE ReadLine \/ LineTimesOut
  <2>1. host \in {"seek", "collect"} /\ host' # "knock" /\ step' = step
    BY <1>7 DEF ReadLine, LineTimesOut, ProcessLine
  <2>2. step' # 0
    BY <2>1, ScriptLength DEF LinkTypes, Places
  <2>. QED
    BY <2>1, <2>2 DEF Untouched
<1>8. CASE ClosePort
  BY <1>8 DEF ClosePort, Untouched
<1>. QED
  BY <1>3, <1>4, <1>5, <1>6, <1>7, <1>8 DEF Host

\* So does the board: it only hears knocks.
LEMMA UntouchedBoard ==
    ASSUME LinkAssumption, LinkTypes, LinkTypes', Fresh, Unused, Untouched, Patient \/ Restart,
           (Board /\ ~TakeForHandshake) \/ PowerCycle
    PROVE  Untouched'
<1>1. UNCHANGED <<host, step>>
  BY BoardFootprint DEF PowerCycle, hostVars
<1>. DEFINE Waits == (host \in {"log", "send"} /\ step = 0) \/ (host = "knock" /\ Greeting(Stream))
\* What is printed without a 0x1, and what is lost, does not greet.
<1>a. ASSUME toHost' = toHost, \/ out' = <<>>
                               \/ out = <<>> /\ ~Greeting(out')
      PROVE  Greeting(Stream') => Greeting(Stream)
  <2>1. SUFFICES ASSUME NEW k \in DOMAIN Stream', Kind(Stream'[k]) = "one"
                 PROVE  \E m \in DOMAIN Stream : Kind(Stream[m]) = "one"
    BY DEF Greeting
  <2>2. /\ \A m \in 1..Len(toHost) : Stream'[m] = toHost[m] /\ Stream[m] = toHost[m]
        /\ \A m \in 1..Len(out') : Stream'[Len(toHost) + m] = out'[m]
        /\ DOMAIN Stream' = 1..(Len(toHost) + Len(out')) /\ DOMAIN Stream = 1..(Len(toHost) + Len(out))
        /\ Len(toHost) \in Nat /\ Len(out) \in Nat /\ Len(out') \in Nat
        /\ DOMAIN out' = 1..Len(out')
    <3>1. toHost' = toHost /\ toHost \in Seq(HostTokens) /\ out \in Seq(HostTokens) /\ out' \in Seq(HostTokens)
      BY <1>a DEF LinkTypes, HostTypes, BoardTypes
    <3>. QED
      BY <3>1, Joined DEF Stream
  <2>3. CASE k \in 1..Len(toHost)
    BY <2>1, <2>2, <2>3
  <2>4. CASE k \notin 1..Len(toHost)
    <3>. DEFINE m == k - Len(toHost)
    <3>1. m \in 1..Len(out') /\ k = Len(toHost) + m
      BY <2>2, <2>4
    <3>. HIDE DEF m
    <3>2. Kind(out'[m]) = "one" /\ m \in DOMAIN out'
      BY <2>1, <2>2, <3>1
    <3>3. ~Greeting(out')
      BY <1>a, NoGreeting
    <3>. QED
      BY <3>2, <3>3 DEF Greeting
  <2>. QED
    BY <2>3, <2>4
<1>b. ASSUME NEW kind, Hears(kind), Knocking(toBoard) PROVE Knocking(toBoard')
  BY <1>b, HeardRest DEF Knocking
<1>2. CASE Boot
  <2>1. board' = "hello" /\ board = "off" /\ UNCHANGED <<loaded, out, toHost>>
    BY <1>2 DEF Boot
  <2>2. Stream' = Stream
    BY <2>1 DEF Stream
  <2>. QED
    BY <1>1, <2>1, <2>2 DEF Untouched
<1>3. CASE board = "hello" /\ Greet
  <2>1. /\ Hears("one") /\ board' = "greeted" /\ loaded' = loaded /\ loaded = {}
    BY <1>3 DEF Greet, Unused
  <2>2. ASSUME NEW k \in DOMAIN toBoard' PROVE Kind(toBoard'[k]) \in {"one", "zero"}
    <3>1. /\ k + 1 \in DOMAIN toBoard /\ toBoard'[k] = toBoard[k + 1]
          /\ 1 \in DOMAIN toBoard /\ Kind(toBoard[1]) = "one"
      BY <2>1, <2>2, HeardRest
    <3>2. 1 < k + 1
      <4>1. k \in 1..(Len(toBoard) - 1) /\ Len(toBoard) \in Nat
        BY <2>1, <2>2, Heard DEF LinkTypes, BoardTypes
      <4>. QED
        BY <4>1
    <3>. QED
      BY <1>3, <3>1, <3>2 DEF Patient, Restart, Knocks
  <2>. QED
    BY <2>1, <2>2 DEF Untouched, Knocking
<1>4. CASE board = "greeted" /\ Greet
  <2>1. /\ Hears("zero") /\ board' = "prompt" /\ loaded' = loaded
        /\ out = <<>> /\ ~Greeting(out') /\ toHost' = toHost
    BY <1>4, NoGreeting DEF Greet, Hears, Takes
  <2>. QED
    BY <1>1, <1>4, <1>a, <1>b, <2>1 DEF Untouched
<1>5. CASE Ignore
  <2>1. PICK kind : Hears(kind)
    BY <1>5 DEF Ignore
  <2>2. UNCHANGED <<board, loaded, out, toHost>>
    BY <1>5, <2>1 DEF Ignore, boardVars, Hears, Takes
  <2>3. Stream' = Stream
    BY <2>2 DEF Stream
  <2>. QED
    BY <1>1, <1>b, <2>1, <2>2, <2>3 DEF Untouched
<1>6. CASE Board /\ ~TakeForHandshake /\ ~Boot /\ ~Greet /\ ~Ignore /\ ~ChipResets
           /\ ~Transmit
  <2>1. /\ board \notin {"off", "hello", "greeted"}
        /\ out = <<>> /\ toHost' = toHost /\ ~Greeting(out')
    BY <1>6, PastHandshake
  <2>2. SUFFICES ASSUME Waits PROVE /\ loaded' = {} /\ board' = "prompt" /\ Knocking(toBoard')
    BY <1>1, <1>a, <2>1 DEF Untouched
  <2>3. loaded = {} /\ board = "prompt" /\ Knocking(toBoard)
    BY <2>1, <2>2 DEF Untouched
  <2>4. ASSUME NEW kind, Hears(kind) PROVE kind \in {"one", "zero"}
    BY <2>3, <2>4, HeardRest DEF Knocking
  <2>5. Gather
    <3>1. ~AskImage /\ ~MissCommand
      BY <2>4 DEF AskImage, MissCommand, Commands
    <3>2. ~TakeImage /\ ~TakeFalseHeader /\ ~TakeGarbage
      BY <2>3 DEF TakeImage, TakeFalseHeader, TakeGarbage
    <3>3. ~Info /\ ~RunApplication /\ ~ResetCommand
      BY <2>4 DEF Info, RunApplication, ResetCommand
    <3>. QED
      BY <1>6, <3>1, <3>2, <3>3 DEF Board
  <2>6. loaded' = loaded /\ board' = board /\ \E kind : Hears(kind)
    BY <2>4, <2>5 DEF Gather
  <2>. QED
    BY <1>b, <2>3, <2>6
<1>7. CASE ChipResets
  <2>1. board = "reset" /\ out' = <<>> /\ toHost' = toHost
    BY <1>7 DEF ChipResets
  <2>2. ~Waits
    BY <2>1 DEF Untouched
  <2>. QED
    BY <1>1, <1>a, <2>1, <2>2 DEF Untouched
<1>8. CASE PowerCycle
  BY <1>8 DEF PowerCycle, Untouched, Knocking
<1>9. CASE Transmit
  <2>1. UNCHANGED <<board, loaded, toBoard>>
    BY <1>9 DEF Transmit
  <2>2. host \in {"closed", "done"} \/ Stream' = Stream
    BY <1>9, BoardTransmits
  <2>. QED
    BY <1>1, <2>1, <2>2 DEF Untouched, Knocking, Kind
<1>10. CASE Greet
  BY <1>3, <1>4, <1>10 DEF Greet
<1>. QED
  BY <1>2, <1>5, <1>6, <1>7, <1>8, <1>9, <1>10

\* A handshake that succeeds is one with a firmware that has just started, unless
\* a firmware took bytes of an image for the handshake: RESET clears the memory before
\* it resets the chip, and with nothing but the tokens of the handshake neither side
\* passes the other's part of it.
THEOREM BoardIsClean == Spec => []CleanBoard
<1>. USE LinkAssumption
<1>1. Init => CleanInv
  <2>. SUFFICES ASSUME Init PROVE CleanInv
    OBVIOUS
  <2>1. /\ host = "closed" /\ board = "off" /\ out = <<>> /\ toBoard = <<>> /\ toHost = <<>>
        /\ loaded = {}
    BY DEF Init
  <2>2. Patient /\ Unused /\ Untouched
    BY <2>1 DEF Patient, Young, Unused, Untouched
  <2>3. Orderly
    BY <2>1 DEF Orderly, Greeted, Restart, Up, Session, Greeting, Knocks
  <2>. QED
    BY <2>2, <2>3 DEF CleanInv
<1>2. LinkTypes /\ LinkTypes' /\ HostInv /\ CleanInv /\ [Next]_vars => CleanInv'
  <2>. SUFFICES ASSUME LinkTypes, LinkTypes', HostInv, CleanInv, [Next]_vars, ~fooled'
                PROVE  /\ Unused' /\ (~slow' => Patient') /\ (faults' = 0 => Orderly')
                       /\ (slow' => faults' = 0) => Untouched'
    BY DEF CleanInv
  <2>1. ~fooled /\ (Next => ~TakeForHandshake)
    BY NotFooledBefore DEF vars, fixed
  <2>2. HandshakeInv /\ Fresh /\ (board = "off" => toBoard = <<>>)
    BY <2>1 DEF HostInv, HandshakeInv, Fresh
  <2>3. slow \in BOOLEAN /\ faults \in Nat
    BY FaultsAssumption DEF LinkTypes, FixedTypes
  <2>4. /\ Unused /\ (~slow => Patient) /\ (faults = 0 => Orderly)
        /\ (slow => faults = 0) => Untouched
    BY <2>1 DEF CleanInv
  <2>5. CASE Host
    <3>1. UNCHANGED <<slow, faults, board, loaded>> /\ ~TakeForHandshake
      BY <2>1, <2>5, HostFootprint DEF Next
    <3>2. ~slow => Patient'
      BY <2>2, <2>4, <2>5, PatientHost
    <3>3. faults = 0 => Orderly'
      BY <2>2, <2>4, <2>5, <3>1, StaysOrderly
    <3>4. (slow => faults = 0) => Untouched'
      BY <2>2, <2>4, <2>5, UntouchedHost DEF Orderly
    <3>5. Unused'
      BY <2>4, <3>1 DEF Unused
    <3>. QED
      BY <3>1, <3>2, <3>3, <3>4, <3>5
  <2>6. CASE Board
    <3>1. UNCHANGED <<slow, faults>> /\ ~TakeForHandshake
      BY <2>1, <2>6, BoardFootprint DEF Next
    <3>2. ~slow => Patient'
      BY <2>2, <2>4, <2>6, <3>1, PatientBoard
    <3>3. faults = 0 => Orderly'
      BY <2>2, <2>4, <2>6, <3>1, StaysOrderly
    <3>4. (slow => faults = 0) => Untouched'
      BY <2>2, <2>4, <2>6, <3>1, UntouchedBoard DEF Orderly
    <3>5. Unused'
      BY <2>4, <2>6, <3>1, UnusedBoard
    <3>. QED
      BY <3>1, <3>2, <3>3, <3>4, <3>5
  <2>7. CASE PowerCycle
    <3>1. slow' = slow /\ faults' = faults + 1
      BY <2>7 DEF PowerCycle
    <3>2. ~slow => Patient'
      BY <2>2, <2>4, <2>7, PatientBoard
    <3>3. ~slow => Untouched'
      BY <2>2, <2>4, <2>7, UntouchedBoard
    <3>4. Unused'
      BY <2>4, <2>7, UnusedBoard
    <3>. QED
      BY <2>3, <3>1, <3>2, <3>3, <3>4
  <2>8. CASE KillTool
    <3>1. slow' = slow /\ faults' = faults + 1 /\ host' = "closed" /\ UNCHANGED <<boardVars, toBoard>>
      BY <2>8 DEF KillTool
    <3>2. Patient => Patient'
      BY <3>1 DEF boardVars, Patient, Knocking, Unscathed, Kind
    <3>3. Untouched' /\ Unused'
      BY <2>4, <3>1 DEF boardVars, Untouched, Unused
    <3>. QED
      BY <2>3, <2>4, <3>1, <3>2, <3>3
  <2>9. CASE UNCHANGED vars
    <3>. USE <2>9 DEF vars, hostVars, boardVars, fixed
    <3>1. Stream' = Stream /\ slow' = slow /\ faults' = faults
      BY DEF Stream
    <3>2. Patient' <=> Patient
      BY <3>1 DEF Patient, Young, Answered
    <3>3. Orderly' <=> Orderly
      BY DEF Orderly, Greeted, Restart, Up, Session
    <3>4. (Unused' <=> Unused) /\ (Untouched' <=> Untouched)
      BY <3>1 DEF Unused, Untouched
    <3>. QED
      BY <2>4, <3>1, <3>2, <3>3, <3>4
  <2>. QED
    BY <2>5, <2>6, <2>7, <2>8, <2>9 DEF Next
<1>3. CleanInv => CleanBoard
  BY DEF CleanInv, Untouched, CleanBoard
<1>. QED
  BY <1>1, <1>2, <1>3, LinkTypesHold, SamplesAreKept, PTL DEF Spec
==============================================================================
