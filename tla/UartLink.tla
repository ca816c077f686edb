------------------------------- MODULE UartLink -------------------------------
(***************************************************************************)
(* One benchmark run over the serial line: the host side (uart.c,           *)
(* elf_parser.c and the hooks of default_mod.c) and the loader firmware of  *)
(* the board (arch/rpi4b/project/deploy/src).                               *)
(*                                                                         *)
(* A token stands for the bytes the two sides treat as one:                 *)
(*   to the board  "one" "zero" (handshake), a command line, "hdr" "body"   *)
(*                 (the two parts of an ELF image), "scrap" (what is left   *)
(*                 of any of these, maybe nothing, when the FIFO overran);  *)
(*   to the host   "one", "text" (a line), "prompt" ("> ", no newline),     *)
(*                 "nul", "dollar" ("$\n"), "mark" ("!" and the first       *)
(*                 digits of a value), "tail" (its last digits and "\n"),   *)
(*                 "end" ("?\n").                                           *)
(* Every read of the host gives up after a second (VMIN 0, VTIME 10).       *)
(***************************************************************************)
EXTENDS Integers, Sequences, FiniteSets

CONSTANTS
    Cores,       \* NUM_CORES of the architecture
    Needs,       \* ids of the build.json instance of each core
    Present,     \* ids of the components of CUR_CFG
    Unbuilt,     \* images whose binary may be missing
    Outputs,     \* length of OUTPUT_LIST_SELECTED
    Size,        \* DATA_SIZE of every output
    Runs,        \* iterations of runBench
    Speeds,      \* may the board pause for a second inside a reply?
    MaxKnocks,   \* bound: handshake bytes waiting in the line
    MaxFaults    \* bound, by slow: times the tool is killed or the board switched off

Commands == {"MMU", "LOAD", "INFO", "RUN", "RESET"}
Messages == {"one", "zero", "hdr", "body"} \cup Commands
TokensToBoard == Messages \cup {"scrap"}

ASSUME LinkAssumption ==
    /\ Cores \in Nat \ {0} /\ Cardinality(Present) \in 1..(Cores + 1)
    /\ DOMAIN Needs = 0..(Cores - 1)
    /\ Unbuilt \subseteq -1..(Cores - 1)
    /\ Outputs \in Nat \ {0} /\ Size \in Nat
    /\ Runs \in Nat \ {0} /\ Speeds \subseteq BOOLEAN
    /\ MaxKnocks \in Nat \ {0}
ASSUME FaultsAssumption == MaxFaults \in [BOOLEAN -> Nat]

VARIABLES
    host,     \* where the host is in INIT_BENCH, RUN_BENCH, EXIT_BENCH
    step,     \* position in Script; 0 during INIT_BENCH
    iter,     \* idx of runBench, from 1
    heard,    \* uart_log: byte_buf holds a byte that was really read
    line,     \* buf of read_line_from_tty
    total,    \* values seen by uart_to_result
    samples,  \* RESULT arrays: for each output, the value stored per index
    board,    \* where the firmware is
    image,    \* image the loader is receiving, or NoImage
    eaten,    \* bytes of something else it took for a header
    loaded,   \* images in the board's memory
    out,      \* what the firmware has still to print
    toBoard, toHost,
    missing,  \* images whose binary cannot be opened
    slow,     \* the board may pause for a second inside a reply
    faults,
    fooled    \* history: a firmware took bytes of an image for the handshake

hostVars == <<host, step, iter, heard, line, total, samples>>
boardVars == <<board, image, eaten, loaded, out>>
fixed == <<missing, slow, faults, fooled>>
vars == <<hostVars, boardVars, toBoard, toHost, fixed>>

\* activeCores: the cores of which every component is configured.
Configured(c) == Needs[c] \subseteq Present

\* Mutant: the loop over the cores ends one too early.
Visited_OneShort == Cardinality(Present) - 2

\* The loop over the cores goes as far as there are components, less one.
Visited == Cardinality(Present) - 1

\* The commands of default_RUN_BENCH, with the image of MMU and LOAD; -1 is
\* that of the translation table.
Script ==
    [n \in 1..(Visited + 4) |->
        CASE n = 1 -> <<"MMU", -1>>
          [] n \in 2..(Visited + 1) -> <<"LOAD", n - 2>>
          [] n = Visited + 2 -> <<"INFO", 0>>
          [] n = Visited + 3 -> <<"RUN", 0>>
          [] n = Visited + 4 -> <<"RESET", 0>>]

NoSample == [value |-> -1, whole |-> TRUE, run |-> 0]
NoImage == -2
Token(kind) == <<kind, 0>>
Kind(token) == token[1]

Init ==
    /\ host = "closed" /\ step = 0 /\ iter = 1
    /\ heard = FALSE /\ line = <<>> /\ total = 0
    /\ samples = [r \in 0..(Outputs - 1) |-> [i \in 0..(Size - 1) |-> NoSample]]
    /\ board = "off" /\ image = NoImage /\ eaten = 0 /\ loaded = {} /\ out = <<>>
    /\ toBoard = <<>> /\ toHost = <<>>
    /\ missing \in SUBSET Unbuilt    \* open_elf fails on these
    /\ slow \in Speeds
    /\ faults = 0 /\ fooled = FALSE

------------------------------------------------------------------------------
(* The line.  A board without power or in reset hears nothing.              *)

\* The port has no flow control and the firmware polls: while it prints or pauses, its
\* FIFO keeps what is sent, up to the sections of an image, which are longer.
Deaf == slow \/ out # <<>>
Overruns(token) ==
    /\ Deaf
    /\ Kind(token) = "body" \/ \E k \in DOMAIN toBoard : Kind(toBoard[k]) = "body"
Unheard == board = "off" \/ \E k \in DOMAIN toBoard : Kind(toBoard[k]) = "scrap"

SendToken(token) ==
    IF Unheard THEN UNCHANGED toBoard
    ELSE \/ toBoard' = Append(toBoard, token)
         \/ Overruns(token) /\ toBoard' = Append(toBoard, Token("scrap"))
Send(kind) == SendToken(Token(kind))

Receive == toHost' = Tail(toHost)

\* The firmware waits for input and none is on its way.
BoardQuiet == out = <<>> /\ toBoard = <<>> /\ board # "reset"

\* A read of the host returns 0: nothing came for a second.
TimesOut == toHost = <<>> /\ (slow \/ BoardQuiet)

------------------------------------------------------------------------------
(* Host: default_INIT_BENCH.                                                *)

\* init_uart opens the port and uart_handshake sends its first byte.
OpenPort ==
    /\ host = "closed"
    /\ host' = "knock"
    /\ Send("one")
    /\ UNCHANGED <<step, iter, heard, line, total, samples, boardVars, toHost,
                   fixed>>

\* The byte read is not 0x1, or the read timed out: knock again.
KnockAgain ==
    /\ host = "knock"
    /\ \/ /\ toHost # <<>> /\ Kind(Head(toHost)) # "one"
          /\ Receive
       \/ toHost = <<>> /\ UNCHANGED toHost
    /\ Len(toBoard) < MaxKnocks
    /\ Send("one")
    /\ UNCHANGED <<hostVars, boardVars, fixed>>

\* Mutant: the handshake does not answer with its 0x0.
HandshakeDone_NoZero ==
    /\ host = "knock"
    /\ toHost # <<>> /\ Kind(Head(toHost)) = "one"
    /\ Receive
    /\ host' = "log" /\ heard' = FALSE
    /\ UNCHANGED <<step, iter, line, total, samples, boardVars, toBoard, fixed>>

HandshakeDone ==
    /\ host = "knock"
    /\ toHost # <<>> /\ Kind(Head(toHost)) = "one"
    /\ Receive
    /\ Send("zero")
    /\ host' = "log" /\ heard' = FALSE
    /\ UNCHANGED <<step, iter, line, total, samples, boardVars, fixed>>

------------------------------------------------------------------------------
(* Host: uart_log, which prints bytes up to a 0.                            *)

LogByte ==
    /\ host = "log"
    /\ toHost # <<>> /\ Kind(Head(toHost)) # "nul"
    /\ Receive
    /\ heard' = TRUE
    /\ UNCHANGED <<host, step, iter, line, total, samples, boardVars, toBoard,
                   fixed>>

\* What RUN_BENCH does after the uart_log of step n.
AfterLog == IF step < Len(Script) THEN "send" ELSE "exit"

\* Mutant: the log ends at the prompt, whose 0 stays in the line.
LogEnds_AtPrompt ==
    /\ host = "log"
    /\ toHost # <<>> /\ Kind(Head(toHost)) \in {"nul", "prompt"}
    /\ Receive
    /\ host' = AfterLog
    /\ UNCHANGED <<step, iter, heard, line, total, samples, boardVars, toBoard,
                   fixed>>

LogEnds ==
    /\ host = "log"
    /\ toHost # <<>> /\ Kind(Head(toHost)) = "nul"
    /\ Receive
    /\ host' = AfterLog
    /\ UNCHANGED <<step, iter, heard, line, total, samples, boardVars, toBoard,
                   fixed>>

\* A timeout leaves byte_buf alone: before the first byte it is still 0, and
\* the log ends without its prompt; later the loop goes on.
LogTimesOut ==
    /\ host = "log" /\ ~heard /\ TimesOut
    /\ host' = AfterLog
    /\ UNCHANGED <<step, iter, heard, line, total, samples, boardVars, toBoard,
                   toHost, fixed>>

------------------------------------------------------------------------------
(* Host: default_RUN_BENCH.                                                 *)

\* A core that is not configured is passed over.
Idle(n) == Script[n][1] = "LOAD" /\ ~Configured(Script[n][2])

SkipCore ==
    /\ host = "send" /\ Idle(step + 1)
    /\ step' = step + 1
    /\ UNCHANGED <<host, iter, heard, line, total, samples, boardVars, toBoard,
                   toHost, fixed>>

\* Mutant: the values are counted on from the run before.
SendCommand_KeepsTotal ==
    /\ host = "send" /\ ~Idle(step + 1)
    /\ step' = step + 1
    /\ Send(Script[step'][1])
    /\ host' = CASE Script[step'][1] \in {"MMU", "LOAD"} -> "hdr"
                 [] Script[step'][1] = "RUN" -> "seek"
                 [] OTHER -> "log"
    /\ heard' = FALSE /\ line' = <<>>
    /\ UNCHANGED <<iter, total, samples, boardVars, toHost, fixed>>

SendCommand ==
    /\ host = "send" /\ ~Idle(step + 1)
    /\ step' = step + 1
    /\ Send(Script[step'][1])
    /\ host' = CASE Script[step'][1] \in {"MMU", "LOAD"} -> "hdr"
                 [] Script[step'][1] = "RUN" -> "seek"
                 [] OTHER -> "log"
    /\ heard' = FALSE /\ line' = <<>> /\ total' = 0
    /\ UNCHANGED <<iter, samples, boardVars, toHost, fixed>>

\* process_elf_64 sends the entry, then the sections.
SendImage ==
    /\ host \in {"hdr", "body"}
    /\ Script[step][2] \notin missing
    /\ SendToken(<<host, Script[step][2]>>)
    /\ host' = IF host = "hdr" THEN "body" ELSE "log"
    /\ UNCHANGED <<step, iter, heard, line, total, samples, boardVars, toHost,
                   fixed>>

\* open_elf fails: its result is ignored and nothing follows the command.
SkipImage ==
    /\ host = "hdr"
    /\ Script[step][2] \in missing
    /\ host' = "log"
    /\ UNCHANGED <<step, iter, heard, line, total, samples, boardVars, toBoard,
                   toHost, fixed>>

------------------------------------------------------------------------------
(* Host: read_line_from_tty and uart_to_result.                             *)

EndsLine(token) == Kind(token) \in {"text", "dollar", "tail", "end"}

\* get_result_ptr finds the value marked in a line; the firmware ends each
\* value with "\n", so a line has one at most.
Marks(ln) == {ln[k] : k \in {k \in DOMAIN ln : Kind(ln[k]) = "mark"}}
Sample(ln) ==
    LET v == (CHOOSE mark \in Marks(ln) : TRUE)[2]
    IN  [value |-> v, run |-> iter,
         whole |-> \E k \in DOMAIN ln : ln[k] = <<"tail", v>>]

\* Mutant: the arrays are filled one after the other.
Slot_ByOutput(n) == <<n \div Size, n % Size>>

\* Value number n of a run belongs to output n % numResults, at n / numResults.
Slot(n) == <<n % Outputs, n \div Outputs>>

StoreLine(ln) ==
    LET slot == Slot(total)
    IN  IF Marks(ln) # {} /\ slot[2] < Size
        THEN samples' = [samples EXCEPT ![slot[1]][slot[2]] = Sample(ln)]
        ELSE UNCHANGED samples

\* uart_to_result goes over a line that read_line_from_tty returned.
ProcessLine(ln) ==
    /\ line' = <<>>
    /\ \/ /\ host = "seek"
          /\ host' = IF ln # <<>> /\ Kind(ln[1]) = "dollar" THEN "collect"
                                                            ELSE "seek"
          /\ UNCHANGED <<samples, total>>
       \/ /\ host = "collect"
          /\ StoreLine(ln)
          /\ total' = total + Cardinality(Marks(ln))
          /\ host' = IF ln # <<>> /\ Kind(ln[1]) = "end" THEN "log"
                                                         ELSE "collect"
    /\ UNCHANGED <<step, iter, heard>>

ReadLine ==
    /\ host \in {"seek", "collect"}
    /\ toHost # <<>>
    /\ Receive
    /\ IF EndsLine(Head(toHost))
       THEN ProcessLine(Append(line, Head(toHost)))
       ELSE /\ line' = Append(line, Head(toHost))
            /\ UNCHANGED <<host, step, iter, heard, total, samples>>
    /\ UNCHANGED <<boardVars, toBoard, fixed>>

\* A timeout makes read_line_from_tty return what it has.
LineTimesOut ==
    /\ host \in {"seek", "collect"} /\ TimesOut
    /\ ProcessLine(line)
    /\ UNCHANGED <<boardVars, toBoard, toHost, fixed>>

------------------------------------------------------------------------------
\* default_EXIT_BENCH closes the port, which drops what was not read, and
\* runBench goes on to its next iteration.
ClosePort ==
    /\ host = "exit"
    /\ toHost' = <<>>
    /\ step' = 0
    /\ IF iter < Runs THEN host' = "closed" /\ iter' = iter + 1
                      ELSE host' = "done" /\ UNCHANGED iter
    /\ UNCHANGED <<heard, line, total, samples, boardVars, toBoard, fixed>>

------------------------------------------------------------------------------
(* Board: main and loader_scan_action.                                      *)

Prompt == <<Token("prompt"), Token("nul")>>
Benchmark ==
    LET value(n) == IF n % 2 = 1 THEN <<"mark", n \div 2>>
                                 ELSE <<"tail", (n \div 2) - 1>>
    IN  <<Token("dollar")>>
        \o [n \in 1..(2 * Outputs * Size) |-> value(n)]
        \o <<Token("end")>>

Reject == <<Token("text")>> \o Prompt

\* The firmware starts: its UART hears from now on.
Boot ==
    /\ board = "off"
    /\ board' = "hello"
    /\ UNCHANGED <<hostVars, image, eaten, loaded, out, toBoard, toHost,
                   fixed>>

\* The next token, for a firmware that has printed what it had to.  It hears no
\* scrap: a loader that has missed bytes of an image takes the wrong ones for the
\* address it writes to or jumps to, and the model of the board ends there.
Takes(kind) ==
    /\ out = <<>> /\ toBoard # <<>>
    /\ Kind(Head(toBoard)) = kind
    /\ toBoard' = Tail(toBoard)
    /\ UNCHANGED <<hostVars, toHost, missing, slow, faults>>
Hears(kind) == Takes(kind) /\ UNCHANGED fooled

\* main: while (inbyte() != 0x1); outbyte(0x1); while (inbyte() != 0x0);
Greet ==
    \/ /\ board = "hello" /\ Hears("one")
       /\ board' = "greeted" /\ out' = <<Token("one")>>
       /\ UNCHANGED <<image, eaten, loaded>>
    \/ /\ board = "greeted" /\ Hears("zero")
       /\ board' = "prompt" /\ out' = <<Token("text")>> \o Prompt
       /\ UNCHANGED <<image, eaten, loaded>>

Ignore ==
    /\ \/ board = "hello" /\ \E k \in Messages \ {"one"} : Hears(k)
       \/ board = "greeted" /\ \E k \in Messages \ {"zero"} : Hears(k)
    /\ UNCHANGED boardVars

\* Among the bytes of an image there may be a 0x1, and a 0x0 behind it; the rest of
\* them then comes to the loader.
TakeForHandshake ==
    /\ board \in {"hello", "greeted"}
    /\ \E k \in {"hdr", "body"} : Takes(k)
    /\ fooled' = TRUE
    /\ LET greeting == IF board = "hello" THEN <<Token("one")>> ELSE <<>>
       IN  \/ board' = "greeted" /\ out' = greeting
           \/ /\ board' = "litter"
              /\ \E answer \in {<<>>, Reject} :
                    out' = greeting \o <<Token("text")>> \o Prompt \o answer
    /\ UNCHANGED <<image, eaten, loaded>>

\* loader_scan_action waits for a command; in "litter" the buffer of
\* get_uart_input already holds bytes of an image.
AtPrompt == board \in {"prompt", "litter"}

\* Bytes that are no command fill the buffer, and a full one, or an end of
\* line among the bytes, is an unrecognized action.  A byte of the handshake
\* fills it only when the host has read, byte for byte, what the one before
\* had printed; get_next_char passes over those bytes.
Gather ==
    /\ AtPrompt
    /\ \/ /\ \E k \in {"hdr", "body"} : Hears(k)
          /\ board' = "litter" /\ out' \in {<<>>, Reject}
       \/ /\ \E k \in {"one", "zero"} : Hears(k)
          /\ \/ UNCHANGED out
             \/ toHost = <<>> /\ out' = Reject
          /\ UNCHANGED board
    /\ UNCHANGED <<image, eaten, loaded>>

\* A command behind bytes of an image is not recognized, if one is a letter.
MissCommand ==
    /\ board = "litter"
    /\ \E c \in Commands : Hears(c)
    /\ board' = "prompt" /\ out' = Reject
    /\ UNCHANGED <<image, eaten, loaded>>

\* "MMU" and "LOAD": loader_handle_entry waits for a header.
AskImage ==
    /\ AtPrompt
    /\ \E c \in {"MMU", "LOAD"} : Hears(c)
    /\ board' = "hdr" /\ image' = NoImage /\ eaten' = 0
    /\ UNCHANGED <<loaded, out>>

\* loader_handle_entry and loader_load_section.
TakeImage ==
    \/ /\ board = "hdr" /\ eaten = 0 /\ Hears("hdr")
       /\ board' = "body" /\ image' = Head(toBoard)[2]
       /\ UNCHANGED <<eaten, loaded, out>>
    \/ /\ board = "body" /\ Hears("body")
       /\ loaded' = loaded \cup {image}
       /\ board' = "prompt" /\ out' = Prompt
       /\ UNCHANGED <<image, eaten>>

\* A header is ten bytes; this is how many a token brings.
HeaderSize == 10
Width(kind) == CASE kind \in {"one", "zero"} -> 1
                 [] kind \in {"MMU", "RUN"} -> 4
                 [] kind \in {"LOAD", "INFO"} -> 5
                 [] kind = "RESET" -> 6
                 [] OTHER -> HeaderSize

\* Something else makes up the header: the entry point it holds is of no image,
\* its core a letter or the 1 of a knock, and it announces no section, or some.
TakeFalseHeader ==
    /\ board = "hdr"
    /\ \E k \in Messages :
          /\ k = "hdr" => eaten > 0
          /\ Hears(k)
          /\ eaten' = eaten + Width(k)
    /\ \/ eaten' < HeaderSize /\ UNCHANGED <<board, out>>
       \/ /\ eaten' >= HeaderSize
          /\ \/ /\ board' = IF eaten' = HeaderSize THEN "prompt" ELSE "litter"
                /\ out' = Prompt
             \/ board' = "garbled" /\ UNCHANGED out
    /\ UNCHANGED <<image, loaded>>

\* The sections of a false header, or of an image that was cut off, take what
\* comes next, until their announced size is reached, if it ever is.
TakeGarbage ==
    /\ \/ board = "garbled" /\ \E k \in Messages : Hears(k)
       \/ board = "body" /\ \E k \in Messages \ {"body"} : Hears(k)
    /\ \/ board' = "garbled" /\ UNCHANGED <<out, loaded>>
       \/ /\ board' \in {"prompt", "litter"} /\ out' = Prompt
          /\ loaded' = loaded \cup ({image} \ {NoImage})
    /\ UNCHANGED <<image, eaten>>

Info ==
    /\ AtPrompt /\ Hears("INFO")
    /\ board' = "prompt" /\ out' = <<Token("text")>> \o Prompt
    /\ UNCHANGED <<image, eaten, loaded>>

\* Mutant: core 0 jumps wherever its entry point says.
RunApplication_Unchecked ==
    /\ AtPrompt /\ Hears("RUN")
    /\ board' = "prompt"
    /\ out' = Benchmark \o Prompt
    /\ UNCHANGED <<image, eaten, loaded>>

\* dispatch_routine runs the victim on core 0, or returns if there is none.
RunApplication ==
    /\ AtPrompt /\ Hears("RUN")
    /\ board' = "prompt"
    /\ out' = IF 0 \in loaded THEN Benchmark \o Prompt ELSE Prompt
    /\ UNCHANGED <<image, eaten, loaded>>

\* Mutant: the memory blocks are not cleared.
ResetCommand_KeepsMemory ==
    /\ AtPrompt /\ Hears("RESET")
    /\ board' = "reset" /\ out' = <<Token("nul")>>
    /\ UNCHANGED <<image, eaten, loaded>>

\* "RESET" clears the memory blocks, prints a 0 and resets the chip.
ResetCommand ==
    /\ AtPrompt /\ Hears("RESET")
    /\ loaded' = {}
    /\ board' = "reset" /\ out' = <<Token("nul")>>
    /\ UNCHANGED <<image, eaten>>

\* pm_reset; a byte still in the transmit FIFO is lost.
ChipResets ==
    /\ board = "reset"
    /\ board' = "off" /\ out' = <<>> /\ toBoard' = <<>>
    /\ UNCHANGED <<hostVars, image, eaten, loaded, toHost, fixed>>

\* A printed token reaches the host, if the host has the port open.
Transmit ==
    /\ out # <<>>
    /\ out' = Tail(out)
    /\ toHost' = IF host \in {"closed", "done"} THEN toHost
                                               ELSE Append(toHost, Head(out))
    /\ UNCHANGED <<hostVars, board, image, eaten, loaded, toBoard, fixed>>

------------------------------------------------------------------------------
(* The user: kills and restarts the tool, or switches the board off and on. *)

KillTool ==
    /\ faults < MaxFaults[slow]
    /\ host \notin {"closed", "done"}
    /\ host' = "closed" /\ step' = 0 /\ iter' = 1
    /\ heard' = FALSE /\ line' = <<>> /\ total' = 0
    /\ samples' = [r \in 0..(Outputs - 1) |-> [i \in 0..(Size - 1) |-> NoSample]]
    /\ toHost' = <<>>
    /\ faults' = faults + 1
    /\ UNCHANGED <<boardVars, toBoard, missing, slow, fooled>>

PowerCycle ==
    /\ faults < MaxFaults[slow]
    /\ board' = "off" /\ image' = NoImage /\ eaten' = 0
    /\ loaded' = {} /\ out' = <<>>
    /\ toBoard' = <<>>
    /\ faults' = faults + 1
    /\ UNCHANGED <<hostVars, toHost, missing, slow, fooled>>

------------------------------------------------------------------------------
Host == \/ OpenPort \/ KnockAgain \/ HandshakeDone
        \/ LogByte \/ LogEnds \/ LogTimesOut
        \/ SkipCore \/ SendCommand \/ SendImage \/ SkipImage
        \/ ReadLine \/ LineTimesOut \/ ClosePort

Board == \/ Boot \/ Greet \/ Ignore \/ TakeForHandshake \/ Gather \/ MissCommand \/ AskImage
         \/ TakeImage \/ TakeFalseHeader \/ TakeGarbage \/ Info
         \/ RunApplication \/ ResetCommand \/ ChipResets \/ Transmit

Next == Host \/ Board \/ KillTool \/ PowerCycle

Spec == Init /\ [][Next]_vars

\* Both processors keep executing.
FairSpec == Spec /\ WF_vars(Host) /\ WF_vars(Board)

------------------------------------------------------------------------------
TokensToHost == {"one", "text", "prompt", "nul", "dollar", "mark", "tail", "end"}

TypeOK ==
    /\ host \in {"closed", "knock", "log", "send", "hdr", "body", "seek",
                 "collect", "exit", "done"}
    /\ step \in 0..Len(Script) /\ iter \in 1..Runs
    /\ heard \in BOOLEAN /\ total \in Nat
    /\ \A k \in DOMAIN line : Kind(line[k]) \in TokensToHost
    /\ \A r \in 0..(Outputs - 1), i \in 0..(Size - 1) :
          samples[r][i].value \in -1..(Outputs * Size - 1)
    /\ board \in {"off", "hello", "greeted", "prompt", "hdr", "body", "reset",
                  "litter", "garbled"}
    /\ image \in NoImage..(Cores - 1) /\ loaded \subseteq -1..(Cores - 1)
    /\ eaten \in 0..(2 * HeaderSize)
    /\ \A k \in DOMAIN out : Kind(out[k]) \in TokensToHost
    /\ \A k \in DOMAIN toBoard : Kind(toBoard[k]) \in TokensToBoard
    /\ \A k \in DOMAIN toHost : Kind(toHost[k]) \in TokensToHost
    /\ missing \subseteq Unbuilt /\ slow \in BOOLEAN /\ faults \in 0..MaxFaults[slow]
    /\ fooled \in BOOLEAN

\* Nothing is missing, nobody interferes.
Undisturbed == missing = {} /\ faults = 0

\* Before each command the two sides agree: the host has read everything, and
\* the loader is at its prompt.  (For a board that answers within a second;
\* one early timeout of uart_log leaves every later log one prompt behind.)
InStep ==
    Undisturbed /\ ~slow /\ host = "send" =>
        toHost = <<>> /\ out = <<>> /\ board = "prompt"

\* A handshake that succeeds is one with a firmware that has just started: no
\* image of an earlier run, or of a tool that was killed, is in its memory.
\* (A board that is killed while it lags behind an earlier handshake may still
\* take the commands of that one; and so may one that was switched on in the middle
\* of a transfer, for a tool that is started while it answers the bytes of the image.)
CleanBoard ==
    (slow => faults = 0) /\ ~fooled /\ step = 0 /\ host \in {"log", "send"} => loaded = {}

\* When uart_to_result has returned, the sample at index i of output r is
\* value i * numResults + r of this run: none is missing, cut, or left over
\* from the run before (runBench reuses the arrays).  (A firmware that took bytes of
\* an image for the handshake answers the rest of them, and may print a benchmark
\* that was asked for behind the one that was cut off.)
RunCollected ==
    /\ host \notin {"seek", "collect"}
    /\ \E n \in 1..step : Script[n][1] = "RUN"
SamplesComplete ==
    ~slow /\ ~fooled /\ RunCollected =>
        \A r \in 0..(Outputs - 1), i \in 0..(Size - 1) :
            samples[r][i] = [value |-> i * Outputs + r, run |-> iter, whole |-> TRUE]

\* Whatever the timeouts cut, and whoever is killed, a value is never stored
\* under another output or another index, unless a firmware took bytes of an image
\* for the handshake.
InPlace ==
    \A r \in 0..(Outputs - 1), i \in 0..(Size - 1) :
        samples[r][i].value \in {-1, i * Outputs + r}
SamplesInPlace == ~fooled => InPlace

\* Whatever the loader makes of the bytes that follow, a victim whose binary
\* cannot be opened yields no samples: RUN finds no entry point on core 0.
VictimLoaded ==
    0 \in missing =>
        \A r \in 0..(Outputs - 1), i \in 0..(Size - 1) : samples[r][i] = NoSample

\* default_mod.c:138: the loop over the cores stops at "CUR_CFG->NUM-1 because
\* the ID 0 is always system wide".  Samples are of the experiment that was
\* configured: every configured core has its application while they come in.  (For
\* a board that answers in time; an image sent to one that is still printing
\* overruns its FIFO.)
CoresLoaded ==
    Undisturbed /\ ~slow /\ host = "collect" =>
        {c \in 0..(Cores - 1) : Configured(c)} \subseteq loaded

\* With a board that answers in time and every binary built, runBench ends,
\* unless somebody interferes.
BenchEnds == missing = {} /\ ~slow => <>(host = "done" \/ faults > 0)
==============================================================================
