-------------------------------- MODULE Input --------------------------------
(***************************************************************************)
(* Where programs come from: the scripts of the command line and then the  *)
(* prompt (clsr_main and clsr_repl of repl.c), the lines typed at the      *)
(* prompt (rl_readline of readline.c), and the buffer in which the scanner *)
(* keeps text that it has read and not yet scanned.                        *)
(*                                                                         *)
(* Texts are sequences of characters of which only the newline is told     *)
(* apart.  Whether the parser reads a text to its end, and whether it      *)
(* finds it correct, depends on the text, and is left open here: it may    *)
(* stop behind any character.                                              *)
(***************************************************************************)
EXTENDS Integers, Sequences

CONSTANTS
    Letters,     \* the characters that are not newlines
    NL,
    N,           \* REPL_BUF_SIZ
    MaxLine,     \* bound on the characters of a line and of a script
    MaxFiles,    \* bound on the scripts
    MaxTyped     \* bound on the lines of an input

ASSUME InputAssumption ==
    /\ N \in Nat \ {0} /\ MaxLine \in Nat /\ MaxFiles \in Nat /\ MaxTyped \in Nat
    /\ NL \notin Letters

NUL   == "NUL"
Stale == "stale"     \* whatever the C stack has left in the array

VARIABLES
    phase,       \* "files", "line", "parse" or "ended"
    files,       \* scripts still to be read
    interactive, \* run_repl
    unread,      \* what the scanner has in its buffer
    full, len,   \* the buffer of clsr_repl and how much of it is in use
    typed,       \* the lines of this input so far
    prompted     \* has an input been parsed already?

readerVars == <<full, len, typed>>
sessionVars == <<phase, files, interactive>>
inputVars == <<sessionVars, unread, readerVars, prompted>>

Texts == UNION {[1 .. n -> Letters] : n \in 0 .. MaxLine}

(* The cell behind the end of the array is there too. *)
Cells == 0 .. N

-----------------------------------------------------------------------------
(* yyparse reads from what the scanner still has, then from the file.  It  *)
(* meets the end, or stops before and leaves the rest to the scanner.      *)
MayLeave(text) == {SubSeq(text, n + 1, Len(text)) : n \in 1 .. Len(text)} \cup {<<>>}

(* After the last script, or the first that fails. *)
AfterScripts == IF interactive THEN "line" ELSE "ended"

(* A script is parsed and evaluated; the scanner keeps what is unread. *)
ScriptRuns ==
    /\ phase = "files" /\ files > 0
    /\ \E text \in Texts : unread' \in MayLeave(unread \o text)
    /\ files' = files - 1
    /\ UNCHANGED <<phase, interactive, readerVars, prompted>>

(* It is not correct, or its evaluation ends in an error. *)
ScriptFails ==
    /\ phase = "files" /\ files > 0
    /\ \E text \in Texts : unread' \in MayLeave(unread \o text)
    /\ phase' = AfterScripts
    /\ UNCHANGED <<files, interactive, readerVars, prompted>>

(* fopen fails. *)
ScriptIsMissing ==
    /\ phase = "files" /\ files > 0
    /\ phase' = "ended"
    /\ UNCHANGED <<files, interactive, unread, readerVars, prompted>>

ScriptsEnd ==
    /\ phase = "files" /\ files = 0
    /\ phase' = AfterScripts
    /\ UNCHANGED <<files, interactive, unread, readerVars, prompted>>

-----------------------------------------------------------------------------
(* Mutant: neither the newline nor the end of the string is counted. *)
TooLongByTwo(line) == len + Len(line) >= N

TooLong(line) == len + Len(line) + 2 >= N

(* Mutant: a line follows the last one at once. *)
AppendedWithoutNewline(line) ==
    [buf |-> [i \in Cells |-> IF i \in len .. len + Len(line) - 1 THEN line[i - len + 1]
                              ELSE IF i = len + Len(line) THEN NUL ELSE full[i]],
     len |-> len + Len(line)]

(* The line is copied behind what was typed before, behind a newline. *)
Appended(line) ==
    LET at == IF len > 0 THEN len + 1 ELSE len
        end == at + Len(line)
    IN  [buf |-> [i \in Cells |-> IF i \in at .. end - 1 THEN line[i - at + 1]
                                  ELSE IF i = end THEN NUL
                                  ELSE IF i = len /\ len > 0 THEN NL
                                  ELSE full[i]],
         len |-> end]

(* The condition of the loop of rl_readline, negated. *)
Over(a) == a.len > 0 /\ a.buf[a.len - 1] = NL

(* A line after which rl_readline asks for another. *)
LineContinues(line) ==
    /\ phase = "line" /\ ~ TooLong(line) /\ Len(typed) < MaxTyped
    /\ LET a == Appended(line) IN
       /\ ~ Over(a)
       /\ full' = a.buf /\ len' = a.len
    /\ typed' = Append(typed, line)
    /\ UNCHANGED <<sessionVars, unread, prompted>>

(* The empty line that ends the input; the last newline is taken back. *)
LineEndsInput(line) ==
    /\ phase = "line" /\ ~ TooLong(line)
    /\ LET a == Appended(line) IN
       /\ Over(a)
       /\ full' = [a.buf EXCEPT ![a.len - 1] = NUL] /\ len' = a.len - 1
    /\ typed' = Append(typed, line)
    /\ phase' = "parse"
    /\ UNCHANGED <<files, interactive, unread, prompted>>

(* The line does not fit: -1, and the loop of clsr_repl ends. *)
LineTooLong(line) ==
    /\ phase = "line" /\ TooLong(line)
    /\ phase' = "ended"
    /\ UNCHANGED <<files, interactive, unread, readerVars, prompted>>

(* readline returns NULL: the same. *)
EndOfInput ==
    /\ phase = "line"
    /\ phase' = "ended"
    /\ UNCHANGED <<files, interactive, unread, readerVars, prompted>>

BufferText == [i \in 1 .. len |-> full[i - 1]]

(* Mutant: the scanner keeps what the parser has not read. *)
ParseKeepingBuffer ==
    /\ phase = "parse"
    /\ unread' \in MayLeave(unread \o BufferText)
    /\ phase' = "line"
    /\ full' = [full EXCEPT ![0] = NUL] /\ len' = 0 /\ typed' = <<>>
    /\ prompted' = TRUE
    /\ UNCHANGED <<files, interactive>>

(* The input is parsed, and evaluated if it is correct; yylex_destroy      *)
(* drops what the scanner has; rl_readline begins anew. *)
ParseInput ==
    /\ phase = "parse"
    /\ unread' = <<>>
    /\ phase' = "line"
    /\ full' = [full EXCEPT ![0] = NUL] /\ len' = 0 /\ typed' = <<>>
    /\ prompted' = TRUE
    /\ UNCHANGED <<files, interactive>>

(* yylex_destroy has reset yyin, and clsr_repl calls fclose(NULL), which C *)
(* does not define: it may also end the process. *)
CloseNothing ==
    /\ phase = "parse"
    /\ phase' = "ended"
    /\ UNCHANGED <<files, interactive, unread, readerVars, prompted>>

-----------------------------------------------------------------------------
(* Without scripts there is a prompt, with or without -i. *)
InputInit ==
    /\ phase = "files"
    /\ files \in 0 .. MaxFiles
    /\ interactive \in BOOLEAN
    /\ files = 0 => interactive
    /\ unread = <<>>
    /\ full = [i \in Cells |-> IF i = 0 THEN NUL ELSE Stale]
    /\ len = 0
    /\ typed = <<>>
    /\ prompted = FALSE

InputNext ==
    \/ ScriptRuns \/ ScriptFails \/ ScriptIsMissing \/ ScriptsEnd
    \/ \E line \in Texts : LineContinues(line) \/ LineEndsInput(line) \/ LineTooLong(line)
    \/ EndOfInput \/ ParseInput \/ CloseNothing

InputSpec == InputInit /\ [][InputNext]_inputVars

-----------------------------------------------------------------------------
(* The buffer holds a string of `len' characters, and nothing has been     *)
(* written behind the array. *)
InputTypeOK ==
    /\ phase \in {"files", "line", "parse", "ended"}
    /\ files \in 0 .. MaxFiles /\ {interactive, prompted} \subseteq BOOLEAN
    /\ len \in 0 .. N - 1 /\ full[len] = NUL
    /\ \A i \in 0 .. len - 1 : full[i] \in Letters \cup {NL}
    /\ full[N] = Stale

(* A block of lines begins with any number of empty lines, goes on with    *)
(* lines that are not empty, and is over at the first empty line behind    *)
(* them.                                                                   *)
Blocks == LET first == {i \in DOMAIN typed : typed[i] # <<>>} IN
    \A i \in DOMAIN typed :
        typed[i] = <<>> => (\A j \in first : i < j) \/ (i = Len(typed) /\ phase # "line")

(* The lines that are not empty, each but the first behind a newline. *)
Joined ==
    LET joined[i \in 0 .. Len(typed)] ==
          IF i = 0 THEN <<>>
          ELSE IF typed[i] = <<>> THEN joined[i - 1]
          ELSE IF joined[i - 1] = <<>> THEN typed[i]
          ELSE joined[i - 1] \o <<NL>> \o typed[i]
    IN  joined[Len(typed)]

(* What is in the buffer is what was typed, whatever longer input has been *)
(* in it before, and an input is over exactly at the empty line behind a   *)
(* line that is not.                                                       *)
BufferIsWhatWasTyped ==
    phase \in {"line", "parse"} => BufferText = Joined /\ Blocks

ParserMeets == unread \o BufferText

(* The parser meets what was typed and nothing else; only to the first     *)
(* input comes, in front, what a script has left in the scanner.  What is  *)
(* left of an input, of one that was not correct as well, never reaches    *)
(* the next. *)
ParserMeetsWhatWasTyped ==
    phase = "parse" => ParserMeets = IF prompted THEN Joined ELSE unread \o Joined
=============================================================================
