------------------------------- MODULE Shell --------------------------------
(***************************************************************************)
(* services/shell.c over os_gets_vcp of device/vcp.c: the shell reads a    *)
(* line, echoing every byte it takes, cuts it into words in place, and     *)
(* runs the command the first word names.  A cell of the buffer holds a    *)
(* command's name, a number or one other byte.                             *)
(***************************************************************************)
EXTENDS Integers, Sequences, SequencesExt

CONSTANTS
  IoSize,  \* SHELL_IO_SIZE
  MaxLine, \* the cells a line fills at most (a bound of the model)
  Key,     \* what is typed
  Digit,   \* the keys that are numbers
  Command  \* the keys that name commands

ASSUME ShellAssumption ==
  /\ IoSize \in Nat \ {0} /\ MaxLine \in 0 .. IoSize
  /\ Digit \subseteq Key /\ Command \subseteq Key
  /\ {"NUL", "none"} \cap Key = {}

VARIABLES
  buffer,  \* shell_buffer
  at,      \* p - buffer, in os_gets_vcp
  reading, \* which of its vcp_rx_byte it waits in: "line", "esc" or "csi"
  argv,    \* argv[0 .. 1], offsets of buffer, or NoArg
  screen,  \* what the terminal shows of the line, left of its cursor
  ran,     \* the line a command was run for, the command and its argument
  overrun  \* a byte was written past the end of the buffer

shellVars == <<buffer, at, reading, argv, screen, ran, overrun>>

NoArg == -1
NoRun == [line |-> << >>, command |-> "none", argument |-> << >>]

ShellInit ==
  /\ buffer = [i \in 0 .. IoSize - 1 |-> "NUL"]
  /\ at = 0
  /\ reading = "line"
  /\ argv = [i \in 0 .. 1 |-> NoArg]
  /\ screen = << >>
  /\ ran = NoRun
  /\ overrun = FALSE

-----------------------------------------------------------------------------
IsSpace(c)  == c \in {"SP", "CR", "LF"}
NotSpace(c) == ~IsSpace(c)
IsNul(c)    == c = "NUL"

(* The cells of s from the first that meets the test, and up to it.        *)
FromFirst(s, Test(_)) ==
  LET i == SelectInSeq(s, Test) IN IF i = 0 THEN << >> ELSE SubSeq(s, i, Len(s))
UpToFirst(s, Test(_)) ==
  LET i == SelectInSeq(s, Test) IN IF i = 0 THEN s ELSE SubSeq(s, 1, i - 1)

(* The string at an offset; what is at NULL is not known.                  *)
StringAt(buf, p) ==
  IF p = NoArg THEN <<"unknown">>
  ELSE UpToFirst([i \in 1 .. IoSize - p |-> buf[p + i - 1]], IsNul)

(* strtol: 0 when there is no number.                                      *)
Strtol(s) ==
  IF s = <<"unknown">> THEN s
  ELSE LET number == UpToFirst(FromFirst(s, NotSpace), LAMBDA c : c \notin Digit)
       IN  IF number = << >> THEN <<"0">> ELSE number

(* What a command does with argv[1]: echo prints it, start, stop and bt    *)
(* take it for the id of a task, the others do not look at it.             *)
Argument(command, s) ==
  CASE command = "echo" -> s
    [] command \in {"start", "stop", "bt"} -> Strtol(s)
    [] OTHER -> << >>

(* shell_process_cmd: any other name is invalid, and help is shown.        *)
Named(s) == IF Len(s) = 1 /\ s[1] \in Command THEN s[1] ELSE "help"

-----------------------------------------------------------------------------
WordStartsShort(buf, size) ==                                    \* mutant
  {i \in 0 .. size - 2 : ~IsSpace(buf[i]) /\ (i = 0 \/ IsSpace(buf[i - 1]))}

(* shell_parse_cmd: the byte that ends the line is no space, and may be a  *)
(* word of its own.                                                        *)
WordStarts(buf, size) ==
  {i \in 0 .. size - 1 : ~IsSpace(buf[i]) /\ (i = 0 \/ IsSpace(buf[i - 1]))}

FirstOf(S) == CHOOSE i \in S : \A j \in S : i <= j

(* The search ends at the second word, whose end is not marked; a line of  *)
(* one word leaves argv[1] as it was.                                      *)
ShellParse(buf, size) ==
  LET starts == WordStarts(buf, size)
      others == {i \in starts : \E j \in starts : j < i}
      args   == IF starts = {} THEN argv
                ELSE IF others = {} THEN [argv EXCEPT ![0] = FirstOf(starts)]
                ELSE [argv EXCEPT ![0] = FirstOf(starts), ![1] = FirstOf(others)]
      end    == IF others = {} THEN size ELSE FirstOf(others)
  IN  [args   |-> args,
       buffer |-> [i \in DOMAIN buf |-> IF i = size \/ (i < end /\ IsSpace(buf[i]))
                                        THEN "NUL" ELSE buf[i]]]

(* os_gets_vcp ends the string at n and returns n + 1; shell_task ends it  *)
(* once more, parses it, runs the command and reads the next line.         *)
RunLine(buf, n, shown) ==
  LET line   == [i \in DOMAIN buf |-> IF i \in {n, n + 1} THEN "NUL" ELSE buf[i]]
      parsed == ShellParse(line, n + 1)
      name   == Named(StringAt(parsed.buffer, parsed.args[0]))
  IN  /\ buffer' = parsed.buffer
      /\ argv' = parsed.args
      /\ ran' = [line |-> shown, command |-> name,
                 argument |-> Argument(name, StringAt(parsed.buffer, parsed.args[1]))]
      /\ overrun' = (overrun \/ n + 1 >= IoSize)
      /\ at' = 0
      /\ screen' = << >>

(* The line goes on, unless the buffer is full.                            *)
Continue(buf, n, shown) ==
  IF n < IoSize
    THEN /\ buffer' = buf /\ at' = n /\ screen' = shown /\ ran' = NoRun
         /\ UNCHANGED <<argv, overrun>>
    ELSE RunLine(buf, n, shown)

-----------------------------------------------------------------------------
(* A byte is stored before it is looked at.                                *)
Stored(c) == [buffer EXCEPT ![at] = c]

(* The default case.                                                       *)
TypeCell(c) ==
  /\ reading = "line" /\ at < MaxLine
  /\ Continue(Stored(c), at + 1, Append(screen, c))
  /\ UNCHANGED reading

(* The terminal's cursor moves back over what is before it.                *)
BackMoves(n) == IF n > 0 THEN n - 1 ELSE n
TypeBackspace ==
  /\ reading = "line"
  /\ Continue(Stored("BS"), BackMoves(at), IF at > 0 THEN Front(screen) ELSE screen)
  /\ UNCHANGED reading

(* CTRL-J moves the cursor down, in its column.                            *)
TypeLineFeed ==
  /\ reading = "line"
  /\ Continue(Stored("LF"), at, screen)
  /\ UNCHANGED reading

TypeReturn ==
  /\ reading = "line"
  /\ RunLine(Stored("CR"), at, screen)
  /\ UNCHANGED reading

(* CTRL-C and CTRL-D: the line is forgotten.                               *)
TypeControlC ==
  /\ reading = "line"
  /\ buffer' = Stored("ETX")
  /\ at' = 0 /\ screen' = << >> /\ ran' = NoRun
  /\ UNCHANGED <<reading, argv, overrun>>

TypeEscape ==
  /\ reading = "line"
  /\ buffer' = Stored("ESC")
  /\ reading' = "esc"
  /\ ran' = NoRun
  /\ UNCHANGED <<at, argv, screen, overrun>>

(* ansi_esc: of what follows ESC '[' one byte is eaten, because a byte is  *)
(* never both less than 0x40 and greater than 0x7e: the "~" of ESC [ 3 ~   *)
(* stays in the line.                                                      *)
InEscape(c) ==
  /\ reading # "line"
  /\ reading' = IF reading = "esc" /\ c = "[" THEN "csi" ELSE "line"
  /\ UNCHANGED <<buffer, at, argv, screen, ran, overrun>>

ShellNext ==
  \/ \E c \in Key : TypeCell(c) \/ InEscape(c)
  \/ TypeBackspace \/ TypeLineFeed \/ TypeReturn \/ TypeControlC \/ TypeEscape

ShellSpec == ShellInit /\ [][ShellNext]_shellVars

-----------------------------------------------------------------------------
Spaces(s)      == FromFirst(s, NotSpace)
FirstWord(s)   == UpToFirst(Spaces(s), IsSpace)
AfterWord(s)   == Spaces(FromFirst(Spaces(s), IsSpace))

(* The command that runs is the one the terminal shows, and the argument   *)
(* it gets is the rest of that line, whatever was erased and whatever      *)
(* earlier lines left in the buffer (shell.c:87-110, vcp.c:155-202).       *)
RunsWhatIsShown ==
  ran # NoRun =>
    /\ ran.command = Named(FirstWord(ran.line))
    /\ AfterWord(ran.line) # << >> =>
         ran.argument = Argument(ran.command, AfterWord(ran.line))

(* A command without its argument does nothing; in the code it gets what   *)
(* is now where an earlier argument was (shell.c:124, 135, 147).           *)
NoStaleArgument ==
  ran # NoRun /\ AfterWord(ran.line) = << >> =>
    ran.argument = Argument(ran.command, << >>)

(* Nothing is written past the end of the buffer, however long the line    *)
(* is (vcp.c:200, shell.c:62).                                             *)
StaysInBuffer == ~overrun

=============================================================================
