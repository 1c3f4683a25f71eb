------------------------------- MODULE Shell -------------------------------
(***************************************************************************)
(* The shell (Kernel.cpp), the one program in ring 3: it edits a line,     *)
(* splits it into words and runs a command, and writes by system calls to  *)
(* the console, where interrupt handlers write as well.                    *)
(*                                                                         *)
(* A system call is one step: FMASK keeps interrupts off in it, except in  *)
(* the halts of get_key and sleep.  In ring 3 interrupts are on, and cli,  *)
(* sti and port accesses fault.                                            *)
(***************************************************************************)
EXTENDS Console

CONSTANTS
    BufSize,   \* of the line buffer
    MaxArgs,   \* of the array of arguments
    HistSize,  \* slots of the ring of previous commands
    Commands,  \* the table: name and kind, in the order of the code
    Chars,     \* the letters, digits and signs that have a key
    MaxKeys, MaxLogs \* bounds: keys typed, lines logged by interrupt handlers

ASSUME ShellAssumption ==
    /\ {BufSize, MaxArgs, HistSize} \subseteq Nat \ {0, 1}
    /\ {MaxKeys, MaxLogs} \subseteq Nat
    /\ \A i \in DOMAIN Commands : Commands[i].kind \in
         {"print", "clear", "chess", "poweroff", "sleep", "kernel", "list", "nothing"}

(* A line of 256 characters is shorter than a screen of any mode, and none *)
(* of the characters of a key is a control character or a key's own name.  *)
ASSUME LineFits == BufSize < Width * Height
ASSUME CharsAssumption == Chars \cap {"bs", "backspace", "enter", "kp_enter", "shift"} = {}

VARIABLES
    fb,          \* the framebuffer object
    stage,          \* where the shell is
    out, then,   \* what it has to print, and where it goes then
    buffer, i,   \* the line, and its length
    name, args,  \* of the command being run: its name, where its words begin
    history,     \* previous_commands, oldest first
    typed,       \* ghost: what was typed since the prompt, as the user sees it
    clean,       \* ghost: FALSE once a tab, a newline, a recall or a log has come between
    keys, logs   \* for the bounds

line == <<buffer, i>>
command == <<name, args>>
printing == <<out, then>>
bounds == <<keys, logs>>
shellVars == <<fb, stage, printing, line, command, history, typed, clean, bounds>>

PromptChar == ">"
PromptText == <<"&", "f", PromptChar>>

(* printf of the shell: the characters, one system call each. *)
Printf(text, texts, next) ==
    /\ out' = Format(text, texts) /\ then' = next /\ stage' = "print"

(* user_space_main after enter_user_space.  The boot swaps with interrupts *)
(* on: what a handler logged in the middle may be in the back buffer only. *)
ShellInit ==
    /\ \E raced \in BOOLEAN :
         fb = LET clean0 == [NewFramebuffer EXCEPT !.dirty = FALSE]
              IN IF raced THEN [Log(clean0, <<"l">>, <<>>) EXCEPT !.dirty = FALSE] ELSE clean0
    /\ stage = "print" /\ out = Format(PromptText, <<>>) /\ then = "swap"
    /\ buffer = [k \in 0..BufSize - 1 |-> NUL] /\ i = 0
    /\ name = <<>> /\ args = <<>> /\ history = <<>>
    /\ typed = <<>> /\ clean = TRUE /\ keys = 0 /\ logs = 0

PrintChar ==
    /\ stage = "print" /\ out # <<>>
    /\ fb' = PutChar(fb, Head(out)) /\ out' = Tail(out)
    /\ UNCHANGED <<stage, then, line, command, history, typed, clean, bounds>>

Printed ==
    /\ stage = "print" /\ out = <<>> /\ stage' = then
    /\ UNCHANGED <<fb, printing, line, command, history, typed, clean, bounds>>

SwapFramebuffer ==
    /\ stage = "swap" /\ fb' = Swap(fb) /\ stage' = "key"
    /\ UNCHANGED <<printing, line, command, history, typed, clean, bounds>>

----------------------------------------------------------------------------
(* The keys, as sys_get_key returns them; while it waits it swaps again    *)
(* before each halt.                                                       *)

Key == stage = "key" /\ keys < MaxKeys /\ keys' = keys + 1 /\ UNCHANGED logs

(* ascii_map.  A key is named for its character, but ENTER is on the       *)
(* keyboard twice, as two keys with one character.                         *)
build_ascii_map ==
    [key \in Chars \cup {"backspace", "enter", "kp_enter"} |->
       CASE key = "backspace" -> "bs" [] key \in {"enter", "kp_enter"} -> "\n" [] OTHER -> key]
to_char(key) == IF key \in DOMAIN build_ascii_map THEN build_ascii_map[key] ELSE NUL

WaitSwap ==
    /\ stage = "key" /\ fb.dirty /\ fb' = Swap(fb)
    /\ UNCHANGED <<stage, printing, line, command, history, typed, clean, bounds>>

BackspaceKey ==
    /\ Key /\ stage' = "swap"
    /\ IF i = 0 THEN UNCHANGED <<fb, line, typed>>
       ELSE /\ fb' = PutChar(fb, "bs")
            /\ i' = i - 1
            /\ buffer' = IF i - 1 < BufSize THEN [buffer EXCEPT ![i - 1] = NUL] ELSE buffer
            /\ typed' = IF typed = <<>> THEN typed ELSE SubSeq(typed, 1, Len(typed) - 1)
    /\ UNCHANGED <<printing, command, history, clean>>

(* A tab moves the index by TAB_SIZE and writes one character; the         *)
(* keypad's ENTER is a character of the line, which nothing runs.          *)
CharKey(c) ==
    /\ Key /\ stage' = "swap" /\ c # NUL
    /\ IF i >= BufSize - 1 THEN UNCHANGED <<fb, line, typed, clean>>
       ELSE /\ fb' = PutChar(fb, c)
            /\ buffer' = [buffer EXCEPT ![i] = c]
            /\ i' = IF c = "\t" THEN i + TabSize ELSE i + 1
            /\ typed' = Append(typed, c)
            /\ clean' = (clean /\ c \notin {"\t", "\n"})
    /\ UNCHANGED <<printing, command, history>>

(* The oldest command is taken from the ring, or an empty one if there is  *)
(* none; the text goes into the buffer, without its length.                *)
UpKey ==
    /\ Key
    /\ LET recalled == IF history = <<>> THEN [k \in 0..BufSize - 1 |-> NUL]
                       ELSE Head(history)
       IN /\ buffer' = Memmove(recalled, 0, 0, BufSize)
          /\ Printf(<<"%", "s">>, <<CString(recalled, 0)>>, "swap")
    /\ history' = IF history = <<>> THEN history ELSE Tail(history)
    /\ clean' = FALSE
    /\ UNCHANGED <<fb, i, command, typed>>

(* Keys without a character, such as SHIFT: nothing happens. *)
OtherKey ==
    /\ Key /\ stage' = "swap" /\ to_char("shift") = NUL
    /\ UNCHANGED <<fb, printing, line, command, history, typed, clean>>

----------------------------------------------------------------------------
(* A line is finished.  buf is the buffer with its NUL; the loops scan it  *)
(* from an index and return where they stop.                               *)

SkipSpaces(buf, k) == FirstFrom({e \in PlacesFrom(buf, k) : At(buf, e) # " "}, k)
SkipWord(buf, k) == FirstFrom({e \in PlacesFrom(buf, k) : At(buf, e) \in {NUL, " "}}, k)

CommandName(buf) ==
    LET from == SkipSpaces(buf, 0)
    IN [n \in 1..SkipWord(buf, from) - from |-> buf[from + n - 1]]

(* MUTANT: the search for a word does not skip the spaces before it. *)
ArgsFromUnskipped(buf, k) ==
    LET Turn(s) == IF At(buf, s.at) = NUL THEN s
                   ELSE [at |-> SkipWord(buf, s.at + 1), found |-> Append(s.found, s.at)]
        turn[n \in 0..BufSize] ==
          IF n = 0 THEN [at |-> k, found |-> <<>>] ELSE Turn(turn[n - 1])
    IN turn[BufSize].found

(* Each turn of the first loop finds a word, each turn of the second makes *)
(* the first space behind a word its NUL.                                  *)
ArgsTurn(buf, s) ==
    LET from == SkipSpaces(buf, s.at)
    IN IF At(buf, from) = NUL THEN s
       ELSE [at |-> SkipWord(buf, from), found |-> Append(s.found, from)]

ArgsFrom(buf, k) ==
    LET turn[n \in 0..BufSize] ==
          IF n = 0 THEN [at |-> k, found |-> <<>>] ELSE ArgsTurn(buf, turn[n - 1])
    IN turn[BufSize].found

SplitTurn(s) ==
    LET space == SkipWord(s.text, s.at)
    IN IF At(s.text, space) = NUL THEN s
       ELSE [at |-> SkipSpaces(s.text, space + 1), text |-> [s.text EXCEPT ![space] = NUL]]

Split(buf, k) ==
    LET turn[n \in 0..BufSize] ==
          IF n = 0 THEN [at |-> k, text |-> buf] ELSE SplitTurn(turn[n - 1])
    IN turn[BufSize].text

(* buffer[i] = '\0' is outside when a tab has moved i there, and the       *)
(* array of arguments has no check: what is overwritten then is unknown.   *)
EnterKey ==
    /\ Key
    /\ fb' = PutChar(fb, "\n")
    /\ LET ended == [buffer EXCEPT ![i] = NUL]
           words == ArgsFrom(ended, 0)
       IN IF i >= BufSize \/ Len(words) > MaxArgs
          THEN stage' = "corrupt" /\ UNCHANGED <<buffer, command>>
          ELSE /\ stage' = "run"
               /\ name' = CommandName(ended) /\ args' = words
               /\ buffer' = Split(ended, 0)
    /\ UNCHANGED <<printing, i, history, typed, clean>>

Word(k) == CString(buffer, args[k])

Found(n) == \E c \in DOMAIN Commands : Commands[c].name = n

Kind == Commands[CHOOSE c \in DOMAIN Commands :
                   /\ Commands[c].name = name
                   /\ \A b \in 1..c - 1 : Commands[b].name # name].kind

Running(kind) ==
    /\ stage = "run" /\ Found(name) /\ Kind = kind
    /\ UNCHANGED <<line, command, history, typed, clean, bounds>>

(* help, size, colors and usb print, or do nothing. *)
PrintCommand ==
    /\ Running("print") /\ UNCHANGED fb
    /\ Printf(<<"&", "9", "h", "\n">>, <<>>, "prompt")

NothingCommand ==
    /\ Running("nothing") /\ stage' = "prompt" /\ UNCHANGED <<fb, printing>>

(* heap and pci print in the kernel. *)
KernelCommand ==
    /\ Running("kernel") /\ stage' = "prompt"
    /\ fb' = Log(fb, <<"k">>, <<>>)
    /\ UNCHANGED printing

(* partitions has list_partitions read the header, which has been freed or *)
(* is not there, as many entries of the vector as that one says, and the   *)
(* device, which was on the stack of Init: it prints something, or         *)
(* nothing, or faults.                                                     *)
ListCommand ==
    /\ Running("list") /\ stage' \in {"prompt", "stopped"}
    /\ fb' \in {fb, Log(fb, <<"k">>, <<>>)}
    /\ UNCHANGED printing

(* framebuffer::clear turns interrupts off first, and cli faults in ring 3;  *)
(* poweroff waits for ENTER, and the first halt or the outw after the wait   *)
(* faults unless ENTER is already in the ring.                               *)
ClearCommand == Running("clear") /\ stage' = "stopped" /\ UNCHANGED <<fb, printing>>

PoweroffCommand ==
    /\ Running("poweroff") /\ UNCHANGED fb
    /\ \E cancelled \in BOOLEAN :
         Printf(<<"&", "c", "\t", "S", "\n">>, <<>>, IF cancelled THEN "prompt" ELSE "stopped")

(* The options of sleep, in microseconds; the last number and the last     *)
(* unit count, but -us stays.                                              *)
SleepTime ==
    LET Is(k, w) == Word(k) = w
        opts == 2..Len(args)
        numbers == {k \in opts : Is(k, <<"-t">>) /\ k < Len(args)}
        wait == IF numbers = {} THEN 1
                ELSE StrToInt(Word(1 + CHOOSE k \in numbers : \A j \in numbers : j <= k))
        us == \E k \in opts : Is(k, <<"-us">>)
        units == {k \in opts : Word(k) \in {<<"-us">>, <<"-ms">>, <<"-s">>}}
        seconds == IF units = {} THEN TRUE
                   ELSE Is(CHOOSE k \in units : \A j \in units : j <= k, <<"-s">>)
    IN <<wait, (IF us THEN wait ELSE IF seconds THEN wait * 1000000 ELSE wait * 1000)
               % 2^LongBits>>

SleepCommand ==
    /\ Running("sleep") /\ UNCHANGED fb
    /\ IF \E k \in 2..Len(args) : Word(k) = <<"-h">>
       THEN Printf(<<"&", "7", "u", "\n">>, <<>>, "prompt")
       ELSE Printf(<<"%", "l", "\n">>, <<ToStr(SleepTime[1], LongBits)>>, "sleep")

ChessCommand == Running("chess") /\ stage' = "chess" /\ UNCHANGED <<fb, printing>>

(* The program has no end. *)
Chess ==
    /\ stage = "chess" /\ fb' = ChessFrame(fb)
    /\ UNCHANGED <<stage, printing, line, command, history, typed, clean, bounds>>

UnknownCommand ==
    /\ stage = "run" /\ ~Found(name)
    /\ Printf(<<"&", "7", "?", "&", "c", "%", "s", " ", "\n">>, <<CString(buffer, 0)>>, "sleep")
    /\ UNCHANGED <<fb, line, command, history, typed, clean, bounds>>

(* sys_sleep swaps, and halts with interrupts on until its timer.  For no  *)
(* time at all the timer is set to what has gone by, and nothing comes; a  *)
(* timer may also be missed otherwise, which is in HpetSleep.              *)
NoTime == Found(name) /\ SleepTime[2] = 0
SleepBegin ==
    /\ stage = "sleep" /\ fb' = Swap(fb)
    /\ stage' \in IF NoTime THEN {"forever"} ELSE {"asleep", "forever"}
    /\ UNCHANGED <<printing, line, command, history, typed, clean, bounds>>

SleepEnd ==
    /\ stage = "asleep" /\ stage' = "prompt"
    /\ UNCHANGED <<fb, printing, line, command, history, typed, clean, bounds>>

(* The command is remembered as the buffer is now, and dropped when the    *)
(* ring is full.                                                           *)
Prompt ==
    /\ stage = "prompt"
    /\ history' = IF Len(history) < HistSize - 1 THEN Append(history, buffer) ELSE history
    /\ i' = 0 /\ typed' = <<>> /\ clean' = TRUE
    /\ Printf(PromptText, <<>>, "swap")
    /\ UNCHANGED <<fb, buffer, command, bounds>>

----------------------------------------------------------------------------
(* A handler logs a line. *)
InterruptLogs ==
    /\ logs < MaxLogs /\ logs' = logs + 1
    /\ stage \notin {"stopped", "corrupt"}
    /\ fb' = Log(fb, <<"l">>, <<>>)
    /\ clean' = FALSE
    /\ UNCHANGED <<stage, printing, line, command, history, typed, keys>>

Keyboard ==
    \/ BackspaceKey \/ EnterKey \/ UpKey \/ OtherKey
    \/ \E key \in DOMAIN build_ascii_map \ {"backspace", "enter"} : CharKey(to_char(key))

RunCommand ==
    \/ PrintCommand \/ NothingCommand \/ KernelCommand \/ ListCommand \/ ClearCommand \/ PoweroffCommand
    \/ SleepCommand \/ ChessCommand \/ UnknownCommand

ShellStep ==
    \/ PrintChar \/ Printed \/ SwapFramebuffer \/ RunCommand \/ Chess \/ SleepBegin \/ SleepEnd
    \/ Prompt

ShellNext == Keyboard \/ WaitSwap \/ ShellStep \/ InterruptLogs

ShellSpec == ShellInit /\ [][ShellNext]_shellVars

(* The shell goes on, and a handler's interrupt ends the halt in get_char. *)
ShellFairSpec == ShellSpec /\ WF_shellVars(ShellStep) /\ WF_shellVars(WaitSwap)

----------------------------------------------------------------------------

(* As long as no log, tab, keypad ENTER or recall has come between, the    *)
(* screen shows the prompt and behind it, up to the cursor, exactly the    *)
(* line that ENTER will run, also where it wraps, scrolls or has been      *)
(* rubbed out.                                                             *)
LineShown ==
    (stage \in {"swap", "key"} /\ clean) =>
      LET end == fb.y * Width + fb.x
      IN /\ \A k \in 1..i : fb.back[end - k] = buffer[i - k]
         /\ fb.back[end - i - 1] = PromptChar

(* What a command gets is what was typed: its words are the runs of        *)
(* non-spaces of the typed line, in their order, each readable as a text   *)
(* at its place in the buffer, and the first is the name that is looked    *)
(* up.                                                                     *)
IsWord(s, from, to) ==
    /\ from <= to
    /\ \A k \in from..to : s[k] # " "
    /\ from = 1 \/ s[from - 1] = " "
    /\ to = Len(s) \/ s[to + 1] = " "
TypedWords(s) == {w \in (1..Len(s)) \X (1..Len(s)) : IsWord(s, w[1], w[2])}
WordsRun ==
    (stage = "run" /\ clean) =>
      /\ Len(args) = Cardinality(TypedWords(typed))
      /\ \A k \in DOMAIN args : \E w \in TypedWords(typed) :
           /\ Word(k) = SubSeq(typed, w[1], w[2])
           /\ Cardinality({v \in TypedWords(typed) : v[1] < w[1]}) = k - 1
      /\ name = IF args = <<>> THEN <<>> ELSE Word(1)

(* Whatever is in the back buffer, such as what a handler has logged, also *)
(* in the middle of the boot's last swap, gets on the screen, also when    *)
(* nobody presses a key, unless the shell's own fault has stopped the      *)
(* machine or a sleep does not end.                                        *)
LogsShown ==
    fb.back # fb.front ~>
        (fb.back = fb.front \/ stage \in {"stopped", "corrupt", "forever"})
=============================================================================
