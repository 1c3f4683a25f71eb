------------------------------ MODULE KeyQueue ------------------------------
(***************************************************************************)
(* The path of a key stroke: the 8042 controller raises IRQ 1 for every    *)
(* byte, keyboard_interrupt (Drivers/ps2/ps2.cpp) decodes it and pushes    *)
(* the key code into kb::buf (a mem::Ring_Buffer), and the one thread of   *)
(* the kernel takes it out: get_char inside the get_key system call, with  *)
(* interrupts off except while it sleeps, or read_char called by           *)
(* Time::WaitForKey in ring 3, with interrupts on.                         *)
(*                                                                         *)
(* The interrupt handler runs to its end with interrupts off, so it is one *)
(* step; the reader takes one step per access to the shared ring, and the  *)
(* handler may run between any two of them while interrupts are on.        *)
(* `sti; hlt` is one step: no interrupt is taken between the two.          *)
(***************************************************************************)
EXTENDS Integers, Sequences

CONSTANTS Size,      \* slots of the ring (256 in Keyboard.cpp)
          Keys,      \* keys: [ext |-> sent after an 0xE0 byte?, sc |-> scan code]
          NoKey,     \* not a key
          NoByte,    \* the output buffer of the controller is empty
          MaxTicks   \* bound: timer ticks WaitForKey waits at most

(* keyboard_interrupt: the key code a scan code is stored under. *)
Code(k) == IF k.ext THEN (k.sc + 89) % 256 ELSE k.sc

ASSUME SizeAssumption == Size \in Nat /\ Size > 1

(* Set 1 scan codes are 7 bits, a code of 0x60 would look like the 0xE0    *)
(* prefix when released, and the two sets of keys get different codes.     *)
ASSUME KeysAssumption ==
    /\ \A k \in Keys : k.ext \in BOOLEAN /\ k.sc \in 1..127 /\ k.sc # 96
    /\ \A k1, k2 \in Keys : Code(k1) = Code(k2) => k1 = k2
    /\ NoKey \notin Keys

ASSUME TickAssumption == MaxTicks \in Nat

Bytes == 0..255
ASSUME ByteAssumption == NoByte \notin Bytes

KEY_NULL == 0
Codes == {KEY_NULL} \cup {Code(k) : k \in Keys}

VARIABLES
    wire,       \* bytes of the key stroke the keyboard has still to send
    typing,     \* the key that stroke presses, NoKey for a release
    obf,        \* the byte in the controller's output buffer (its IRQ is pending)
    extended,   \* drivers::ps2::extended
    data, head, tail,    \* kb::buf
    intr,       \* RFLAGS.IF
    halted,     \* the CPU sleeps in hlt
    pc,         \* where the thread is
    waiting,    \* inside WaitForKey, for this key; NoKey inside get_char
    ticks,      \* timer ticks until WaitForKey gives up
    sc,         \* the local of get_char and read_char
    last        \* the value the last read returned

controller == <<wire, typing, obf>>
ring == <<extended, data, head, tail>>
cpu == <<intr, halted, pc, waiting, ticks>>
vars == <<wire, typing, obf, extended, data, head, tail, intr, halted, pc,
          waiting, ticks, sc, last>>

Init ==
    /\ wire = <<>> /\ typing = NoKey /\ obf = NoByte
    /\ extended = FALSE
    /\ data = [i \in 0..Size - 1 |-> 0] /\ head = 0 /\ tail = 0
    /\ intr = TRUE /\ halted = FALSE /\ pc = "user"
    /\ waiting = NoKey /\ ticks = 0
    /\ sc = 0 /\ last = KEY_NULL

----------------------------------------------------------------------------
(* The keyboard and its controller. *)

(* The bytes of pressing key k, or of letting it go. *)
Stroke(k, up) ==
    LET byte == IF up THEN k.sc + 128 ELSE k.sc
    IN IF k.ext THEN <<224, byte>> ELSE <<byte>>

Press(k) ==
    /\ wire = <<>> /\ obf = NoByte
    /\ wire' = Stroke(k, FALSE) /\ typing' = k
    /\ UNCHANGED <<obf, ring, cpu, sc, last>>

Release(k) ==
    /\ wire = <<>> /\ obf = NoByte
    /\ wire' = Stroke(k, TRUE)
    /\ UNCHANGED <<typing, obf, ring, cpu, sc, last>>

(* The controller takes a byte only when the previous one has been read. *)
ByteArrives ==
    /\ wire # <<>> /\ obf = NoByte
    /\ obf' = Head(wire) /\ wire' = Tail(wire)
    /\ UNCHANGED <<typing, ring, cpu, sc, last>>

----------------------------------------------------------------------------
(* Interrupts. *)

NextIndex(i) == (i + 1) % Size
Empty == tail = head

(* MUTANT: a full ring is not noticed. *)
PushUnchecked(c) == data' = [data EXCEPT ![head] = c] /\ head' = NextIndex(head)

(* mem::Ring_Buffer::push: a full ring drops the value. *)
Push(c) ==
    IF NextIndex(head) = tail
    THEN UNCHANGED <<data, head>>
    ELSE data' = [data EXCEPT ![head] = c] /\ head' = NextIndex(head)

IsPrefix(raw) == raw = 224
IsRelease(raw) == raw \div 128 = 1
KeyCode(raw) == Code([ext |-> extended, sc |-> raw % 128])

(* keyboard_interrupt, entered from hlt or between two steps of the thread. *)
KeyboardInterrupt ==
    /\ intr /\ obf # NoByte
    /\ IF IsPrefix(obf)
       THEN extended' = TRUE /\ UNCHANGED <<typing, data, head>>
       ELSE /\ IF IsRelease(obf)
               THEN UNCHANGED <<typing, data, head>>
               ELSE Push(KeyCode(obf)) /\ typing' = NoKey
            /\ extended' = FALSE
    /\ obf' = NoByte /\ halted' = FALSE
    /\ UNCHANGED <<wire, tail, intr, pc, waiting, ticks, sc, last>>

(* The periodic timer: isr_common counts Time::tick and hlt ends. *)
TimerInterrupt ==
    /\ intr
    /\ halted \/ ticks > 0
    /\ halted' = FALSE
    /\ ticks' = IF ticks > 0 THEN ticks - 1 ELSE 0
    /\ UNCHANGED <<controller, ring, intr, pc, waiting, sc, last>>

----------------------------------------------------------------------------
(* The thread: the get_key system call and kb::get_char. *)

(* MUTANT: the system call leaves interrupts on. *)
SysGetKeyInterruptible ==
    /\ pc = "user"
    /\ pc' = "empty"
    /\ UNCHANGED <<controller, ring, intr, halted, waiting, ticks, sc, last>>

(* syscall clears RFLAGS.IF (FMASK); the shell runs with interrupts on. *)
SysGetKey ==
    /\ pc = "user"
    /\ intr' = FALSE /\ pc' = "empty"
    /\ UNCHANGED <<controller, ring, halted, waiting, ticks, sc, last>>

(* while (buf.empty()) *)
GetCharEmpty ==
    /\ pc = "empty"
    /\ pc' = IF Empty THEN "swap" ELSE "pop"
    /\ UNCHANGED <<controller, ring, intr, halted, waiting, ticks, sc, last>>

(* MUTANT: hlt without sti. *)
GetCharHaltNoSti ==
    /\ pc = "swap"
    /\ halted' = TRUE /\ pc' = "cli"
    /\ UNCHANGED <<controller, ring, intr, waiting, ticks, sc, last>>

(* fb.swap(), then sti; hlt *)
GetCharHalt ==
    /\ pc = "swap"
    /\ intr' = TRUE /\ halted' = TRUE /\ pc' = "cli"
    /\ UNCHANGED <<controller, ring, waiting, ticks, sc, last>>

(* cli, once an interrupt has ended hlt; more may have been taken since. *)
GetCharCli ==
    /\ pc = "cli" /\ ~halted
    /\ intr' = FALSE /\ pc' = "empty"
    /\ UNCHANGED <<controller, ring, halted, waiting, ticks, sc, last>>

----------------------------------------------------------------------------
(* mem::Ring_Buffer::pop, called by get_char and read_char. *)

Caller == IF waiting = NoKey THEN "get_char" ELSE "read_char"

(* Back in the shell with interrupts on, or in WaitForKey's loop. *)
Return(value) ==
    /\ last' = value
    /\ pc' = IF Caller = "get_char" THEN "user" ELSE "compare"
    /\ intr' = TRUE

(* if (tail == head) return false: both callers ignore the result and      *)
(* return their local as it is.                                            *)
PopBegin ==
    /\ pc = "pop"
    /\ IF Empty THEN Return(sc) ELSE pc' = "data" /\ UNCHANGED <<intr, last>>
    /\ UNCHANGED <<controller, ring, halted, waiting, ticks, sc>>

PopData ==
    /\ pc = "data"
    /\ sc' = data[tail] /\ pc' = "tail"
    /\ UNCHANGED <<controller, ring, intr, halted, waiting, ticks, last>>

PopTail ==
    /\ pc = "tail"
    /\ tail' = NextIndex(tail)
    /\ Return(sc)
    /\ UNCHANGED <<controller, extended, data, head, halted, waiting, ticks, sc>>

----------------------------------------------------------------------------
(* Time::WaitForKey, called by the poweroff command of the shell in ring 3. *)

WaitForKey(k, t) ==
    /\ pc = "user"
    /\ waiting' = k /\ ticks' = t /\ pc' = "time"
    /\ UNCHANGED <<controller, ring, intr, halted, sc, last>>

LeaveWaitForKey ==
    /\ waiting' = NoKey /\ ticks' = 0 /\ pc' = "user"
    /\ UNCHANGED <<controller, ring, intr, halted, sc, last>>

(* while (tick < end) *)
WaitTimeout == pc = "time" /\ ticks = 0 /\ LeaveWaitForKey

WaitAgain ==
    /\ pc = "time" /\ ticks > 0
    /\ pc' = "read"
    /\ UNCHANGED <<controller, ring, intr, halted, waiting, ticks, sc, last>>

(* read_char: KEY_NULL when nothing waits. *)
ReadCharNull ==
    /\ pc = "read" /\ Empty
    /\ Return(KEY_NULL)
    /\ UNCHANGED <<controller, ring, halted, waiting, ticks, sc>>

ReadChar ==
    /\ pc = "read" /\ ~Empty
    /\ pc' = "pop"
    /\ UNCHANGED <<controller, ring, intr, halted, waiting, ticks, sc, last>>

WaitFound == pc = "compare" /\ last = Code(waiting) /\ LeaveWaitForKey

(* x64::halt is `sti; hlt`: in ring 3, with IOPL 0, `sti` raises #GP and   *)
(* isr_common stops the CPU with `cli; hlt`.                               *)
WaitHalt ==
    /\ pc = "compare" /\ last # Code(waiting)
    /\ pc' = "dead" /\ intr' = FALSE /\ halted' = TRUE
    /\ UNCHANGED <<controller, ring, waiting, ticks, sc, last>>

GetChar == GetCharEmpty \/ GetCharHalt \/ GetCharCli
Pop == PopBegin \/ PopData \/ PopTail
Wait == WaitTimeout \/ WaitAgain \/ ReadCharNull \/ ReadChar \/ WaitFound \/ WaitHalt

Next ==
    \/ \E k \in Keys : Press(k) \/ Release(k)
    \/ ByteArrives \/ KeyboardInterrupt \/ TimerInterrupt
    \/ SysGetKey \/ GetChar \/ Pop
    \/ \E k \in Keys, t \in 0..MaxTicks : WaitForKey(k, t)
    \/ Wait

(* The CPU runs, the keyboard sends what it has begun, and an interrupt     *)
(* that is pending is taken when interrupts are on: the local APIC holds it *)
(* until then, however short that time is (hence SF).  Nothing makes the    *)
(* shell call or the user type, and no timer tick is relied on.             *)
Fairness ==
    /\ WF_vars(GetChar \/ Pop \/ Wait)
    /\ WF_vars(ByteArrives)
    /\ SF_vars(KeyboardInterrupt)

Spec == Init /\ [][Next]_vars
FairSpec == Spec /\ Fairness

----------------------------------------------------------------------------
(* Properties. *)

TypeOK ==
    /\ wire \in Seq(Bytes) /\ Len(wire) <= 2
    /\ typing \in Keys \cup {NoKey}
    /\ obf \in Bytes \cup {NoByte}
    /\ extended \in BOOLEAN /\ intr \in BOOLEAN /\ halted \in BOOLEAN
    /\ data \in [0..Size - 1 -> Codes]
    /\ head \in 0..Size - 1 /\ tail \in 0..Size - 1
    /\ pc \in {"user", "empty", "swap", "cli", "pop", "data", "tail",
               "time", "read", "compare", "dead"}
    /\ waiting \in Keys \cup {NoKey} /\ ticks \in 0..MaxTicks
    /\ sc \in Codes /\ last \in Codes

(* Whoever gets as far as pop finds a key there, so nobody returns the      *)
(* uninitialised local: get_char looks again after every wake-up, and no    *)
(* one else takes keys between its look and its pop.                        *)
PopFindsKey == pc \in {"pop", "data", "tail"} => ~Empty

(* get_char never sleeps on a key: the CPU is in its hlt only while the     *)
(* ring is empty.  The look, `sti; hlt` and the push of the interrupt       *)
(* handler leave no window in which a key arrives unseen.                   *)
NoLostWakeup == (pc = "cli" /\ halted) => Empty

(* A key that goes down while the shell is inside get_char brings it back,  *)
(* by its own interrupt: no timer tick is needed.                           *)
KeyWakesReader ==
    (typing # NoKey /\ pc \in {"empty", "swap", "cli"}) ~> (pc = "user")

(* Keys reach the shell in the order they were typed, each once and decoded *)
(* to the key it was, and only those that find the ring full are dropped.   *)
KeyOf(c) == IF c = KEY_NULL THEN NoKey ELSE CHOOSE k \in Keys : Code(k) = c
Fifo == INSTANCE KeyFifo WITH
            Capacity <- Size - 1,
            queue <- [i \in 1..((head - tail) % Size) |-> KeyOf(data[(tail + i - 1) % Size])],
            last <- KeyOf(last)
ImplementsKeyFifo == Fifo!Spec

=============================================================================
