----------------------------- MODULE HpetSleep -----------------------------
(***************************************************************************)
(* Sleeping on the HPET (Drivers/hpet/hpet.cpp): hpet::init finds a vector *)
(* of its own for every timer, hpet::sleep arms a free timer and halts the *)
(* CPU until the timer's interrupt has disarmed it.                        *)
(*                                                                         *)
(* The main counter is not kept: comparators and deadlines are the number  *)
(* of counter ticks that are left.  An interrupt runs to its end with      *)
(* interrupts off, so it is one step; it may come between any two steps of *)
(* the thread while interrupts are on.  `sti; hlt` is one step.            *)
(***************************************************************************)
EXTENDS Integers, FiniteSets

CONSTANTS NumTimers,     \* timers of the HPET, 32 entries of timers[] at most
          NumVectors,    \* interrupt vectors a timer can ask for (30)
          NumIrqs,       \* vectors Install_handler accepts (24)
          Wirings,       \* possible overrides in the MADT: interrupt -> pin
          Capabilities,  \* possible supported_interrupt_vectors of all timers
          HpetFound,     \* does ACPI describe an HPET?
          OtherIrqs,     \* vectors that other devices raise too
          TicksPerMs, TicksPerUs, UsPerMs,
          MinSleep, MaxSleep   \* bounds: the sleeps asked for, in their unit

Timers == 0..NumTimers - 1
Vectors == 0..NumVectors - 1
NoVector == 255

ASSUME TimersAssumption == NumTimers \in 1..32 /\ NumVectors \in 1..30
ASSUME CapabilitiesAssumption == Capabilities \subseteq [Timers -> SUBSET Vectors]
ASSUME UnitsAssumption ==
    TicksPerMs \in Nat \ {0} /\ TicksPerUs \in Nat \ {0} /\ UsPerMs \in Nat \ {0}
ASSUME WiringsAssumption == Wirings \subseteq [Vectors -> Nat]
ASSUME BoundAssumption == MinSleep \in Nat /\ MaxSleep \in Nat /\ NumIrqs \in Nat
ASSUME FlagsAssumption ==
    HpetFound \in BOOLEAN /\ OtherIrqs \subseteq Vectors

VARIABLES
    caps,      \* the pins of the I/O APIC each timer can raise
    gsi,       \* what resolve_irq makes of an interrupt's number: its pin
    routes,    \* the vector each pin of the I/O APIC is sent to
    exists, vec,         \* timers[].exists, timers[].vec
    used,      \* used_vectors
    num,       \* the timer timer::init is called for next
    armed,     \* is_timer_armed
    left,      \* counter ticks until a comparator matches, 0 when it does not
    raised,    \* vectors the timers have raised and the CPU has not taken
    intr, halted,        \* RFLAGS.IF, and the CPU sleeps in hlt
    pc, timer, \* the thread, and the timer it uses
    ticks,     \* the argument of hpet::sleep
    togo,      \* counter ticks until the value written to the comparator
    due,       \* counter ticks until the time the caller meant is over
    late,      \* history: the deadline had passed before it was programmed
    caller     \* who sleeps: "kernel" (Time::Sleep) or "user" (sys_sleep)

setup == <<caps, gsi, routes, exists, vec, used, num>>
hardware == <<left, raised>>
clock == <<left, raised, togo, due, late>>
vars == <<setup, armed, clock, intr, halted, pc, timer, ticks, caller>>

Init ==
    /\ caps \in Capabilities /\ gsi \in Wirings
    /\ routes = [p \in Vectors |-> NoVector]
    /\ exists = [t \in Timers |-> FALSE] /\ vec = [t \in Timers |-> NoVector]
    /\ used = {} /\ num = 0
    /\ armed = [t \in Timers |-> FALSE]
    /\ left = [t \in Timers |-> 0] /\ raised = {}
    /\ intr = TRUE /\ halted = FALSE
    /\ pc = IF HpetFound THEN "init" ELSE "idle"
    /\ timer = 0 /\ ticks = 0 /\ togo = 0 /\ due = 0 /\ late = FALSE
    /\ caller = "kernel"

----------------------------------------------------------------------------
(* hpet::init calls timer::init for every timer. *)

(* The vectors timer t can raise and no other timer has. *)
FreeVectors(t) == caps[t] \ used

NextTimer ==
    /\ num' = num + 1
    /\ pc' = IF num' = NumTimers THEN "idle" ELSE "init"

(* Install_handler: refuses, without a word to its caller, a vector it     *)
(* cannot route, and sends the interrupt's pin to the first handler's      *)
(* vector, as this one is: vectors are given out once, and no driver has   *)
(* installed a handler before hpet::init.                                  *)
InstallHandler(v) ==
    routes' = IF v < NumIrqs THEN [p \in Vectors |-> IF p = gsi[v] THEN v ELSE routes[p]]
              ELSE routes

(* The lowest free vector; the timer will raise the pin of that number.    *)
InitTimer ==
    /\ pc = "init"
    /\ \E v \in FreeVectors(num) :
        /\ \A w \in FreeVectors(num) : v <= w
        /\ used' = used \cup {v}
        /\ vec' = [vec EXCEPT ![num] = v]
        /\ exists' = [exists EXCEPT ![num] = TRUE]
        /\ InstallHandler(v)
    /\ NextTimer
    /\ UNCHANGED <<caps, gsi, armed, clock, intr, halted, timer, ticks, caller>>

NoVectorForTimer ==
    /\ pc = "init" /\ FreeVectors(num) = {}
    /\ NextTimer
    /\ UNCHANGED <<caps, gsi, routes, exists, vec, used, armed, clock, intr, halted, timer, ticks, caller>>

----------------------------------------------------------------------------
(* The HPET and the interrupts. *)

Countdown(n) == IF n > 0 THEN n - 1 ELSE 0

(* The main counter moves on; a comparator that matches raises the pin of  *)
(* its timer.  It does not match a deadline that has passed.               *)
CounterTick ==
    /\ togo > 0 \/ due > 0 \/ \E t \in Timers : left[t] > 0
    /\ left' = [t \in Timers |-> Countdown(left[t])]
    /\ raised' = raised \cup ({routes[vec[t]] : t \in {u \in Timers : left[u] = 1}} \ {NoVector})
    /\ togo' = Countdown(togo) /\ due' = Countdown(due)
    /\ UNCHANGED <<setup, armed, late, intr, halted, pc, timer, ticks, caller>>

(* The vectors with the handler, which disarms the first of their timers.  *)
Installed == {v \in used : v < NumIrqs}
Owners(v) == {t \in Timers : exists[t] /\ vec[t] = v}
Disarm(v) ==
    armed' = [t \in Timers |->
                 armed[t] /\ ~(v \in Installed /\ t \in Owners(v) /\ \A u \in Owners(v) : t <= u)]

HpetInterrupt(v) ==
    /\ intr /\ v \in raised
    /\ raised' = raised \ {v}
    /\ Disarm(v) /\ halted' = FALSE
    /\ UNCHANGED <<setup, left, intr, pc, timer, ticks, togo, due, late, caller>>

(* What the PIT raises, which calibrate_aPIC_timer leaves running: the pin *)
(* of interrupt 0.                                                         *)
PitVectors == {routes[p] : p \in Vectors \cap {gsi[0]}}

(* Another device behind the same vector: isr_common runs all handlers.    *)
OtherInterrupt(v) ==
    /\ intr /\ v \in OtherIrqs \cup PitVectors
    /\ Disarm(v) /\ halted' = FALSE
    /\ UNCHANGED <<setup, hardware, intr, pc, timer, ticks, togo, due, late, caller>>

(* MUTANT: there is no periodic timer. *)
PeriodicInterruptNever == FALSE /\ UNCHANGED vars

(* The local APIC's timer, which Set_PIT programmed to be periodic.  Its   *)
(* vector, 32, is that of interrupt 0, and isr_common runs what is         *)
(* installed there.                                                        *)
PeriodicInterrupt ==
    /\ intr
    /\ Disarm(0) /\ halted' = FALSE
    /\ UNCHANGED <<setup, clock, intr, pc, timer, ticks, caller>>

----------------------------------------------------------------------------
(* The thread: Time::Sleep and the sleep system call, then hpet::sleep.    *)

(* Time::Sleep(t): t milliseconds. *)
Sleep(t) ==
    /\ pc = "idle"
    /\ ticks' = t * TicksPerMs /\ due' = t * TicksPerMs /\ togo' = 0 /\ late' = FALSE
    /\ caller' = "kernel" /\ pc' = "pick"
    /\ UNCHANGED <<setup, hardware, armed, intr, halted, timer>>

(* sys_sleep(t), declared as milliseconds, enters the kernel with          *)
(* interrupts off; the dispatcher calls sleep_us(t).                       *)
SysSleep(t) ==
    /\ pc = "idle"
    /\ ticks' = t * TicksPerUs /\ due' = t * UsPerMs * TicksPerUs /\ togo' = 0 /\ late' = FALSE
    /\ caller' = "user" /\ pc' = "pick" /\ intr' = FALSE
    /\ UNCHANGED <<setup, hardware, armed, halted, timer>>

Return == pc' = "idle" /\ intr' = TRUE

Usable == {t \in Timers : exists[t] /\ ~armed[t]}

(* The first usable timer is taken and the main counter read. *)
PickTimer ==
    /\ pc = "pick"
    /\ \E t \in Usable :
        /\ \A u \in Usable : t <= u
        /\ timer' = t
    /\ togo' = ticks /\ pc' = "arm"
    /\ UNCHANGED <<setup, hardware, armed, intr, halted, ticks, due, late, caller>>

NoTimer ==
    /\ pc = "pick" /\ Usable = {}
    /\ Return
    /\ UNCHANGED <<setup, armed, clock, halted, timer, ticks, caller>>

(* timer::set: the flag, then the comparator. *)
Arm ==
    /\ pc = "arm"
    /\ armed' = [armed EXCEPT ![timer] = TRUE]
    /\ pc' = "write"
    /\ UNCHANGED <<setup, clock, intr, halted, timer, ticks, caller>>

WriteComparator ==
    /\ pc = "write"
    /\ left' = [left EXCEPT ![timer] = togo]
    /\ late' = (togo = 0)
    /\ pc' = "check"
    /\ UNCHANGED <<setup, raised, armed, intr, halted, timer, ticks, togo, due, caller>>

StillArmed ==
    /\ pc = "check" /\ armed[timer]
    /\ pc' = "halt"
    /\ UNCHANGED <<setup, clock, armed, intr, halted, timer, ticks, caller>>

Woken ==
    /\ pc = "check" /\ ~armed[timer]
    /\ Return
    /\ UNCHANGED <<setup, clock, armed, halted, timer, ticks, caller>>

(* `sti; hlt` of x64::halt. *)
Halt ==
    /\ pc = "halt"
    /\ intr' = TRUE /\ halted' = TRUE /\ pc' = "resume"
    /\ UNCHANGED <<setup, clock, armed, timer, ticks, caller>>

(* MUTANT: the sleep ends with the first interrupt. *)
ResumeReturns ==
    /\ pc = "resume" /\ ~halted
    /\ pc' = "idle"
    /\ UNCHANGED <<setup, clock, armed, intr, halted, timer, ticks, caller>>

Resume ==
    /\ pc = "resume" /\ ~halted
    /\ pc' = "check"
    /\ UNCHANGED <<setup, clock, armed, intr, halted, timer, ticks, caller>>

----------------------------------------------------------------------------
Boot == InitTimer \/ NoVectorForTimer

Thread ==
    \/ PickTimer \/ NoTimer \/ Arm \/ WriteComparator
    \/ StillArmed \/ Woken \/ Halt \/ Resume

Call == \E t \in MinSleep..MaxSleep : Sleep(t) \/ SysSleep(t)

Interrupt ==
    \/ \E v \in Vectors : HpetInterrupt(v) \/ OtherInterrupt(v)
    \/ PeriodicInterrupt

Next == Boot \/ Thread \/ Call \/ CounterTick \/ Interrupt

Spec == Init /\ [][Next]_vars

(* The thread, the counter and the periodic timer never stop, and an       *)
(* interrupt is taken once interrupts stay on.                             *)
Fairness ==
    /\ WF_vars(Boot) /\ WF_vars(Thread) /\ WF_vars(CounterTick)
    /\ SF_vars(PeriodicInterrupt)
    /\ \A v \in Vectors : SF_vars(HpetInterrupt(v))

FairSpec == Spec /\ Fairness

----------------------------------------------------------------------------
(* Every variable keeps its type, and the CPU sleeps only inside x64::halt *)
(* and with interrupts on.                                                 *)
TypeOK ==
    /\ caps \in Capabilities /\ gsi \in Wirings
    /\ routes \in [Vectors -> Vectors \cup {NoVector}]
    /\ exists \in [Timers -> BOOLEAN] /\ vec \in [Timers -> Vectors \cup {NoVector}]
    /\ used \subseteq Vectors /\ num \in 0..NumTimers
    /\ armed \in [Timers -> BOOLEAN] /\ left \in [Timers -> Nat]
    /\ raised \subseteq Vectors /\ late \in BOOLEAN
    /\ intr \in BOOLEAN /\ halted \in BOOLEAN
    /\ pc \in {"init", "idle", "pick", "arm", "write", "check", "halt", "resume"}
    /\ timer \in Timers /\ ticks \in Nat /\ togo \in Nat /\ due \in Nat
    /\ caller \in {"kernel", "user"}
    /\ halted => intr /\ pc = "resume"
    /\ pc = "init" => num < NumTimers

(* Two timers never share a vector: the handler would disarm the first of  *)
(* them when the second one fires.                                         *)
VectorsDistinct ==
    \A t, u \in Timers : exists[t] /\ exists[u] /\ vec[t] = vec[u] => t = u

(* Vectors that something else raises: the tick of the local APIC (32, so  *)
(* interrupt 0), the PIT, and other devices.                               *)
Shared == OtherIrqs \cup {0} \cup PitVectors

(* With a timer whose vector nothing else raises, no sleep ends before the *)
(* value programmed is reached, nor Time::Sleep before the time its caller *)
(* asked for: a halt that any other interrupt ends is resumed.  With a     *)
(* shared vector the next tick, or whatever shares it, ends the sleep.     *)
NotEarly ==
    pc = "idle" /\ exists[timer] /\ vec[timer] \notin Shared =>
        togo = 0 /\ (caller = "kernel" => due = 0)

(* The interrupt of timer t gets to its handler: Install_handler has taken *)
(* the vector, and the pin the timer raises is the one that was routed.    *)
Heard(t) == vec[t] < NumIrqs /\ routes[vec[t]] = vec[t]

(* Every sleep ends, unless the timer's interrupt gets to no handler, or   *)
(* the deadline had passed before the comparator was written, as that of a *)
(* sleep of 0 has: such a sleep is never ended by its timer.  With vector  *)
(* 0 the next tick ends even these.                                        *)
SleepEnds ==
    pc = "pick" ~>
        \/ pc = "idle"
        \/ /\ pc \in {"check", "halt", "resume"}
           /\ late \/ ~Heard(timer)
           /\ ~(vec[timer] = 0 /\ 0 \in Installed)
=============================================================================
