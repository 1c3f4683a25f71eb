-------------------------- MODULE HpetSleepProofs --------------------------
(***************************************************************************)
(* That the HPET never ends a sleep early, for every number of timers,     *)
(* every set of vectors they can raise and every sleep.  The inductive     *)
(* invariant says where an interrupt can come from: every sleep uses the   *)
(* first timer that works; while it is not armed it has nothing programmed *)
(* and nothing raised, and what it has programmed while it is armed is the *)
(* sleeper's deadline.                                                     *)
(***************************************************************************)
EXTENDS HpetSleep, TLAPS

(* Timer t works and nothing else raises its vector. *)
Own(t) == exists[t] /\ vec[t] \notin Shared

(* The timer every sleep uses. *)
First(t) == exists[t] /\ \A u \in Timers : exists[u] => t <= u

Asleep == pc \in {"check", "halt", "resume"}

(* Vectors are given out once; only the first timer that got one is ever   *)
(* programmed, and none while they are set up.                             *)
SetUp ==
    /\ \A t \in Timers : exists[t] => vec[t] \in used
    /\ \A t \in Timers : left[t] > 0 => First(t)
    /\ pc \in {"arm", "write"} \/ Asleep => exists[timer]
    /\ pc # "init" /\ exists[timer] => First(timer)
    /\ pc = "init" =>
          /\ raised = {} /\ togo = 0 /\ due = 0 /\ timer = 0
          /\ \A t \in Timers : left[t] = 0 /\ ~armed[t]

(* A timer is armed by the sleep that uses it and by no other. *)
ArmedIsUsed ==
    \A t \in Timers : armed[t] => t = timer /\ (pc = "write" \/ Asleep)

(* The first timer is quiet while it is not armed. *)
Quiet ==
    \A t \in Timers : Own(t) /\ First(t) /\ (~armed[t] \/ pc = "write") =>
        left[t] = 0 /\ vec[t] \notin raised

(* The comparator counts down to the deadline, and the timer is disarmed   *)
(* only after it.                                                          *)
Deadline ==
    /\ Own(timer) /\ pc = "write" => armed[timer]
    /\ Own(timer) /\ Asleep =>
          /\ left[timer] > 0 => togo = left[timer]
          /\ vec[timer] \in raised => togo = 0
          /\ ~armed[timer] => togo = 0

(* What the kernel's caller asked for is over by then. *)
DueFirst ==
    caller = "kernel" =>
        /\ pc = "pick" => due <= ticks
        /\ pc \in {"arm", "write"} \/ Asleep => due <= togo

IInv ==
    /\ TypeOK /\ VectorsDistinct /\ SetUp /\ ArmedIsUsed
    /\ Quiet /\ Deadline /\ DueFirst /\ NotEarly

(* A product of two numbers is a number. *)
LEMMA Product == \A a, b \in Nat : a * b \in Nat
  OBVIOUS

(* Before hpet::init nothing is programmed. *)
LEMMA InitIInv == Init => IInv
<1> SUFFICES ASSUME Init PROVE IInv
  OBVIOUS
<1>1. 0 \in Timers /\ 0 < NumTimers /\ NumTimers \in Nat
  BY TimersAssumption DEF Timers
<1>2. TypeOK
  <2>1. pc \in {"init", "idle"} /\ num = 0 /\ caps \in Capabilities
    BY DEF Init
  <2>2. /\ vec \in [Timers -> Vectors \cup {NoVector}] /\ exists \in [Timers -> BOOLEAN]
        /\ armed \in [Timers -> BOOLEAN] /\ left \in [Timers -> Nat]
    BY DEF Init
  <2>3. /\ used = {} /\ raised = {} /\ intr = TRUE /\ halted = FALSE /\ caller = "kernel" /\ late = FALSE
        /\ timer = 0 /\ ticks = 0 /\ togo = 0 /\ due = 0
    BY DEF Init
  <2>4. num \in 0..NumTimers /\ (pc = "init" => num < NumTimers)
    BY <1>1, <2>1
  <2>5. used \subseteq Vectors /\ raised \subseteq Vectors \cup {NoVector}
    BY <2>3
  <2>6. timer \in Timers /\ ticks \in Nat /\ togo \in Nat /\ due \in Nat /\ caller \in {"kernel", "user"}
    BY <1>1, <2>3
  <2>7. gsi \in Wirings /\ routes \in [Vectors -> Vectors \cup {NoVector}]
    BY DEF Init
  <2> QED BY <2>1, <2>2, <2>3, <2>4, <2>5, <2>6, <2>7 DEF TypeOK
<1>3. VectorsDistinct /\ SetUp /\ ArmedIsUsed /\ Quiet /\ Deadline /\ DueFirst /\ NotEarly
  BY <1>1 DEF Init, VectorsDistinct, SetUp, ArmedIsUsed, Quiet, Deadline, DueFirst, NotEarly, Own, First, Asleep
<1> QED BY <1>2, <1>3 DEF IInv

(* What a vector is shared with is settled by hpet::init. *)
LEMMA SharedSame == UNCHANGED <<gsi, routes>> => Shared' = Shared
  BY DEF Shared, PitVectors

(* The set up of the timers. *)
LEMMA BootStep == IInv /\ Boot => IInv'
<1> SUFFICES ASSUME IInv, Boot PROVE IInv'
  OBVIOUS
<1> USE TimersAssumption, CapabilitiesAssumption DEF IInv, setup, clock
<1>1. CASE InitTimer
  <2>1. PICK v \in FreeVectors(num) :
          /\ used' = used \cup {v}
          /\ vec' = [vec EXCEPT ![num] = v]
          /\ exists' = [exists EXCEPT ![num] = TRUE]
          /\ InstallHandler(v)
    BY <1>1 DEF InitTimer
  <2>2. num \in Timers /\ num \in Nat /\ pc = "init"
    BY <1>1 DEF InitTimer, TypeOK, Timers
  <2>3. v \in Vectors /\ v \notin used
    BY <2>1, <2>2 DEF FreeVectors, TypeOK
  <2>4. UNCHANGED <<caps, gsi, armed, left, raised, togo, due, late, intr, halted, timer, ticks, caller>>
    BY <1>1 DEF InitTimer
  <2>5. num' = num + 1 /\ pc' \in {"idle", "init"} /\ (pc' = "init" => num' # NumTimers)
    BY <1>1 DEF InitTimer, NextTimer
  <2>11. routes' \in [Vectors -> Vectors \cup {NoVector}]
    BY <2>1, <2>3 DEF InstallHandler, TypeOK
  <2>6. TypeOK'
    BY <2>1, <2>2, <2>3, <2>4, <2>5, <2>11 DEF TypeOK
  <2>7. VectorsDistinct' /\ SetUp'
    BY <2>1, <2>2, <2>3, <2>4, <2>5 DEF VectorsDistinct, SetUp, First, TypeOK, Timers, Asleep
  <2>8. ArmedIsUsed' /\ Quiet'
    BY <2>2, <2>4 DEF ArmedIsUsed, Quiet, SetUp
  <2>9. Deadline' /\ DueFirst'
    BY <2>5 DEF Deadline, DueFirst, Asleep
  <2>10. NotEarly'
    BY <2>1, <2>2, <2>4 DEF NotEarly, SetUp
  <2> QED BY <2>6, <2>7, <2>8, <2>9, <2>10
<1>2. CASE NoVectorForTimer
  <2>1. num' = num + 1 /\ pc' \in {"idle", "init"} /\ (pc' = "init" => num' # NumTimers)
    BY <1>2 DEF NoVectorForTimer, NextTimer
  <2>2. UNCHANGED <<caps, gsi, routes, exists, vec, used, armed, left, raised, togo, due, late, intr, halted, timer, ticks, caller>> /\ pc = "init"
    BY <1>2 DEF NoVectorForTimer
  <2>3. TypeOK'
    BY <2>1, <2>2 DEF TypeOK, Timers
  <2>4. VectorsDistinct' /\ SetUp' /\ ArmedIsUsed' /\ Quiet'
    BY <2>1, <2>2 DEF VectorsDistinct, SetUp, ArmedIsUsed, Quiet, Own, First, Asleep, Shared, PitVectors, TypeOK, Timers
  <2>5. Deadline' /\ DueFirst' /\ NotEarly'
    BY <2>1, <2>2 DEF Deadline, DueFirst, Asleep, NotEarly, SetUp
  <2> QED BY <2>3, <2>4, <2>5
<1> QED BY <1>1, <1>2 DEF Boot

(* Time passes: the comparator and the deadline count down together. *)
LEMMA TickStep == IInv /\ CounterTick => IInv'
<1> SUFFICES ASSUME IInv, CounterTick PROVE IInv'
  OBVIOUS
<1> USE DEF IInv, setup
<1>1. UNCHANGED <<caps, gsi, routes, exists, vec, used, num, armed, late, intr, halted, pc, timer, ticks, caller>>
  BY DEF CounterTick
<1>2. /\ left' = [t \in Timers |-> Countdown(left[t])]
      /\ raised' = raised \cup ({routes[vec[t]] : t \in {u \in Timers : left[u] = 1}} \ {NoVector})
      /\ togo' = Countdown(togo) /\ due' = Countdown(due)
  BY DEF CounterTick
<1>3. \A n \in Nat : Countdown(n) \in Nat /\ (n = 0 => Countdown(n) = 0)
  BY DEF Countdown
<1>13. \A t, u \in Timers : First(t) /\ left[u] = 1 => u = t
  BY DEF SetUp, First, Timers
<1>14. raised' \subseteq Vectors
  <2>1. ASSUME NEW u \in Timers, left[u] = 1 PROVE routes[vec[u]] \in Vectors \cup {NoVector}
    <3>1. vec[u] \in Vectors
      BY <2>1 DEF SetUp, First, TypeOK
    <3> QED BY <3>1 DEF TypeOK
  <2> QED BY <2>1, <1>2 DEF TypeOK
<1>4. TypeOK'
  BY <1>1, <1>2, <1>3, <1>14 DEF TypeOK
<1>5. VectorsDistinct'
  BY <1>1 DEF VectorsDistinct
<1>6. SetUp'
  BY <1>1, <1>2, <1>3 DEF SetUp, First, TypeOK, Asleep
<1>7. ArmedIsUsed'
  BY <1>1 DEF ArmedIsUsed, Asleep
<1>8. Quiet'
  <2> SUFFICES ASSUME NEW t \in Timers, Own(t), First(t), ~armed[t] \/ pc = "write"
               PROVE  left'[t] = 0 /\ vec[t] \notin raised'
    BY <1>1 DEF Quiet, Own, First, Shared, PitVectors
  <2>1. left[t] = 0 /\ vec[t] \notin raised
    BY DEF Quiet
  <2>2. left'[t] = 0
    BY <2>1, <1>2 DEF Countdown
  <2>3. ASSUME NEW u \in Timers, left[u] = 1 PROVE FALSE
    BY <2>1, <2>3, <1>13
  <2> QED BY <2>1, <2>2, <2>3, <1>2
<1>9. Deadline'
  <2>5. Own(timer) /\ pc = "write" => armed[timer]
    BY DEF Deadline
  <2> SUFFICES ASSUME Own(timer), Asleep
               PROVE  /\ left'[timer] > 0 => togo' = left'[timer]
                      /\ vec[timer] \in raised' => togo' = 0
                      /\ ~armed[timer] => togo' = 0
    BY <1>1, <2>5 DEF Deadline, Own, Asleep, Shared, PitVectors
  <2>1. timer \in Timers /\ togo \in Nat /\ left[timer] \in Nat /\ left'[timer] = Countdown(left[timer])
    BY <1>2 DEF TypeOK
  <2>2. left'[timer] > 0 => togo' = left'[timer]
    BY <2>1, <1>2 DEF Deadline, Countdown
  <2>3. ASSUME NEW u \in Timers, left[u] = 1 PROVE togo' = 0
    <3>1. First(timer)
      BY DEF SetUp, Own, Asleep
    <3>2. u = timer
      BY <2>1, <2>3, <3>1, <1>13
    <3> QED BY <3>2, <2>1, <2>3, <1>2 DEF Deadline, Countdown
  <2>4. togo = 0 => togo' = 0
    BY <1>2 DEF Countdown
  <2> QED BY <2>2, <2>3, <2>4, <1>2 DEF Deadline
<1>10. DueFirst'
  BY <1>1, <1>2 DEF DueFirst, Asleep, TypeOK, Countdown
<1>11. NotEarly'
  BY <1>1, <1>2 DEF NotEarly, Countdown, Shared, PitVectors
<1> QED BY <1>4, <1>5, <1>6, <1>7, <1>8, <1>9, <1>10, <1>11

(* The handler disarms the timers of its vector at most. *)
LEMMA DisarmOwner ==
    ASSUME TypeOK, VectorsDistinct, NEW v, Disarm(v)
    PROVE  /\ armed' \in [Timers -> BOOLEAN]
           /\ \A t \in Timers : armed'[t] => armed[t]
           /\ \A t \in Timers : exists[t] /\ armed[t] /\ vec[t] # v => armed'[t]
  BY DEF Disarm, Owners, TypeOK

(* Interrupts: the timer's own disarms the sleeper, and only when it is    *)
(* due; what comes on a shared vector disarms no timer that has one of its *)
(* own.                                                                    *)
LEMMA InterruptStep == IInv /\ Interrupt => IInv'
<1> SUFFICES ASSUME IInv, Interrupt PROVE IInv'
  OBVIOUS
<1> USE DEF IInv, setup, hardware
<1>1. ASSUME NEW v \in Vectors, HpetInterrupt(v) PROVE IInv'
  <2>1. UNCHANGED <<caps, gsi, routes, exists, vec, used, num, left, intr, pc, timer, ticks, togo, due, late, caller>>
        /\ raised' = raised \ {v} /\ v \in raised /\ Disarm(v) /\ halted' = FALSE
    BY <1>1 DEF HpetInterrupt
  <2>2. /\ armed' \in [Timers -> BOOLEAN]
        /\ \A t \in Timers : armed'[t] => armed[t]
        /\ \A t \in Timers : exists[t] /\ armed[t] /\ vec[t] # v => armed'[t]
    BY <2>1, DisarmOwner
  <2>3. TypeOK'
    BY <2>1, <2>2 DEF TypeOK
  <2>4. VectorsDistinct' /\ SetUp' /\ ArmedIsUsed' /\ DueFirst' /\ NotEarly'
    BY <2>1, <2>2, SharedSame DEF VectorsDistinct, SetUp, ArmedIsUsed, DueFirst, NotEarly, Asleep, First
  <2>5. Quiet'
    <3> SUFFICES ASSUME NEW t \in Timers, Own(t), First(t), ~armed'[t] \/ pc = "write"
                 PROVE  left[t] = 0 /\ vec[t] \notin raised'
      BY <2>1, SharedSame DEF Quiet, Own, First
    <3>1. CASE ~armed[t] \/ pc = "write"
      BY <3>1, <2>1 DEF Quiet
    <3>2. CASE armed[t] /\ pc # "write"
      <4>1. vec[t] = v /\ t = timer /\ Asleep
        BY <3>2, <2>2, SharedSame DEF Own, ArmedIsUsed, First
      <4>2. togo = 0
        BY <4>1, <2>1 DEF Deadline
      <4> QED BY <4>1, <4>2, <2>1 DEF Deadline, TypeOK
    <3> QED BY <3>1, <3>2
  <2>6. Deadline'
    <3>1. Own(timer) /\ pc = "write" => armed'[timer]
      BY <2>1, <2>2, SharedSame DEF Deadline, Quiet, SetUp, Own, TypeOK, First
    <3>2. Own(timer) /\ Asleep /\ ~armed'[timer] => togo = 0
      BY <2>1, <2>2, SharedSame DEF Deadline, Own, TypeOK, First
    <3> QED BY <2>1, <3>1, <3>2, SharedSame DEF Deadline, Own, First, Asleep
  <2> QED BY <2>3, <2>4, <2>5, <2>6
<1>2. ASSUME NEW v \in Shared, Disarm(v), halted' = FALSE,
             UNCHANGED <<caps, gsi, routes, exists, vec, used, num, left, raised, intr, pc, timer, ticks, togo, due, late, caller>>
      PROVE  IInv'
  <2>1. /\ armed' \in [Timers -> BOOLEAN]
        /\ \A t \in Timers : armed'[t] => armed[t]
        /\ \A t \in Timers : exists[t] /\ armed[t] /\ vec[t] # v => armed'[t]
    BY <1>2, DisarmOwner
  <2>2. \A t \in Timers : Own(t) => armed'[t] = armed[t]
    BY <1>2, <2>1 DEF Own, TypeOK
  <2>3. TypeOK'
    BY <1>2, <2>1 DEF TypeOK
  <2>4. VectorsDistinct' /\ SetUp' /\ ArmedIsUsed' /\ DueFirst' /\ NotEarly'
    BY <1>2, <2>1, SharedSame DEF VectorsDistinct, SetUp, First, ArmedIsUsed, DueFirst, NotEarly, Asleep
  <2>5. Quiet' /\ Deadline'
    BY <1>2, <2>2, SharedSame DEF Quiet, Deadline, Own, First, Asleep, TypeOK
  <2> QED BY <2>3, <2>4, <2>5
<1>3. ASSUME NEW v \in Vectors, OtherInterrupt(v) PROVE IInv'
  <2>1. v \in Shared
    BY <1>3 DEF OtherInterrupt, Shared
  <2> QED BY <1>2, <1>3, <2>1 DEF OtherInterrupt
<1>4. CASE PeriodicInterrupt
  <2>1. 0 \in Shared
    BY DEF Shared
  <2> QED BY <1>2, <1>4, <2>1 DEF PeriodicInterrupt, clock
<1> QED BY <1>1, <1>3, <1>4 DEF Interrupt

(* The thread: a timer that is not armed is quiet when it is picked, and   *)
(* the sleep ends when it has been disarmed.                               *)
LEMMA ThreadStep == IInv /\ Thread => IInv'
<1> SUFFICES ASSUME IInv, Thread PROVE IInv'
  OBVIOUS
<1> USE DEF IInv, setup, clock, hardware
<1>1. CASE PickTimer
  <2>1. PICK t \in Usable : timer' = t
    BY <1>1 DEF PickTimer
  <2>2. pc = "pick" /\ pc' = "arm" /\ togo' = ticks
        /\ UNCHANGED <<caps, gsi, routes, exists, vec, used, num, left, raised, armed, intr, halted, ticks, due, late, caller>>
    BY <1>1 DEF PickTimer
  <2>3. t \in Timers /\ exists[t] /\ ~armed[t] /\ First(t)
    BY <1>1, <2>1, <2>2 DEF PickTimer, Usable, First, ArmedIsUsed, Asleep, TypeOK
  <2>4. TypeOK'
    BY <2>1, <2>2, <2>3 DEF TypeOK
  <2>5. VectorsDistinct' /\ SetUp' /\ ArmedIsUsed' /\ Quiet'
    BY <2>1, <2>2, <2>3, SharedSame DEF VectorsDistinct, SetUp, ArmedIsUsed, Quiet, Own, First, Asleep
  <2>6. Deadline' /\ DueFirst' /\ NotEarly'
    BY <2>2, SharedSame DEF Deadline, DueFirst, NotEarly, Asleep, First
  <2> QED BY <2>4, <2>5, <2>6
<1>2. CASE NoTimer
  <2>1. pc = "pick" /\ pc' = "idle" /\ intr' = TRUE
        /\ UNCHANGED <<caps, gsi, routes, exists, vec, used, num, left, raised, armed, togo, due, late, halted, timer, ticks, caller>>
    BY <1>2 DEF NoTimer, Return
  <2>2. ~exists[timer]
    BY <1>2, <2>1 DEF NoTimer, Usable, ArmedIsUsed, Asleep, TypeOK
  <2>3. TypeOK'
    BY <2>1 DEF TypeOK
  <2> QED BY <2>1, <2>2, <2>3, SharedSame DEF VectorsDistinct, SetUp, ArmedIsUsed, Quiet, Deadline, DueFirst, NotEarly, Own, First, Asleep
<1>3. CASE Arm
  <2>1. pc = "arm" /\ pc' = "write" /\ armed' = [armed EXCEPT ![timer] = TRUE]
        /\ UNCHANGED <<caps, gsi, routes, exists, vec, used, num, left, raised, togo, due, late, intr, halted, timer, ticks, caller>>
    BY <1>3 DEF Arm
  <2>2. TypeOK'
    BY <2>1 DEF TypeOK
  <2>3. ~armed[timer]
    BY <2>1 DEF ArmedIsUsed, Asleep, TypeOK
  <2> QED BY <2>1, <2>2, <2>3, SharedSame DEF VectorsDistinct, SetUp, ArmedIsUsed, Quiet, Deadline, DueFirst, NotEarly, Own, First, Asleep, TypeOK
<1>4. CASE WriteComparator
  <2>1. pc = "write" /\ pc' = "check" /\ left' = [left EXCEPT ![timer] = togo] /\ late' = (togo = 0)
        /\ UNCHANGED <<caps, gsi, routes, exists, vec, used, num, raised, armed, togo, due, intr, halted, timer, ticks, caller>>
    BY <1>4 DEF WriteComparator
  <2>2. TypeOK'
    BY <2>1 DEF TypeOK
  <2> QED BY <2>1, <2>2, SharedSame DEF VectorsDistinct, SetUp, ArmedIsUsed, Quiet, Deadline, DueFirst, NotEarly, Own, First, Asleep, TypeOK
<1>5. CASE StillArmed \/ Resume
  <2>1. Asleep /\ Asleep' /\ pc # "init" /\ pc' \in {"check", "halt"} /\ ~halted
        /\ UNCHANGED <<caps, gsi, routes, exists, vec, used, num, left, raised, armed, togo, due, late, intr, halted, timer, ticks, caller>>
    BY <1>5 DEF StillArmed, Resume, Asleep, TypeOK
  <2>2. TypeOK'
    BY <2>1 DEF TypeOK
  <2> QED BY <2>1, <2>2, SharedSame DEF VectorsDistinct, SetUp, ArmedIsUsed, Quiet, Deadline, DueFirst, NotEarly, Own, First, Asleep
<1>6. CASE Woken
  <2>1. pc = "check" /\ ~armed[timer] /\ pc' = "idle" /\ intr' = TRUE
        /\ UNCHANGED <<caps, gsi, routes, exists, vec, used, num, left, raised, armed, togo, due, late, halted, timer, ticks, caller>>
    BY <1>6 DEF Woken, Return
  <2>2. TypeOK'
    BY <2>1 DEF TypeOK
  <2>3. NotEarly'
    BY <2>1, SharedSame DEF NotEarly, Deadline, DueFirst, Own, First, Asleep, TypeOK
  <2> QED BY <2>1, <2>2, <2>3, SharedSame DEF VectorsDistinct, SetUp, ArmedIsUsed, Quiet, Deadline, DueFirst, Own, First, Asleep
<1>7. CASE Halt
  <2>1. pc = "halt" /\ pc' = "resume" /\ intr' = TRUE /\ halted' = TRUE
        /\ UNCHANGED <<caps, gsi, routes, exists, vec, used, num, left, raised, armed, togo, due, late, timer, ticks, caller>>
    BY <1>7 DEF Halt
  <2>2. TypeOK'
    BY <2>1 DEF TypeOK
  <2> QED BY <2>1, <2>2, SharedSame DEF VectorsDistinct, SetUp, ArmedIsUsed, Quiet, Deadline, DueFirst, NotEarly, Own, First, Asleep
<1> QED BY <1>1, <1>2, <1>3, <1>4, <1>5, <1>6, <1>7 DEF Thread

(* A new call: nothing is armed while the thread is idle. *)
LEMMA CallStep == IInv /\ Call => IInv'
<1> SUFFICES ASSUME IInv, NEW t \in MinSleep..MaxSleep, Sleep(t) \/ SysSleep(t)
             PROVE  IInv'
  BY DEF Call
<1> USE DEF IInv, setup, hardware
<1>1. t * TicksPerMs \in Nat /\ t * TicksPerUs \in Nat /\ t * UsPerMs * TicksPerUs \in Nat
  BY Product, UnitsAssumption, BoundAssumption
<1>2. /\ pc = "idle" /\ pc' = "pick" /\ togo' = 0 /\ intr' \in BOOLEAN
      /\ ticks' \in Nat /\ due' \in Nat /\ caller' \in {"kernel", "user"} /\ late' = FALSE
      /\ caller' = "kernel" => due' = ticks'
      /\ UNCHANGED <<caps, gsi, routes, exists, vec, used, num, left, raised, armed, halted, timer>>
  <2>1. CASE Sleep(t)
    BY <2>1, <1>1 DEF Sleep, TypeOK
  <2>2. CASE SysSleep(t)
    BY <2>2, <1>1 DEF SysSleep, TypeOK
  <2> QED BY <2>1, <2>2
<1>3. ~halted
  BY <1>2 DEF TypeOK
<1>4. TypeOK'
  BY <1>2, <1>3 DEF TypeOK
<1>5. VectorsDistinct' /\ SetUp'
  BY <1>2 DEF VectorsDistinct, SetUp, First, Asleep
<1>8. Quiet'
  <2>1. Shared' = Shared
    BY <1>2, SharedSame
  <2> QED BY <1>2, <2>1 DEF Quiet, Own, First
<1>6. ArmedIsUsed'
  BY <1>2 DEF ArmedIsUsed, Asleep
<1>7. Deadline' /\ DueFirst' /\ NotEarly'
  BY <1>2 DEF Deadline, DueFirst, NotEarly, Asleep, TypeOK
<1> QED BY <1>4, <1>5, <1>6, <1>7, <1>8

(* Every step keeps the invariant. *)
LEMMA StepIInv == IInv /\ [Next]_vars => IInv'
<1>1. IInv /\ UNCHANGED vars => IInv'
  BY SharedSame DEF vars, setup, clock, IInv, TypeOK, VectorsDistinct, SetUp, ArmedIsUsed, Quiet,
         Deadline, DueFirst, NotEarly, Own, First, Asleep
<1> QED BY <1>1, BootStep, TickStep, InterruptStep, ThreadStep, CallStep DEF Next

(* hpet::init gives every timer that works a vector of its own. *)
THEOREM VectorsDistinctTheorem == Spec => []VectorsDistinct
<1>1. IInv => VectorsDistinct
  BY DEF IInv
<1> QED BY <1>1, InitIInv, StepIInv, PTL DEF Spec

(* No tick, no other interrupt and no earlier sleep ends hpet::sleep       *)
(* early, for any number of timers and any overrides, while the timer's    *)
(* vector is neither the tick's nor raised by the PIT or another device.   *)
THEOREM NotEarlyTheorem == Spec => []NotEarly
<1>1. IInv => NotEarly
  BY DEF IInv
<1> QED BY <1>1, InitIInv, StepIInv, PTL DEF Spec
=============================================================================
