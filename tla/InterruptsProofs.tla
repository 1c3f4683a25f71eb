-------------------------- MODULE InterruptsProofs --------------------------
(***************************************************************************)
(* Proofs about interrupt dispatch (Interrupts), for any wiring and any    *)
(* MADT: the interpreter's locks exclude one another, and the calibration  *)
(* of the local APIC's timer measures Target periods of the PIT.           *)
(***************************************************************************)
EXTENDS Interrupts, WellFoundedInduction, TLAPS

(* One handler runs at most, with interrupts off. *)
Record(r) == [vector |-> r.vector, step |-> r.step, n |-> r.n]
OneFrame ==
    /\ frames = <<>> \/ frames = <<Record(frames[1])>>
    /\ frames # <<>> => ~enabled

(* Everything locked was locked at the level that runs: the thread's in    *)
(* main, the handler's in ACPI's part, which locks once.  Only the first   *)
(* section of the thread can have found interrupts on.                     *)
Section == [by : Nat, lock : Locks, saved : BOOLEAN]
LockOrder ==
    /\ open \in Seq(Section)
    /\ \A i \in DOMAIN open : open[i].by = Len(frames)
    /\ open # <<>> => ~enabled
    /\ open # <<>> /\ frames = <<>> => boot = "main"
    /\ open # <<>> /\ frames # <<>> => frames[1].step = "acpi" /\ Len(open) = 1
    /\ \A i \in DOMAIN open : open[i].saved => i = 1 /\ frames = <<>>

LockInv ==
    /\ enabled \in BOOLEAN
    /\ OneFrame
    /\ LockOrder
    /\ LockExclusive

(* Until the timer is calibrated nothing is routed or installed, so the    *)
(* local APIC has no request.                                              *)
Early == {"idt", "apic", "pit"} \cup Calibrating
Unrouted ==
    /\ irr = {} /\ isr = {} /\ msiOn = {} /\ ~sciHandler
    /\ \A g \in Gsis : routes[g] = NoRoute
    /\ \A d \in Devices : handlers[Vector(irq[d])] = <<>>

(* Before the PIT is set up interrupts are off. *)
Dark == ~enabled /\ frames = <<>> /\ ~moved /\ pic \in {"off", "idle"}

(* While the ticks are counted the only handler is the PIT's, and it runs  *)
(* to its end before the PIT goes off again.                               *)
PitOnly ==
    /\ frames = <<>> => enabled /\ pic \in {"idle", "request"}
    /\ frames # <<>> =>
         /\ frames[1].vector = TimerVector /\ moved
         /\ frames[1].step \in {"custom", "tick", "eoi", "iret"}
         /\ pic = IF frames[1].step = "iret" THEN "idle" ELSE "service"
    /\ pic = "request" => moved

(* A period has gone by that the handler has not counted yet. *)
Uncounted ==
    IF pic = "request" \/ (frames # <<>> /\ frames[1].step \in {"custom", "tick"}) THEN 1 ELSE 0

(* The count is behind the periods by the one that came between the start  *)
(* of the counter and the reset of the tick, and by the one not counted.   *)
Counted ==
    /\ boot = "reset" => elapsed = IF moved THEN 1 ELSE 0
    /\ boot = "wait" =>
         /\ elapsed - tick - Uncounted \in {0, 1}
         /\ tick <= Target
         /\ (~moved \/ Uncounted = 1) => tick < Target

CalInv ==
    /\ tick \in Nat /\ elapsed \in Nat /\ moved \in BOOLEAN
    /\ \A d \in Devices : irq[d] \in Lines[d]
    /\ DOMAIN handlers = {Vector(irq[d]) : d \in Devices}
    /\ boot \in Early => Unrouted
    /\ boot = "idt" => pic = "off"
    /\ boot \in {"apic", "pit"} => pic = "idle"
    /\ boot \in {"idt", "apic", "pit"} => Dark
    /\ boot \in Calibrating => PitOnly
    /\ Counted
    /\ CalibrationBound

----------------------------------------------------------------------------
(* The stacks. *)

LEMMA FrontOf ==
    ASSUME NEW S, NEW s \in Seq(S), s # <<>>
    PROVE  /\ Front(s) \in Seq(S) /\ Len(Front(s)) = Len(s) - 1
           /\ Front(s) # <<>> => Len(s) # 1
           /\ \A i \in DOMAIN Front(s) : i \in DOMAIN s /\ i # Len(s) /\ Front(s)[i] = s[i]
<1>1. Len(s) \in Nat /\ Len(s) # 0 /\ DOMAIN s = 1..Len(s)
  OBVIOUS
<1> QED BY <1>1 DEF Front

(* The frame on top is the only one; Goto changes its step. *)
LEMMA OnlyFrame ==
    ASSUME OneFrame, frames # <<>>
    PROVE  Len(frames) = 1 /\ Top = frames[1] /\ DOMAIN frames = {1} /\ ~enabled
<1>1. Len(frames) = 1 /\ DOMAIN frames = {1}
  BY DEF OneFrame
<1> QED BY <1>1 DEF Top, OneFrame

LEMMA GotoIs ==
    ASSUME OneFrame, frames # <<>>, NEW st, NEW m, Goto(st, m)
    PROVE  frames' = <<[vector |-> frames[1].vector, step |-> st, n |-> m]>>
<1>1. frames = <<Record(frames[1])>> /\ Len(frames) = 1
  BY OnlyFrame DEF OneFrame
<1> DEFINE r == Record(frames[1])
<1>2. frames' = [<<r>> EXCEPT ![1] = [vector |-> @.vector, step |-> st, n |-> m]]
  BY <1>1 DEF Goto
<1>3. <<r>>[1] = r
  OBVIOUS
<1>4. r.vector = frames[1].vector
  BY DEF Record
<1>5. frames' = <<[vector |-> frames[1].vector, step |-> st, n |-> m]>>
  BY <1>2, <1>3, <1>4
<1> QED BY <1>5

(* One new frame in the state after a step. *)
LEMMA FrameNext ==
    ASSUME NEW v, NEW st, NEW m, frames' = <<[vector |-> v, step |-> st, n |-> m]>>
    PROVE  /\ frames' # <<>> /\ Len(frames') = 1
           /\ frames'[1].vector = v /\ frames'[1].step = st /\ frames'[1].n = m
           /\ frames' = <<Record(frames[1])'>>
<1>1. frames'[1] = [vector |-> v, step |-> st, n |-> m]
  OBVIOUS
<1>2. Record(frames[1])' = [vector |-> v, step |-> st, n |-> m]
  BY <1>1 DEF Record
<1> QED BY <1>1, <1>2

LEMMA RunningIs ==
    ASSUME LockInv, NEW st, Running(st)
    PROVE  frames # <<>> /\ frames[1].step = st /\ ~enabled /\ Len(frames) = 1 /\ Top = frames[1]
  BY OnlyFrame DEF LockInv, Running

----------------------------------------------------------------------------
(* The locks. *)

LEMMA LockInit == Init => LockInv
<1> SUFFICES ASSUME Init PROVE LockInv
  OBVIOUS
<1>1. open = <<>> /\ frames = <<>> /\ enabled = FALSE
  BY DEF Init
<1>2. open \in Seq(Section) /\ DOMAIN open = {}
  BY <1>1
<1> QED BY <1>1, <1>2 DEF LockInv, OneFrame, LockOrder, LockExclusive

(* Nothing the locks depend on changes. *)
LEMMA LockSame ==
    ASSUME LockInv, UNCHANGED <<enabled, frames, open>>, boot' = boot
    PROVE  LockInv'
  BY DEF LockInv, OneFrame, LockOrder, LockExclusive, Record

(* Nothing is locked, and there is a frame with interrupts off or none. *)
LEMMA LockNone ==
    ASSUME open = <<>>, open' = open, enabled' \in BOOLEAN,
           frames' = <<>> \/ (~enabled' /\ frames' = <<Record(frames[1])'>>)
    PROVE  LockInv'
<1>1. open' \in Seq(Section) /\ DOMAIN open' = {} /\ open' = <<>>
  OBVIOUS
<1> QED BY <1>1 DEF LockInv, OneFrame, LockOrder, LockExclusive

LEMMA BootLock ==
    ASSUME LockInv, BootStep
    PROVE  LockInv'
<1>1. frames = <<>> /\ boot # "main" /\ UNCHANGED <<frames, open>> /\ enabled' \in BOOLEAN
  <2>1. enabled \in BOOLEAN BY DEF LockInv
  <2> QED BY <2>1 DEF BootStep, At, InstallIdt, StartApic, SetPit, StartCount, ResetTick, WaitTick,
          WaitDone, Periodic, MaskPic, SetFrequency, FindIoApic, RouteSci, StoreSci, Route, Refuse, Store
<1>2. open = <<>>
  BY <1>1 DEF LockInv, LockOrder
<1> QED BY <1>1, <1>2, LockNone

LEMMA TakeLock ==
    ASSUME LockInv, Take
    PROVE  LockInv'
<1>1. enabled /\ open' = open /\ \E v : Enter(v)
  BY DEF Take, TakeApic, TakePic
<1>2. PICK v : Enter(v)
  BY <1>1
<1>3. frames = <<>> /\ open = <<>>
  BY <1>1 DEF LockInv, OneFrame, LockOrder
<1>6. LeavesFlag(GateType) = FALSE
  BY DEF LeavesFlag, GateType
<1>4. enabled' = FALSE /\ frames' = <<[vector |-> v, step |-> "custom", n |-> 1]>>
  BY <1>2, <1>3, <1>6 DEF Enter
<1>5. frames' = <<Record(frames[1])'>>
  BY <1>4, FrameNext
<1> QED BY <1>1, <1>3, <1>4, <1>5, LockNone

(* A handler outside ACPI's part holds nothing. *)
LEMMA HandlerLock ==
    ASSUME LockInv, CallHandler \/ HandlersDone \/ CountTick \/ Eoi \/ Iret
    PROVE  LockInv'
<1>1. /\ frames # <<>> /\ frames[1].step # "acpi" /\ ~enabled
      /\ Len(frames) = 1 /\ open' = open /\ OneFrame
  BY RunningIs DEF CallHandler, HandlersDone, CountTick, Eoi, Iret, LockInv
<1>2. open = <<>>
  BY <1>1 DEF LockInv, LockOrder
<1>3. CASE Iret
  <2>1. frames' = <<>> /\ enabled' = TRUE
    <3>1. frames = <<Record(frames[1])>> BY <1>1 DEF OneFrame
    <3>2. Front(<<Record(frames[1])>>) = <<>> BY DEF Front
    <3> QED BY <3>1, <3>2, <1>3 DEF Iret
  <2> QED BY <1>1, <1>2, <2>1, LockNone
<1>4. CASE CallHandler \/ HandlersDone \/ CountTick \/ Eoi
  <2>0. enabled \in BOOLEAN
    BY DEF LockInv
  <2>1. enabled' = enabled /\ \E st, m : Goto(st, m)
    BY <1>4 DEF CallHandler, HandlersDone, CountTick, Eoi
  <2>2. PICK st, m : Goto(st, m)
    BY <2>1
  <2>3. frames' = <<Record(frames[1])'>>
    BY <1>1, <2>2, GotoIs, FrameNext
  <2> QED BY <1>1, <1>2, <2>0, <2>1, <2>3, LockNone
<1> QED BY <1>3, <1>4

(* What taking a lock leaves, whoever takes it. *)
LEMMA Locked ==
    ASSUME LockInv, NEW l \in Locks, LockBody(l)
    PROVE  /\ enabled' = FALSE
           /\ open' \in Seq(Section) /\ Len(open') = Len(open) + 1
           /\ \A i \in DOMAIN open' : open'[i].by = Len(frames)
           /\ \A i \in DOMAIN open' : open'[i].saved => (i = 1 /\ enabled) \/ i # Len(open')
           /\ \A i \in DOMAIN open : open'[i] = open[i]
           /\ LockExclusive'
<1> DEFINE new == [by |-> Len(frames), lock |-> l, saved |-> enabled]
<1>1. /\ open \in Seq(Section) /\ enabled \in BOOLEAN
      /\ \A i \in DOMAIN open : open[i].by = Len(frames) /\ open[i].lock # l
      /\ open' = Append(open, new) /\ enabled' = FALSE
      /\ open # <<>> => ~enabled
  BY DEF LockInv, LockOrder, LockBody, Mine, Level
<1>2. Len(frames) \in Nat
  BY DEF LockInv, OneFrame
<1>3. new \in Section
  BY <1>1, <1>2 DEF Section
<1>4. /\ open' \in Seq(Section) /\ Len(open') = Len(open) + 1 /\ Len(open) \in Nat
      /\ DOMAIN open = 1..Len(open) /\ DOMAIN open' = 1..Len(open) + 1
      /\ \A i \in 1..Len(open) : open'[i] = open[i]
      /\ open'[Len(open) + 1] = new
  BY <1>1, <1>3
<1>5. \A i \in DOMAIN open' : i \in DOMAIN open \/ i = Len(open) + 1
  BY <1>4
<1>6. \A i \in DOMAIN open' : open'[i].by = Len(frames)
  BY <1>1, <1>4, <1>5
<1>7. \A i \in DOMAIN open' : open'[i].saved => (i = 1 /\ enabled) \/ i # Len(open')
  <2>1. ASSUME enabled PROVE Len(open) = 0
    BY <1>1, <2>1
  <2>2. new.saved = enabled
    OBVIOUS
  <2> QED BY <1>1, <1>4, <1>5, <2>1, <2>2
<1>8. LockExclusive'
  <2>1. ASSUME NEW i \in DOMAIN open', NEW j \in DOMAIN open', i # j
        PROVE  open'[i].lock # open'[j].lock
    <3>1. new.lock = l
      OBVIOUS
    <3>2. \A m \in DOMAIN open : open'[m].lock = open[m].lock /\ open[m].lock # l
      BY <1>1, <1>4
    <3>3. CASE i \in DOMAIN open /\ j \in DOMAIN open
      BY <3>2, <3>3, <2>1 DEF LockInv, LockExclusive
    <3>4. CASE i = Len(open) + 1 \/ j = Len(open) + 1
      BY <1>4, <1>5, <2>1, <3>1, <3>2, <3>4
    <3> QED BY <1>5, <3>3, <3>4
  <2> QED BY <2>1 DEF LockExclusive
<1> QED BY <1>1, <1>4, <1>6, <1>7, <1>8

(* The last section is the one that is left. *)
LEMMA Unlocked ==
    ASSUME LockInv, UnlockBody
    PROVE  /\ open # <<>> /\ open' \in Seq(Section) /\ enabled' \in BOOLEAN
           /\ Len(open') = Len(open) - 1
           /\ \A i \in DOMAIN open' : i \in DOMAIN open /\ open'[i] = open[i]
           /\ enabled' = TRUE => open' = <<>> /\ frames = <<>>
<1>1. open \in Seq(Section) /\ open # <<>> /\ open' = Front(open)
  BY DEF LockInv, LockOrder, UnlockBody, Mine
<1>2. Len(open) \in Nat \ {0} /\ Len(open) \in DOMAIN open
  BY <1>1
<1>3. open[Len(open)] \in Section /\ enabled' = open[Len(open)].saved
  BY <1>1, <1>2 DEF UnlockBody, Restored
<1>4. /\ open' \in Seq(Section) /\ Len(open') = Len(open) - 1
      /\ \A i \in DOMAIN open' : i \in DOMAIN open /\ open'[i] = open[i]
  BY <1>1, FrontOf
<1>5. enabled' = TRUE => Len(open) = 1 /\ frames = <<>>
  BY <1>2, <1>3 DEF LockInv, LockOrder
<1>6. enabled' \in BOOLEAN
  BY <1>3 DEF Section
<1> QED BY <1>1, <1>2, <1>4, <1>5, <1>6

LEMMA ThreadLocks ==
    ASSUME LockInv, ThreadLock \/ ThreadUnlock
    PROVE  LockInv'
<1>1. frames = <<>> /\ frames' = <<>> /\ boot' = boot /\ Len(frames) = 0 /\ open \in Seq(Section)
  BY DEF ThreadLock, ThreadUnlock, threadVars, LockInv, LockOrder
<1>2. OneFrame'
  BY <1>1 DEF OneFrame
<1>3. CASE ThreadLock
  <2>1. PICK l \in Locks : LockBody(l)
    BY <1>3 DEF ThreadLock
  <2>2. \A i \in DOMAIN open' : open'[i].saved => i = 1 /\ frames' = <<>>
    <3>1. DOMAIN open' = 1..Len(open) + 1 /\ DOMAIN open = 1..Len(open) /\ Len(open) \in Nat
      <4>1. open' \in Seq(Section) /\ Len(open') = Len(open) + 1 /\ open \in Seq(Section)
        BY <1>1, <2>1, Locked
      <4> QED BY <4>1
    <3>2. ASSUME NEW i \in DOMAIN open', open'[i].saved PROVE i = 1
      <4>1. CASE i \in DOMAIN open
        BY <2>1, <4>1, <3>2, Locked DEF LockInv, LockOrder
      <4>2. CASE i = Len(open')
        BY <2>1, <4>2, <3>2, Locked
      <4> QED BY <3>1, <4>1, <4>2, <2>1, Locked
    <3> QED BY <1>1, <3>2
  <2>3. boot = "main"
    BY <1>3 DEF ThreadLock
  <2>4. LockOrder'
    BY <1>1, <2>1, <2>2, <2>3, Locked DEF LockOrder
  <2> QED BY <1>2, <2>1, <2>4, Locked DEF LockInv
<1>4. CASE ThreadUnlock
  <2>1. UnlockBody
    BY <1>4 DEF ThreadUnlock
  <2>2. boot = "main"
    BY <1>1, <2>1, Unlocked DEF LockInv, LockOrder
  <2>3. open' # <<>> => ~enabled'
    BY <2>1, Unlocked
  <2>4. \A i \in DOMAIN open' : open'[i].by = Len(frames') /\ (open'[i].saved => i = 1)
    BY <1>1, <2>1, Unlocked DEF LockInv, LockOrder
  <2>5. LockOrder'
    BY <1>1, <2>1, <2>2, <2>3, <2>4, Unlocked DEF LockOrder
  <2>6. LockExclusive'
    BY <2>1, Unlocked DEF LockInv, LockExclusive
  <2> QED BY <1>2, <2>1, <2>5, <2>6, Unlocked DEF LockInv
<1> QED BY <1>3, <1>4

(* The handler has at most one section, which found interrupts off. *)
LEMMA HandlerLocks ==
    ASSUME LockInv, SciLock \/ SciUnlock
    PROVE  LockInv'
<1>1. Running("acpi") /\ OneFrame
  BY DEF SciLock, SciUnlock, LockInv
<1>2. frames # <<>> /\ frames[1].step = "acpi" /\ ~enabled /\ Len(frames) = 1 /\ open \in Seq(Section)
  BY <1>1, RunningIs DEF LockInv, LockOrder
<1>3. CASE SciLock
  <2>1. PICK l \in Locks : LockBody(l)
    BY <1>3 DEF SciLock
  <2>2. frames' = frames /\ Mine = {}
    BY <1>3 DEF SciLock
  <2>3. open = <<>>
    <3>1. DOMAIN open = {}
      BY <2>2 DEF Mine, Level, LockInv, LockOrder
    <3> QED BY <1>2, <3>1
  <2>4. Len(open') = 1 /\ enabled' = FALSE /\ DOMAIN open' = {1} /\ ~open'[1].saved
    <3>1. open' \in Seq(Section) /\ Len(open') = Len(open) + 1 /\ enabled' = FALSE
      BY <2>1, Locked
    <3>2. Len(open') = 1 /\ DOMAIN open' = {1}
      BY <3>1, <2>3
    <3>3. ~open'[1].saved
      BY <1>2, <2>1, <3>2, Locked
    <3> QED BY <3>1, <3>2, <3>3
  <2>5. OneFrame'
    BY <1>1, <2>2, <2>4 DEF OneFrame, Record
  <2>6. LockOrder'
    BY <1>2, <2>1, <2>2, <2>4, Locked DEF LockOrder
  <2> QED BY <2>1, <2>4, <2>5, <2>6, Locked DEF LockInv
<1>4. CASE SciUnlock
  <2>1. UnlockBody /\ Goto("tick", 0)
    BY <1>4 DEF SciUnlock
  <2>2. Len(open) = 1
    BY <1>2, <2>1, Unlocked DEF LockInv, LockOrder
  <2>3. open' = <<>> /\ DOMAIN open' = {} /\ open' \in Seq(Section)
    BY <1>2, <2>1, <2>2, Unlocked
  <2>4. enabled' = FALSE
    BY <1>2, <2>1, Unlocked
  <2>5. frames' = <<Record(frames[1])'>>
    BY <1>1, <1>2, <2>1, GotoIs, FrameNext
  <2> QED BY <2>3, <2>4, <2>5 DEF LockInv, LockOrder, LockExclusive, OneFrame
<1> QED BY <1>3, <1>4

LEMMA LockStep ==
    ASSUME LockInv, [Next]_vars
    PROVE  LockInv'
<1>1. CASE Hardware
  <2>1. UNCHANGED <<enabled, frames, open, boot>>
    BY <1>1 DEF Hardware, AcceptAny, Accept, ApicTimer, PitTick, Raise, threadVars
  <2> QED BY <2>1, LockSame
<1>2. CASE Thread
  BY <1>2, BootLock, ThreadLocks DEF Thread
<1>3. CASE Handler
  BY <1>3, HandlerLock, HandlerLocks DEF Handler
<1>4. CASE Take
  BY <1>4, TakeLock
<1>5. CASE UNCHANGED vars
  <2>1. UNCHANGED <<enabled, frames, open, boot>>
    BY <1>5 DEF vars, threadVars
  <2> QED BY <2>1, LockSame
<1> QED BY <1>1, <1>2, <1>3, <1>4, <1>5 DEF Next

(* No lock of ACPI's interpreter is ever taken twice, by the thread and by *)
(* the handler of its interrupt or by nested sections of one of them, for  *)
(* any number of locks: a section of the thread keeps interrupts off until *)
(* its outermost unlock, and the handler's is over before it returns.      *)
THEOREM LockExclusiveTheorem == Spec => []LockExclusive
<1>1. Init => LockInv
  BY LockInit
<1>2. LockInv /\ [Next]_vars => LockInv'
  BY LockStep
<1>3. LockInv => LockExclusive
  BY DEF LockInv
<1> QED BY <1>1, <1>2, <1>3, PTL DEF Spec

----------------------------------------------------------------------------
(* The calibration. *)

Less == OpToRel(<, Nat)

LEMMA Least ==
    ASSUME NEW S \in SUBSET Nat, NEW x \in S
    PROVE  \E m \in S : \A y \in S : m <= y
<1>1. IsWellFoundedOn(Less, Nat)
  BY NatLessThanWellFounded DEF Less
<1>2. \A y, m \in Nat : <<y, m>> \in Less <=> y < m
  BY DEF OpToRel, Less
<1>3. \E m \in S : \A y \in S : ~(<<y, m>> \in Less)
  BY <1>1, WFMin
<1>4. PICK m \in S : \A y \in S : ~(<<y, m>> \in Less)
  BY <1>3
<1>5. ASSUME NEW y \in S PROVE m <= y
  <2>1. m \in Nat /\ y \in Nat
    OBVIOUS
  <2>2. ~(y < m)
    BY <1>2, <1>4, <2>1
  <2> QED BY <2>1, <2>2
<1> QED BY <1>5

(* The MADT leads every number to an input of the I/O APIC that is known. *)
LEMMA ResolvedIsKnown ==
    ASSUME NEW n, n \in Gsis
    PROVE  Resolve(n).gsi \in Gsis
<1>1. CASE Overrides(n) = {}
  BY <1>1 DEF Resolve
<1>2. CASE Overrides(n) # {}
  <2>1. Overrides(n) \in SUBSET Nat
    BY MadtAssumption DEF Overrides
  <2>2. \E m \in Overrides(n) : \A y \in Overrides(n) : m <= y
    BY <1>2, <2>1, Least
  <2>3. Min(Overrides(n)) \in Overrides(n)
    BY <2>2 DEF Min
  <2>4. Madt[Min(Overrides(n))].gsi \in Gsis
    BY <2>3 DEF Overrides, Gsis
  <2> QED BY <1>2, <2>4 DEF Resolve
<1> QED BY <1>1, <1>2

LEMMA GsiIsKnown ==
    ASSUME CalInv, NEW s \in Sources
    PROVE  Gsi(s) \in Gsis
<1>1. CASE s = Sci
  <2>1. SciIrq \in Gsis
    BY DEF Gsis
  <2> QED BY <1>1, <2>1, ResolvedIsKnown DEF Gsi
<1>2. CASE s \in Devices /\ s # Sci
  <2>1. irq[s] \in Gsis
    BY <1>2 DEF CalInv, Gsis
  <2> QED BY <1>2, <2>1, ResolvedIsKnown DEF Gsi
<1> QED BY <1>1, <1>2 DEF Sources

LEMMA CalInit == Init => CalInv
<1> SUFFICES ASSUME Init PROVE CalInv
  OBVIOUS
<1>1. /\ boot = "idt" /\ pic = "off" /\ tick = 0 /\ elapsed = 0 /\ moved = FALSE
      /\ enabled = FALSE /\ frames = <<>> /\ irr = {} /\ isr = {} /\ msiOn = {} /\ sciHandler = FALSE
      /\ routes = [g \in Gsis |-> NoRoute]
      /\ handlers = [v \in {Vector(irq[d]) : d \in Devices} |-> <<>>]
      /\ \A d \in Devices : irq[d] \in Lines[d]
  BY DEF Init
<1>2. Unrouted
  BY <1>1 DEF Unrouted
<1> QED BY <1>1, <1>2 DEF CalInv, Dark, Counted, CalibrationBound, Calibrating

(* Once the calibration is over, nothing touches what was measured. *)
LEMMA LateSame ==
    ASSUME CalInv, boot \notin Early, boot' \notin Early,
           boot' \in {"periodic", "mask"} => boot \in {"periodic", "mask"},
           UNCHANGED <<irq, tick, elapsed>>, DOMAIN handlers' = DOMAIN handlers,
           moved' \in BOOLEAN
    PROVE  CalInv'
  BY DEF CalInv, Early, Calibrating, Counted, CalibrationBound

(* A step of the thread while nothing is routed; the rest of the invariant *)
(* is about the step. *)
LEMMA UnroutedSame ==
    ASSUME CalInv, Unrouted, irr' = {}, isr' = {}, UNCHANGED tableVars
    PROVE  Unrouted'
  BY DEF Unrouted, tableVars

LEMMA EarlyBoot ==
    ASSUME LockInv, CalInv, BootStep, boot \in Early
    PROVE  CalInv'
<1>1. /\ Unrouted
      /\ tick \in Nat /\ elapsed \in Nat
      /\ \A d \in Devices : irq[d] \in Lines[d]
      /\ DOMAIN handlers = {Vector(irq[d]) : d \in Devices}
  BY DEF CalInv
<1>2. frames = <<>> /\ ~Pending /\ moved' = FALSE /\ frames' = frames
  BY DEF BootStep, At, InstallIdt, StartApic, SetPit, StartCount, ResetTick, WaitTick,
         WaitDone, Periodic, MaskPic, SetFrequency, FindIoApic, RouteSci, StoreSci, Route, Refuse, Store
<1>3. InstallIdt \/ StartApic \/ SetPit \/ StartCount \/ ResetTick \/ WaitTick \/ WaitDone
  BY DEF BootStep, Early, Calibrating, At, Periodic, MaskPic, SetFrequency, FindIoApic, RouteSci,
         StoreSci, Route, Refuse, Store
<1>4. UNCHANGED tableVars /\ Unrouted'
  <2>1. UNCHANGED tableVars /\ irr' = {} /\ isr' = {}
    BY <1>1, <1>3 DEF Unrouted, InstallIdt, StartApic, SetPit, StartCount, ResetTick, WaitTick,
           WaitDone, apicVars
  <2> QED BY <1>1, <2>1, UnroutedSame
<1>5. /\ \A d \in Devices : irq'[d] \in Lines[d]
      /\ DOMAIN handlers' = {Vector(irq'[d]) : d \in Devices}
  BY <1>1, <1>4 DEF tableVars
<1>6. boot \in Calibrating => enabled /\ pic = "idle" /\ Uncounted = 0
  BY <1>2 DEF CalInv, PitOnly, Pending, Uncounted
<1>7. CASE InstallIdt
  <2>1. /\ boot' = "apic" /\ pic' = "idle" /\ enabled' = enabled /\ ~enabled /\ tick' = tick
        /\ elapsed' = elapsed
    BY <1>7 DEF InstallIdt, At, CalInv, Dark
  <2>2. Dark'
    BY <1>2, <2>1 DEF Dark
  <2> QED BY <1>1, <1>2, <1>4, <1>5, <2>1, <2>2 DEF CalInv, Calibrating, Counted, CalibrationBound
<1>8. CASE StartApic
  <2>1. /\ boot' = "pit" /\ pic' = "idle" /\ enabled' = enabled /\ ~enabled /\ tick' = tick
        /\ elapsed' = elapsed
    BY <1>8 DEF StartApic, At, CalInv, Dark
  <2>2. Dark'
    BY <1>2, <2>1 DEF Dark
  <2> QED BY <1>1, <1>2, <1>4, <1>5, <2>1, <2>2 DEF CalInv, Calibrating, Counted, CalibrationBound
<1>9. CASE SetPit
  <2>1. /\ boot' = "count" /\ pic' = "idle" /\ enabled' /\ tick' = tick /\ elapsed' = elapsed
    BY <1>9 DEF SetPit, At, CalInv
  <2>2. PitOnly'
    BY <1>2, <2>1 DEF PitOnly
  <2> QED BY <1>1, <1>2, <1>4, <1>5, <2>1, <2>2 DEF CalInv, Calibrating, Counted, CalibrationBound
<1>10. CASE StartCount
  <2>1. /\ boot' = "reset" /\ pic' = "idle" /\ enabled' /\ tick' = tick /\ elapsed' = 0
    BY <1>6, <1>10 DEF StartCount, At, Calibrating
  <2>2. PitOnly'
    BY <1>2, <2>1 DEF PitOnly
  <2> QED BY <1>1, <1>2, <1>4, <1>5, <2>1, <2>2 DEF CalInv, Calibrating, Counted, CalibrationBound
<1>11. CASE ResetTick
  <2>1. /\ boot = "reset" /\ boot' = "wait" /\ pic' = "idle" /\ enabled' /\ tick' = 0 /\ elapsed' = elapsed
    BY <1>6, <1>11 DEF ResetTick, At, FirstTick, Calibrating
  <2>2. PitOnly' /\ Uncounted' = 0
    BY <1>2, <2>1 DEF PitOnly, Uncounted
  <2>3. elapsed \in {0, 1}
    BY <2>1 DEF CalInv, Counted
  <2>4. Counted'
    BY <2>1, <2>2, <2>3, TargetAssumption DEF Counted
  <2> QED BY <1>1, <1>2, <1>4, <1>5, <2>1, <2>2, <2>4 DEF CalInv, Calibrating, CalibrationBound
<1>12. CASE WaitTick
  <2>1. /\ boot = "wait" /\ boot' = "wait" /\ pic = "idle" /\ pic' = "idle" /\ enabled'
        /\ tick' = tick /\ elapsed' = elapsed /\ tick < Target
    BY <1>6, <1>12 DEF WaitTick, At, Calibrating
  <2>2. PitOnly' /\ Uncounted' = 0 /\ Uncounted = 0
    BY <1>2, <2>1 DEF PitOnly, Uncounted
  <2>3. elapsed - tick \in {0, 1}
    BY <1>1, <2>1, <2>2 DEF CalInv, Counted
  <2>4. Counted'
    BY <1>1, <2>1, <2>2, <2>3, TargetAssumption DEF Counted
  <2> QED BY <1>1, <1>2, <1>4, <1>5, <2>1, <2>2, <2>4 DEF CalInv, Calibrating, CalibrationBound
<1>13. CASE WaitDone
  <2>1. /\ boot = "wait" /\ boot' = "periodic" /\ pic = "idle"
        /\ tick' = tick /\ elapsed' = elapsed /\ tick >= Target
    BY <1>6, <1>13 DEF WaitDone, At, Calibrating
  <2>2. Uncounted = 0
    BY <1>2, <2>1 DEF Uncounted
  <2>3. elapsed - tick \in {0, 1} /\ tick <= Target
    BY <1>1, <2>1, <2>2 DEF CalInv, Counted
  <2>4. elapsed' \in Target..Target + 1
    BY <1>1, <2>1, <2>3, TargetAssumption
  <2> QED BY <1>1, <1>2, <1>5, <2>1, <2>4 DEF CalInv, Calibrating, Counted, CalibrationBound, Early
<1> QED BY <1>3, <1>7, <1>8, <1>9, <1>10, <1>11, <1>12, <1>13

LEMMA LateBoot ==
    ASSUME CalInv, BootStep, boot \notin Early
    PROVE  CalInv'
<1>1. /\ boot' \notin Early /\ UNCHANGED <<irq, tick, elapsed>> /\ moved' = FALSE
      /\ boot' \in {"periodic", "mask"} => boot \in {"periodic", "mask"}
  BY DEF BootStep, At, InstallIdt, StartApic, SetPit, StartCount, ResetTick, WaitTick,
         WaitDone, Periodic, MaskPic, SetFrequency, FindIoApic, RouteSci, StoreSci, Route, Refuse, Store,
         Early, Calibrating, NextDevice, tableVars
<1>2. DOMAIN handlers' = DOMAIN handlers
  BY DEF BootStep, At, InstallIdt, StartApic, SetPit, StartCount, ResetTick, WaitTick,
         WaitDone, Periodic, MaskPic, SetFrequency, FindIoApic, RouteSci, StoreSci, Route, Refuse, Store,
         Early, Calibrating, tableVars
<1> QED BY <1>1, <1>2, LateSame

(* Until then no request reaches the local APIC. *)
LEMMA EarlyRaise ==
    ASSUME CalInv, Unrouted, boot \in Early, NEW s \in Sources, Raise(s)
    PROVE  irr' = irr
<1>1. Gsi(s) \in Gsis
  BY GsiIsKnown
<1>2. Pinned(s) => Edge(s) = NoRoute
  BY <1>1 DEF Edge, Unrouted
<1>3. Pinned(s)
  <2>1. s = Sci => Pinned(s)
    BY DEF Pinned
  <2>2. ASSUME s \in Devices, s # Sci PROVE Kind[s] # "msi"
    <3>1. s \notin msiOn /\ handlers[Vector(irq[s])] = <<>>
      BY <2>2 DEF Unrouted
    <3>2. MayRaise(s)
      BY DEF Raise
    <3> QED BY <2>2, <3>1, <3>2 DEF MayRaise
  <2> QED BY <2>1, <2>2 DEF Pinned, Sources
<1> QED BY <1>2, <1>3 DEF Raise

LEMMA HardwareCal ==
    ASSUME LockInv, CalInv, Hardware
    PROVE  CalInv'
<1>1. UNCHANGED <<boot, irq, enabled, frames, tick, handlers, sciHandler, routes, msiOn, isr>>
  <2>1. UNCHANGED <<threadVars, tableVars, enabled, frames, tick, isr>>
    BY DEF Hardware, AcceptAny, Accept, ApicTimer, PitTick, Raise, apicVars, pitVars
  <2> QED BY <2>1 DEF threadVars, tableVars
<1>2. CASE PitTick
  <2>1. /\ ~moved /\ moved' = TRUE /\ pic \in {"idle", "service"} /\ irr' = irr
        /\ boot \in {"count", "reset", "wait", "periodic", "mask"}
        /\ pic' = IF pic = "idle" THEN "request" ELSE pic
        /\ elapsed' = IF boot \in {"reset", "wait"} /\ elapsed <= Target + 1
                      THEN elapsed + 1 ELSE elapsed
    BY <1>2 DEF PitTick, apicVars
  <2>2. CASE boot \notin Early
    BY <1>1, <2>1, <2>2, LateSame DEF Early, Calibrating
  <2>3. CASE boot \in Early
    <3>1. boot \in Calibrating
      BY <2>1, <2>3 DEF Early, Calibrating
    <3>2. frames = <<>> /\ pic = "idle" /\ enabled /\ Uncounted = 0 /\ pic' = "request"
      BY <2>1, <3>1 DEF CalInv, PitOnly, Uncounted
    <3>3. PitOnly' /\ Uncounted' = 1
      BY <1>1, <2>1, <3>2 DEF PitOnly, Uncounted
    <3>4. Unrouted'
      BY <1>1, <2>1, <2>3 DEF CalInv, Unrouted
    <3>5. Counted'
      BY <1>1, <2>1, <3>2, <3>3, TargetAssumption DEF CalInv, Counted
    <3>6. elapsed' \in Nat
      BY <2>1 DEF CalInv
    <3> QED BY <1>1, <2>1, <3>1, <3>3, <3>4, <3>5, <3>6 DEF CalInv, Calibrating, CalibrationBound
  <2> QED BY <2>2, <2>3
<1>3. CASE AcceptAny \/ ApicTimer \/ \E s \in Sources : Raise(s)
  <2>1. UNCHANGED <<pic, elapsed, moved>>
    BY <1>3 DEF AcceptAny, Accept, ApicTimer, Raise, pitVars
  <2>2. boot \in Early => Unrouted /\ irr' = irr
    <3>1. ASSUME boot \in Early PROVE Unrouted
      BY <3>1 DEF CalInv
    <3>2. ASSUME boot \in Early, ApicTimer PROVE FALSE
      BY <3>2 DEF ApicTimer, Early
    <3>3. ASSUME boot \in Early, AcceptAny PROVE FALSE
      BY <3>1, <3>3 DEF AcceptAny, Accept, Unrouted, NoRoute
    <3>4. ASSUME boot \in Early, NEW s \in Sources, Raise(s) PROVE irr' = irr
      BY <3>1, <3>4, EarlyRaise
    <3> QED BY <1>3, <3>1, <3>2, <3>3, <3>4
  <2>3. boot \in Early => Unrouted'
    BY <1>1, <2>2 DEF Unrouted
  <2>4. PitOnly' = PitOnly /\ Uncounted' = Uncounted /\ Dark' = Dark
    BY <1>1, <2>1 DEF PitOnly, Uncounted, Dark
  <2>5. Counted'
    BY <1>1, <2>1, <2>4 DEF CalInv, Counted
  <2> QED BY <1>1, <2>1, <2>3, <2>4, <2>5 DEF CalInv, CalibrationBound
<1> QED BY <1>2, <1>3 DEF Hardware

(* The interpreter's locks are used when all this is over. *)
LEMMA LocksCal ==
    ASSUME LockInv, CalInv, ThreadLock \/ ThreadUnlock \/ SciLock \/ SciUnlock
    PROVE  CalInv'
<1>1. /\ UNCHANGED <<boot, irq, handlers, tick, elapsed>>
      /\ moved' \in BOOLEAN
  BY DEF ThreadLock, ThreadUnlock, SciLock, SciUnlock, threadVars, tableVars, pitVars, CalInv
<1>2. boot \notin Early
  <2>1. CASE ThreadLock
    BY <2>1 DEF ThreadLock, Early, Calibrating
  <2>2. CASE ThreadUnlock
    <3>1. frames = <<>> /\ open # <<>>
      BY <2>2, Unlocked DEF ThreadUnlock
    <3> QED BY <3>1 DEF LockInv, LockOrder, Early, Calibrating
  <2>3. CASE SciLock \/ SciUnlock
    <3>1. frames # <<>> /\ frames[1].step = "acpi"
      BY <2>3, RunningIs DEF SciLock, SciUnlock
    <3> QED BY <3>1 DEF CalInv, PitOnly, Dark, Early
  <2> QED BY <2>1, <2>2, <2>3
<1> QED BY <1>1, <1>2, LateSame

LEMMA TakeCal ==
    ASSUME LockInv, CalInv, Take
    PROVE  CalInv'
<1>1. /\ UNCHANGED <<boot, irq, handlers, sciHandler, routes, msiOn, tick, elapsed, moved>>
      /\ enabled /\ frames = <<>>
  BY DEF Take, TakeApic, TakePic, threadVars, tableVars, pitVars, LockInv, OneFrame
<1>2. CASE boot \notin Early
  BY <1>1, <1>2, LateSame DEF CalInv
<1>3. CASE boot \in Early
  <2>1. irr = {} /\ isr = {} /\ boot \in Calibrating
    BY <1>1, <1>3 DEF CalInv, Unrouted, Dark, Early
  <2>2. TakePic
    BY <2>1 DEF Take, TakeApic, Takeable
  <2>3. /\ irr' = {} /\ isr' = {} /\ pic = "request" /\ pic' = "service" /\ enabled' = FALSE
        /\ frames' = <<[vector |-> TimerVector, step |-> "custom", n |-> 1]>>
    <3>1. LeavesFlag(GateType) = FALSE
      BY DEF LeavesFlag, GateType
    <3> QED BY <1>1, <2>1, <2>2, <3>1 DEF TakePic, Enter, apicVars
  <2>4. frames' # <<>> /\ frames'[1].vector = TimerVector /\ frames'[1].step = "custom"
    BY <2>3, FrameNext
  <2>5. moved
    BY <2>1, <2>3 DEF CalInv, PitOnly
  <2>6. PitOnly' /\ Uncounted = 1 /\ Uncounted' = 1
    BY <1>1, <2>3, <2>4, <2>5 DEF PitOnly, Uncounted, TimerVector, Vector
  <2>7. Unrouted'
    BY <1>1, <1>3, <2>3 DEF CalInv, Unrouted
  <2>8. Counted'
    BY <1>1, <2>6 DEF CalInv, Counted
  <2> QED BY <1>1, <1>3, <2>1, <2>6, <2>7, <2>8 DEF CalInv, Calibrating, CalibrationBound
<1> QED BY <1>2, <1>3

(* The handler counts the tick, ends the interrupt and returns. *)
LEMMA HandlerCal ==
    ASSUME LockInv, CalInv, CallHandler \/ HandlersDone \/ CountTick \/ Eoi \/ Iret
    PROVE  CalInv'
<1>1. /\ UNCHANGED <<boot, irq, handlers, sciHandler, routes, msiOn, elapsed, moved, irr>>
      /\ frames # <<>> /\ ~enabled /\ OneFrame
  <2>1. UNCHANGED <<threadVars, tableVars, elapsed, moved, irr>>
    BY DEF CallHandler, HandlersDone, CountTick, Eoi, Iret, apicVars, pitVars
  <2>2. frames # <<>> /\ ~enabled /\ OneFrame
    BY RunningIs DEF CallHandler, HandlersDone, CountTick, Eoi, Iret, LockInv
  <2> QED BY <2>1, <2>2 DEF threadVars, tableVars
<1>2. CASE boot \notin Early
  <2>1. tick' = tick
    BY <1>2 DEF CallHandler, HandlersDone, CountTick, Eoi, Iret, pitVars, Early
  <2> QED BY <1>1, <1>2, <2>1, LateSame DEF CalInv
<1>3. CASE boot \in Early
  <2>1. boot \in Calibrating /\ Unrouted /\ PitOnly /\ tick \in Nat
    BY <1>1, <1>3 DEF CalInv, Dark, Early
  <2>2. moved /\ frames[1].vector = TimerVector /\ Top = frames[1]
    BY <1>1, <2>1, OnlyFrame DEF PitOnly
  <2>3. Unrouted'
    <3>1. isr' = {}
      BY <2>1 DEF Unrouted, CallHandler, HandlersDone, CountTick, Eoi, Iret, apicVars
    <3> QED BY <1>1, <2>1, <3>1 DEF Unrouted
  <2>4. SUFFICES PitOnly' /\ Counted' /\ tick' \in Nat
    BY <1>1, <2>1, <2>3 DEF CalInv, Calibrating, CalibrationBound
  <2>5. CASE CallHandler \/ HandlersDone
    <3>1. frames[1].step = "custom" /\ pic' = pic /\ tick' = tick /\ enabled' = enabled
      BY <2>5, RunningIs DEF CallHandler, HandlersDone, pitVars
    <3>0. PICK st \in {"custom", "tick"} : \E m : Goto(st, m)
      BY <2>1, <2>5 DEF CallHandler, HandlersDone, Unrouted
    <3>2. PICK m : Goto(st, m)
      BY <3>0
    <3>3. frames' # <<>> /\ frames'[1].vector = TimerVector /\ frames'[1].step = st
      BY <1>1, <2>2, <3>2, GotoIs, FrameNext
    <3>4. PitOnly'
      BY <1>1, <2>1, <2>2, <3>1, <3>2, <3>3 DEF PitOnly, TimerVector, Vector
    <3>5. Uncounted' = 1 /\ Uncounted = 1
      BY <1>1, <3>1, <3>2, <3>3 DEF Uncounted
    <3> QED BY <1>1, <2>1, <3>1, <3>4, <3>5 DEF CalInv, Counted
  <2>6. CASE CountTick
    <3>1. frames[1].step = "tick" /\ pic' = pic /\ tick' = tick + 1 /\ enabled' = enabled /\ Goto("eoi", 0)
      BY <2>1, <2>2, <2>6, RunningIs DEF CountTick
    <3>2. frames' # <<>> /\ frames'[1].vector = TimerVector /\ frames'[1].step = "eoi"
      BY <1>1, <2>2, <3>1, GotoIs, FrameNext
    <3>3. PitOnly'
      BY <1>1, <2>1, <2>2, <3>1, <3>2 DEF PitOnly, TimerVector, Vector
    <3>4. Uncounted' = 0 /\ Uncounted = 1
      BY <1>1, <2>1, <3>1, <3>2 DEF Uncounted, PitOnly
    <3>5. Counted'
      BY <1>1, <2>1, <2>2, <3>1, <3>4, TargetAssumption DEF CalInv, Counted
    <3> QED BY <2>1, <3>1, <3>3, <3>5
  <2>7. CASE Eoi
    <3>1. frames[1].step = "eoi" /\ pic = "service" /\ tick' = tick /\ enabled' = enabled /\ Goto("iret", 0)
      BY <1>1, <2>1, <2>7, RunningIs DEF Eoi, PitOnly
    <3>2. pic' = "idle"
      BY <2>7, <3>1 DEF Eoi, PicEnded
    <3>3. frames' # <<>> /\ frames'[1].vector = TimerVector /\ frames'[1].step = "iret"
      BY <1>1, <2>2, <3>1, GotoIs, FrameNext
    <3>4. PitOnly'
      BY <1>1, <2>2, <3>2, <3>3 DEF PitOnly, TimerVector, Vector
    <3>5. Uncounted' = 0 /\ Uncounted = 0
      BY <1>1, <3>1, <3>2, <3>3 DEF Uncounted
    <3> QED BY <1>1, <2>1, <3>1, <3>4, <3>5 DEF CalInv, Counted
  <2>8. CASE Iret
    <3>1. frames[1].step = "iret" /\ pic = "idle" /\ pic' = "idle" /\ tick' = tick /\ enabled' = TRUE
      BY <1>1, <2>1, <2>8, RunningIs DEF Iret, PitOnly, pitVars
    <3>2. frames' = <<>>
      <4>1. frames = <<Record(frames[1])>> BY <1>1 DEF OneFrame
      <4>2. Front(<<Record(frames[1])>>) = <<>> BY DEF Front
      <4> QED BY <4>1, <4>2, <2>8 DEF Iret
    <3>3. PitOnly'
      BY <1>1, <2>2, <3>1, <3>2 DEF PitOnly
    <3>4. Uncounted' = 0 /\ Uncounted = 0
      BY <1>1, <3>1, <3>2 DEF Uncounted
    <3> QED BY <1>1, <2>1, <3>1, <3>3, <3>4 DEF CalInv, Counted
  <2> QED BY <2>5, <2>6, <2>7, <2>8
<1> QED BY <1>2, <1>3

LEMMA CalStep ==
    ASSUME LockInv, CalInv, [Next]_vars
    PROVE  CalInv'
<1>1. CASE Hardware
  BY <1>1, HardwareCal
<1>2. CASE Thread
  BY <1>2, EarlyBoot, LateBoot, LocksCal DEF Thread
<1>3. CASE Handler
  BY <1>3, HandlerCal, LocksCal DEF Handler
<1>4. CASE Take
  BY <1>4, TakeCal
<1>5. CASE UNCHANGED vars
  <2>1. UNCHANGED <<enabled, frames, boot, irq, handlers, sciHandler, routes, msiOn, irr, isr, pic,
                    tick, elapsed, moved>>
    BY <1>5 DEF vars, threadVars, tableVars, apicVars, pitVars
  <2>2. Unrouted' = Unrouted /\ Dark' = Dark /\ PitOnly' = PitOnly /\ Uncounted' = Uncounted
    BY <2>1 DEF Unrouted, Dark, PitOnly, Uncounted
  <2>3. Counted'
    BY <2>1, <2>2 DEF CalInv, Counted
  <2> QED BY <2>1, <2>2, <2>3 DEF CalInv, CalibrationBound
<1> QED BY <1>1, <1>2, <1>3, <1>4, <1>5 DEF Next

(* The timer of the local APIC is measured over Target periods of the PIT  *)
(* or one more, for every Target, every MADT and every set of devices:     *)
(* nothing else interrupts while the ticks are counted, and a tick that    *)
(* came between the start of the counter and the reset of the count makes  *)
(* the measured time longer by one period, never shorter.                  *)
THEOREM CalibrationBoundTheorem == Spec => []CalibrationBound
<1> DEFINE Both == LockInv /\ CalInv
<1>1. Init => Both
  BY LockInit, CalInit
<1>2. Both /\ [Next]_vars => Both'
  BY LockStep, CalStep
<1>3. Both => CalibrationBound
  BY DEF CalInv
<1> QED BY <1>1, <1>2, <1>3, PTL DEF Spec
=============================================================================
