----------------------------- MODULE Interrupts -----------------------------
(***************************************************************************)
(* How an interrupt reaches its handler: the interrupt gates and           *)
(* isr_common (arch/x86_64/IDT), the 8259 PIC while the timer is           *)
(* calibrated and the I/O APIC afterwards, Install_handler and             *)
(* PCI::install_interrupt, and the locks ACPI's interpreter takes from the *)
(* thread and from the handler of its own interrupt.                       *)
(*                                                                         *)
(* One processor: the boot thread, which goes on to be the shell, and a    *)
(* stack of interrupt frames above it.  Only the top of the stack runs,    *)
(* and an interrupt that can be taken is taken before its next step.       *)
(***************************************************************************)
EXTENDS Integers, Sequences, FiniteSets, FiniteSetsExt, SequencesExt

CONSTANTS Order,        \* the devices, in the order their handlers are installed
          Kind,         \* device -> "pin" | "isa" | "msi"
          Lines,        \* device -> the numbers install_interrupt may pass on
          Madt,         \* the overrides in the MADT, in their order
          SciIrq,       \* the FADT's interrupt of ACPI
          NumIrqs,      \* numbers Install_handler accepts (24)
          MaxHandlers,  \* handlers of one vector (4)
          Target,       \* ticks the calibration waits for (5)
          Locks         \* the spinlocks of the interpreter

Devices == {Order[i] : i \in DOMAIN Order}
Sci == "sci"
Sources == Devices \cup {Sci}

ASSUME OrderAssumption == Kind \in [Devices -> {"pin", "isa", "msi"}] /\ Sci \notin Devices
ASSUME MadtAssumption == Madt \in Seq([source : Nat, gsi : Nat, level : BOOLEAN])

ASSUME TargetAssumption == Target \in Nat \ {0}

(* Interrupt n has the vector n + 32, a PIC's too once it is remapped.     *)
Vector(n) == n + 32
TimerVector == Vector(0)
Class(v) == v \div 16   \* the local APIC's priority

VARIABLES
    boot, k,      \* where the thread is, and the device it installs
    irq,          \* the number of each device
    enabled,      \* the interrupt flag
    frames,       \* [vector, step, n] of the handlers running, the last on top
    handlers,     \* vector -> custom_handlers
    sciHandler,   \* has ACPI's handler been installed?
    routes,       \* gsi -> [vector, level] or NoRoute
    remoteIrr,    \* level entries whose interrupt has not been ended
    irr, isr, tmr,\* the local APIC: requested, in service, level triggered
    msiOn,        \* devices that send messages
    cause,        \* what each device wants to be served for
    pic,          \* timer line of the PIC: "off", "idle", "request", "service"
    tick, elapsed,\* Time::tick while calibrating; PIT periods since the count
    moved,        \* has the PIT gone off since the thread's last step?
    open          \* [by, lock, saved]: the locked sections

threadVars == <<boot, k>>
tableVars == <<irq, handlers, sciHandler, routes, msiOn>>
apicVars == <<remoteIrr, irr, isr, tmr>>
pitVars == <<pic, tick, elapsed, moved>>
vars == <<threadVars, tableVars, apicVars, pitVars, enabled, frames, cause, open>>

NoRoute == [vector |-> 0, level |-> FALSE]
(* The I/O APIC's inputs that can have a route. *)
Gsis == {SciIrq} \cup {Madt[i].gsi : i \in DOMAIN Madt} \cup UNION {Lines[d] : d \in Devices}

Init ==
    /\ boot = "idt" /\ k = 1
    /\ irq \in {f \in [Devices -> UNION {Lines[d] : d \in Devices}] :
                  \A d \in Devices : f[d] \in Lines[d]}
    /\ enabled = FALSE /\ frames = <<>> /\ open = <<>>
    /\ handlers = [v \in {Vector(irq[d]) : d \in Devices} |-> <<>>] /\ sciHandler = FALSE
    /\ routes = [g \in Gsis |-> NoRoute] /\ msiOn = {} /\ cause = {}
    /\ remoteIrr = {} /\ irr = {} /\ isr = {} /\ tmr = {}
    /\ pic = "off" /\ tick = 0 /\ elapsed = 0 /\ moved = FALSE

----------------------------------------------------------------------------
(* The I/O APIC and the local APIC. *)

(* The thread waits for the PIT here. *)
Calibrating == {"count", "reset", "wait"}

(* resolve_irq: the first override of the number, else the number itself,  *)
(* edge triggered.                                                         *)
Overrides(n) == {i \in DOMAIN Madt : Madt[i].source = n}
Resolve(n) ==
    IF Overrides(n) = {} THEN [gsi |-> n, level |-> FALSE]
    ELSE [gsi |-> Madt[Min(Overrides(n))].gsi, level |-> Madt[Min(Overrides(n))].level]

(* IOAPIC::route: the entry is written whole and is never masked. *)
Routed(n) == [routes EXCEPT ![Resolve(n).gsi] =
                 [vector |-> Vector(n), level |-> Resolve(n).level]]

Gsi(s) == Resolve(IF s = Sci THEN SciIrq ELSE irq[s]).gsi
Pinned(s) == IF s = Sci THEN TRUE ELSE Kind[s] # "msi"
Asserted(g) == \E s \in cause : Pinned(s) /\ Gsi(s) = g

Sent(v) == irr \cup {v}

(* A level that is high is sent again whenever it has been ended. *)
Accept(g) ==
    /\ routes[g].level /\ Asserted(g) /\ g \notin remoteIrr
    /\ remoteIrr' = remoteIrr \cup {g}
    /\ irr' = Sent(routes[g].vector) /\ tmr' = tmr \cup {routes[g].vector}
    /\ UNCHANGED <<threadVars, tableVars, pitVars, isr, enabled, frames, cause, open>>

(* An edge and a message are sent as they happen.  A device sends messages *)
(* once they are enabled; the keyboard's bytes before its handler is there *)
(* are flushed by the probe; another pin may rise at any time, ACPI's once *)
(* ACPI is on.                                                             *)
MayRaise(s) ==
    \/ s = Sci /\ boot \notin Calibrating \cup {"idt", "apic", "pit", "periodic", "mask", "frequency", "ioapic", "sci"}
    \/ s \in Devices /\ Kind[s] = "pin"
    \/ s \in Devices /\ Kind[s] = "msi" /\ s \in msiOn
    \/ /\ s \in Devices /\ Kind[s] = "isa"
       /\ \E i \in DOMAIN handlers[Vector(irq[s])] : handlers[Vector(irq[s])][i] = s

Edge(s) == IF Pinned(s) THEN routes[Gsi(s)] ELSE [vector |-> Vector(irq[s]), level |-> FALSE]

Raise(s) ==
    /\ s \notin cause /\ MayRaise(s)
    /\ cause' = cause \cup {s}
    /\ IF Edge(s) = NoRoute \/ Edge(s).level \/ (Pinned(s) /\ Asserted(Gsi(s)))
       THEN UNCHANGED <<irr, tmr>>
       ELSE irr' = Sent(Edge(s).vector) /\ tmr' = tmr \ {Edge(s).vector}
    /\ UNCHANGED <<threadVars, tableVars, pitVars, remoteIrr, isr, enabled, frames, open>>

(* The local APIC's timer, periodic once it is calibrated. *)
ApicTimer ==
    /\ boot \notin Calibrating \cup {"idt", "apic", "pit", "periodic"}
    /\ TimerVector \notin irr
    /\ irr' = Sent(TimerVector) /\ tmr' = tmr \ {TimerVector}
    /\ UNCHANGED <<threadVars, tableVars, pitVars, remoteIrr, isr, enabled, frames, cause, open>>

(* The PIT's period is longer than a step of the thread. *)
PitTick ==
    /\ ~moved /\ boot \in {"count", "reset", "wait", "periodic", "mask"}
    /\ pic \in {"idle", "service"}
    /\ pic' = IF pic = "idle" THEN "request" ELSE pic
    /\ moved' = TRUE
    /\ elapsed' = IF boot \in {"reset", "wait"} /\ elapsed <= Target + 1
                  THEN elapsed + 1 ELSE elapsed   \* a bound: Target + 2 is too many
    /\ UNCHANGED <<threadVars, tableVars, apicVars, tick, enabled, frames, cause, open>>

----------------------------------------------------------------------------
(* Taking an interrupt.  Every gate is an interrupt gate, whose handler    *)
(* starts with the flag clear: iretq brings back the one it was taken with.*)

Best(vs) == IF vs = {} THEN 0 ELSE Max(vs)
Takeable == {v \in irr : Class(v) > Class(Best(isr))}
Pending == enabled /\ (Takeable # {} \/ pic = "request")

(* set_IDT_entry: a gate of type 0xE, not the trap gate's 0xF. *)
GateType == 14
LeavesFlag(type) == type % 2 = 1

Enter(v) ==
    /\ enabled' = LeavesFlag(GateType)
    /\ frames' = Append(frames, [vector |-> v, step |-> "custom", n |-> 1])

TakeApic ==
    /\ enabled /\ Takeable # {}
    /\ LET v == Max(Takeable)
       IN irr' = irr \ {v} /\ isr' = isr \cup {v} /\ Enter(v)
    /\ UNCHANGED <<threadVars, tableVars, pitVars, remoteIrr, tmr, cause, open>>

TakePic ==
    /\ enabled /\ pic = "request"
    /\ pic' = "service" /\ Enter(TimerVector)
    /\ UNCHANGED <<threadVars, tableVars, apicVars, tick, elapsed, moved, cause, open>>

----------------------------------------------------------------------------
(* isr_common. *)

Top == frames[Len(frames)]
Running(step) == frames # <<>> /\ ~Pending /\ Top.step = step
Goto(step, n) ==
    frames' = [frames EXCEPT ![Len(frames)] = [vector |-> @.vector, step |-> step, n |-> n]]

HandlersOf(v) == IF v \in DOMAIN handlers THEN handlers[v] ELSE <<>>

(* MUTANT: only the first handler of a vector is called. *)
CalledFirst(v) == IF HandlersOf(v) = <<>> THEN 0 ELSE 1

(* The loop reads the number of handlers on every turn. *)
Called(v) == Len(HandlersOf(v))

CallHandler ==
    /\ Running("custom") /\ Top.n <= Called(Top.vector)
    /\ cause' = cause \ {HandlersOf(Top.vector)[Top.n]}
    /\ Goto("custom", Top.n + 1)
    /\ UNCHANGED <<threadVars, tableVars, apicVars, pitVars, enabled, open>>

HandlersDone ==
    /\ Running("custom") /\ Top.n > Called(Top.vector)
    /\ Goto(IF sciHandler /\ Top.vector = Vector(SciIrq) THEN "acpi" ELSE "tick", 0)
    /\ UNCHANGED <<threadVars, tableVars, apicVars, pitVars, enabled, cause, open>>

(* Time::tick is followed while the timer is calibrated. *)
CountTick ==
    /\ Running("tick")
    /\ tick' = IF Top.vector = TimerVector /\ boot \in Calibrating THEN tick + 1 ELSE tick
    /\ Goto("eoi", 0)
    /\ UNCHANGED <<threadVars, tableVars, apicVars, pic, elapsed, moved, enabled, cause, open>>

(* MUTANT: the PIC's interrupt is never ended. *)
PicEndedNever == pic

(* While PIC_enabled, pic_send_eoi follows the local APIC's. *)
PicEnded == IF pic = "service" THEN "idle" ELSE pic

(* The local APIC ends its highest interrupt, and tells the I/O APIC when  *)
(* that came as a level.                                                   *)
Eoi ==
    /\ Running("eoi")
    /\ isr' = isr \ {Best(isr)}
    /\ remoteIrr' = IF Best(isr) \in tmr
                    THEN {g \in remoteIrr : routes[g].vector # Best(isr)} ELSE remoteIrr
    /\ pic' = PicEnded
    /\ Goto("iret", 0)
    /\ UNCHANGED <<threadVars, tableVars, irr, tmr, tick, elapsed, moved, enabled, cause, open>>

Iret ==
    /\ Running("iret")
    /\ frames' = Front(frames) /\ enabled' = TRUE
    /\ UNCHANGED <<threadVars, tableVars, apicVars, pitVars, cause, open>>

----------------------------------------------------------------------------
(* ACPI's interpreter: sections under its spinlocks, from the thread and   *)
(* from its interrupt handler, where the work it schedules runs at once.   *)

Level == Len(frames)
Mine == {i \in DOMAIN open : open[i].by = Level}

(* Locking is saving the flag and clearing it: there is one processor. *)
LockBody(l) ==
    /\ \A i \in Mine : open[i].lock # l
    /\ open' = Append(open, [by |-> Level, lock |-> l, saved |-> enabled])
    /\ enabled' = FALSE

(* MUTANT: unlocking turns interrupts on. *)
RestoredAlways(saved) == TRUE

Restored(saved) == saved

UnlockBody ==
    /\ Mine # {}
    /\ open' = Front(open) /\ enabled' = Restored(open[Len(open)].saved)

ThreadLock ==
    /\ frames = <<>> /\ ~Pending /\ boot = "main" /\ Cardinality(Mine) < Cardinality(Locks)
    /\ \E l \in Locks : LockBody(l)
    /\ moved' = FALSE
    /\ UNCHANGED <<threadVars, tableVars, apicVars, pic, tick, elapsed, frames, cause>>

ThreadUnlock ==
    /\ frames = <<>> /\ ~Pending /\ UnlockBody
    /\ moved' = FALSE
    /\ UNCHANGED <<threadVars, tableVars, apicVars, pic, tick, elapsed, frames, cause>>

SciLock ==
    /\ Running("acpi") /\ Mine = {}
    /\ \E l \in Locks : LockBody(l)
    /\ UNCHANGED <<threadVars, tableVars, apicVars, pitVars, frames, cause>>

SciUnlock ==
    /\ Running("acpi") /\ UnlockBody
    /\ cause' = cause \ {Sci}
    /\ Goto("tick", 0)
    /\ UNCHANGED <<threadVars, tableVars, apicVars, pitVars>>

----------------------------------------------------------------------------
(* The thread. *)

At(from, to) == frames = <<>> /\ ~Pending /\ boot = from /\ boot' = to /\ moved' = FALSE

(* IDT_Install: the gates, and the PIC remapped and unmasked ... *)
InstallIdt ==
    /\ At("idt", "apic")
    /\ pic' = "idle"
    /\ UNCHANGED <<k, tableVars, apicVars, tick, elapsed, enabled, frames, cause, open>>

(* ... aPIC_Init; IDT_Install does not look whether it failed ... *)
StartApic ==
    /\ At("apic", "pit")
    /\ irr' = {} /\ isr' = {} /\ tmr' = {}
    /\ UNCHANGED <<k, tableVars, remoteIrr, pic, tick, elapsed, enabled, frames, cause, open>>

(* ... and set_PIT_timer_freq, which turns interrupts on although its      *)
(* caller has turned them off.                                             *)
SetPit ==
    /\ At("pit", "count")
    /\ enabled' = TRUE
    /\ UNCHANGED <<k, tableVars, apicVars, pic, tick, elapsed, frames, cause, open>>

(* calibrate_aPIC_timer: the counter starts ... *)
StartCount ==
    /\ At("count", "reset")
    /\ elapsed' = 0
    /\ UNCHANGED <<k, tableVars, apicVars, pic, tick, enabled, frames, cause, open>>

(* MUTANT: the ticks counted so far are kept. *)
FirstTickKept == tick
FirstTick == 0

ResetTick ==
    /\ At("reset", "wait")
    /\ tick' = FirstTick
    /\ UNCHANGED <<k, tableVars, apicVars, pic, elapsed, enabled, frames, cause, open>>

(* ... and is read after Target ticks, with interrupts off again. *)
WaitTick ==
    /\ At("wait", "wait") /\ tick < Target
    /\ UNCHANGED <<k, tableVars, apicVars, pic, tick, elapsed, enabled, frames, cause, open>>

WaitDone ==
    /\ At("wait", "periodic") /\ tick >= Target
    /\ enabled' = FALSE
    /\ UNCHANGED <<k, tableVars, apicVars, pic, tick, elapsed, frames, cause, open>>

Periodic ==
    /\ At("periodic", "mask")
    /\ UNCHANGED <<k, tableVars, apicVars, pic, tick, elapsed, enabled, frames, cause, open>>

(* The end of IDT_Install: the PIC is masked and ended. *)
MaskPic ==
    /\ At("mask", "frequency")
    /\ pic' = "off" /\ enabled' = TRUE
    /\ UNCHANGED <<k, tableVars, apicVars, tick, elapsed, frames, cause, open>>

(* Set_PIT, which sets the local APIC's timer, also with interrupts on     *)
(* when it returns.                                                        *)
SetFrequency ==
    /\ At("frequency", "ioapic")
    /\ enabled' = TRUE
    /\ UNCHANGED <<k, tableVars, apicVars, pic, tick, elapsed, frames, cause, open>>

(* IOAPIC::init: the first I/O APIC of the MADT, its entries as they are.  *)
FindIoApic ==
    /\ At("ioapic", "sci")
    /\ remoteIrr' = {}
    /\ UNCHANGED <<k, tableVars, irr, isr, tmr, pic, tick, elapsed, enabled, frames, cause, open>>

(* uacpi_kernel_install_interrupt_handler: the route, then the handler. *)
RouteSci ==
    /\ At("sci", "sciStore")
    /\ routes' = Routed(SciIrq)
    /\ UNCHANGED <<k, irq, handlers, sciHandler, msiOn, apicVars, pic, tick, elapsed, enabled,
                   frames, cause, open>>

StoreSci ==
    /\ At("sciStore", "route")
    /\ sciHandler' = TRUE
    /\ UNCHANGED <<k, irq, handlers, routes, msiOn, apicVars, pic, tick, elapsed, enabled,
                   frames, cause, open>>

Device == Order[k]
HandlersFor(d) == handlers[Vector(irq[d])]

(* Install_handler refuses a number without an I/O APIC input (a function  *)
(* without a pin has 255) and a fifth handler.                             *)
Refused(d) == irq[d] >= NumIrqs \/ Len(HandlersFor(d)) >= MaxHandlers

NextDevice == IF k = Len(Order) THEN "main" ELSE "route"
NextK == IF k = Len(Order) THEN k ELSE k + 1

(* The first handler of a vector routes it.  The probe of the keyboard has *)
(* turned interrupts off, and turns them on behind.                        *)
Route ==
    /\ At("route", "store") /\ ~Refused(Device)
    /\ routes' = IF HandlersFor(Device) = <<>> THEN Routed(irq[Device]) ELSE routes
    /\ enabled' = (Kind[Device] # "isa")
    /\ UNCHANGED <<k, irq, handlers, sciHandler, msiOn, apicVars, pic, tick, elapsed, frames,
                   cause, open>>

Refuse ==
    /\ At("route", NextDevice) /\ Refused(Device)
    /\ k' = NextK
    /\ UNCHANGED <<tableVars, apicVars, pic, tick, elapsed, enabled, frames, cause, open>>

(* ... and install_interrupt lets an MSI function send messages at the end.*)
Store ==
    /\ At("store", NextDevice)
    /\ handlers' = [handlers EXCEPT ![Vector(irq[Device])] = Append(@, Device)]
    /\ msiOn' = IF Kind[Device] = "msi" THEN msiOn \cup {Device} ELSE msiOn
    /\ enabled' = TRUE /\ k' = NextK
    /\ UNCHANGED <<irq, sciHandler, routes, apicVars, pic, tick, elapsed, frames, cause, open>>

----------------------------------------------------------------------------
BootStep ==
    \/ InstallIdt \/ StartApic \/ SetPit \/ StartCount \/ ResetTick \/ WaitTick \/ WaitDone
    \/ Periodic \/ MaskPic \/ SetFrequency \/ FindIoApic \/ RouteSci \/ StoreSci \/ Route \/ Refuse \/ Store
Thread == BootStep \/ ThreadLock \/ ThreadUnlock
Handler ==
    \/ CallHandler \/ HandlersDone \/ SciLock \/ SciUnlock \/ CountTick \/ Eoi \/ Iret
Take == TakeApic \/ TakePic
AcceptAny == \E g \in Gsis : Accept(g)
Hardware == AcceptAny \/ ApicTimer \/ PitTick \/ \E s \in Sources : Raise(s)

Next == Thread \/ Handler \/ Take \/ Hardware

Spec == Init /\ [][Next]_vars

(* The processor runs whatever is on top, and takes an interrupt it can    *)
(* take; the I/O APIC sends a level it sees; the PIT keeps going off.  The *)
(* handlers leave the thread some time: also a pin that stays high, for    *)
(* the I/O APIC takes longer to send it again than the handler to return.  *)
(* The interpreter leaves what it has locked.                              *)
ThreadsTurn == frames = <<>> /\ ~Pending

Fairness ==
    /\ []<>ThreadsTurn /\ []<>(open = <<>>)
    /\ SF_vars(BootStep) /\ SF_vars(ThreadUnlock) /\ WF_vars(Handler) /\ WF_vars(Take)
    /\ SF_vars(PitTick) /\ \A g \in Gsis : WF_vars(Accept(g))

FairSpec == Spec /\ Fairness

----------------------------------------------------------------------------
(* A locked section is never entered by the interpreter a second time from *)
(* an interrupt, although the locks hold nothing but the interrupt flag:   *)
(* a nested unlock leaves interrupts off.                                  *)
LockExclusive ==
    \A i, j \in DOMAIN open : i # j => open[i].lock # open[j].lock

(* Whatever a device with a handler wants to be served for is served, also *)
(* on a shared vector, under level and edge triggering and for messages.   *)
Served ==
    \A s \in Sources :
        (/\ s \in cause
         /\ IF s = Sci THEN sciHandler
            ELSE \E i \in DOMAIN HandlersFor(s) : HandlersFor(s)[i] = s) ~> (s \notin cause)

(* The local APIC's timer is measured over Target periods of the PIT, or   *)
(* one more: the tick that was counted before the counter started does not *)
(* shorten the wait.                                                       *)
CalibrationBound == boot \in {"periodic", "mask"} => elapsed \in Target..Target + 1

(* The calibration ends and every driver's handler gets installed, with    *)
(* interrupts coming in all the while.                                     *)
BootEnds == <>(boot = "main")

============================================================================
