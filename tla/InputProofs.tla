---------------------------- MODULE InputProofs ----------------------------
(***************************************************************************)
(* Theorems about the way of the input, from the scan codes to a command.  *)
(*                                                                         *)
(* KeyQueue, for every set of keys, every size of the ring and every wait: *)
(* no key is slept on, no empty ring is popped, and the ring hands over    *)
(* the keys typed, decoded, in order and each once.                        *)
(*                                                                         *)
(* Shell, for every screen, line, set of characters and table of commands: *)
(* what is on the screen behind the prompt is the line that ENTER will     *)
(* run, and the words a command gets are the words that were typed.        *)
(***************************************************************************)
EXTENDS KeyQueue, Shell, SequenceTheorems, FiniteSetTheorems, TLAPS

----------------------------------------------------------------------------
(* The inductive invariant. *)

(* Where the thread can sleep, and where it runs with interrupts off. *)
CpuInv ==
    /\ (pc \in {"empty", "swap"} => ~intr)
    /\ (pc = "swap" => Empty)
    /\ (halted => pc \in {"cli", "dead"})
    /\ (pc = "dead" => ~intr)
    /\ (pc \in {"time", "read", "compare"} => waiting # NoKey)

(* How far the stroke of key k, up or down, is: on the wire, in the         *)
(* controller, or with its prefix already seen.                             *)
Last(k, up) == IF up THEN k.sc + 128 ELSE k.sc
Underway(k, up) ==
    /\ typing = (IF up THEN NoKey ELSE k)
    /\ \/ k.ext /\ wire = <<224, Last(k, up)>> /\ obf = NoByte /\ extended = FALSE
       \/ k.ext /\ wire = <<Last(k, up)>> /\ obf = 224 /\ extended = FALSE
       \/ wire = <<Last(k, up)>> /\ obf = NoByte /\ extended = k.ext
       \/ wire = <<>> /\ obf = Last(k, up) /\ extended = k.ext

StreamInv ==
    \/ wire = <<>> /\ obf = NoByte /\ extended = FALSE /\ typing = NoKey
    \/ \E k \in Keys, up \in BOOLEAN : Underway(k, up)

KeyInv == TypeOK /\ CpuInv /\ StreamInv /\ PopFindsKey /\ NoLostWakeup
           /\ (pc = "tail" => sc = data[tail])

----------------------------------------------------------------------------
(* Facts about the data the steps move. *)

LEMMA CodeType == ASSUME NEW k \in Keys PROVE Code(k) \in Codes /\ Code(k) \in Nat
  BY KeysAssumption, Z3 DEF Code, Codes

LEMMA NextIndexType == ASSUME NEW idx \in 0..Size - 1 PROVE NextIndex(idx) \in 0..Size - 1
  BY SizeAssumption, Z3 DEF NextIndex

(* The bytes of a stroke, and what the handler sees in its last byte. *)
LEMMA StrokeBytes ==
    ASSUME NEW k \in Keys, NEW up \in BOOLEAN
    PROVE  /\ Last(k, up) \in Bytes
           /\ ~IsPrefix(Last(k, up))
           /\ IsRelease(Last(k, up)) = up
           /\ Last(k, up) % 128 = k.sc
           /\ Stroke(k, up) = IF k.ext THEN <<224, Last(k, up)>> ELSE <<Last(k, up)>>
  <1>1. k.sc \in 1..127 /\ k.sc # 96 BY KeysAssumption
  <1>2. Last(k, up) \in Bytes /\ ~IsPrefix(Last(k, up))
    BY <1>1 DEF Last, Bytes, IsPrefix
  <1>3. IsRelease(Last(k, up)) = up
    BY <1>1, Z3 DEF Last, IsRelease
  <1>4. Last(k, up) % 128 = k.sc
    BY <1>1, Z3 DEF Last
  <1> QED BY <1>2, <1>3, <1>4 DEF Stroke, Last

(* A key record is its two fields. *)
LEMMA KeyFields ==
    ASSUME NEW k \in Keys PROVE Code([ext |-> k.ext, sc |-> k.sc]) = Code(k)
  BY DEF Code

----------------------------------------------------------------------------
(* One lemma per group of steps. *)

LEMMA InitInv == Init => KeyInv
  <1> SUFFICES ASSUME Init PROVE KeyInv OBVIOUS
  <1>1. wire \in Seq(Bytes) /\ Len(wire) <= 2 BY DEF Init
  <1>2. data \in [0..Size - 1 -> Codes] BY DEF Init, Codes, KEY_NULL
  <1>3. TypeOK
    BY <1>1, <1>2, SizeAssumption, TickAssumption DEF Init, TypeOK, Codes, KEY_NULL
  <1> QED
    BY <1>3 DEF Init, KeyInv, CpuInv, StreamInv, PopFindsKey, NoLostWakeup, Empty

LEMMA PressInv == ASSUME KeyInv, NEW k \in Keys, Press(k) \/ Release(k) PROVE KeyInv'
  <1>1. PICK up \in BOOLEAN : wire' = Stroke(k, up) /\ typing' = (IF up THEN NoKey ELSE k)
                              /\ wire = <<>> /\ obf = NoByte /\ UNCHANGED <<obf, ring, cpu, sc, last>>
    <2>1. CASE Press(k) BY <2>1 DEF Press
    <2>2. CASE Release(k)
      <3>1. typing = NoKey
        <4>1. wire = <<>> /\ obf = NoByte BY <2>2 DEF Release
        <4> QED BY <4>1, StrokeBytes, ByteAssumption DEF KeyInv, StreamInv, Underway
      <3> QED BY <2>2, <3>1 DEF Release
    <2> QED BY <2>1, <2>2
  <1>2. extended = FALSE
    BY <1>1, StrokeBytes, ByteAssumption DEF KeyInv, StreamInv, Underway
  <1>3. Underway(k, up)'
    BY ZenonT(60), <1>1, <1>2, StrokeBytes, KeysAssumption DEF Underway, ring
  <1>4. wire' \in Seq(Bytes) /\ Len(wire') <= 2
    <2>1. Last(k, up) \in Bytes /\ 224 \in Bytes BY StrokeBytes DEF Bytes
    <2>2. wire' = <<224, Last(k, up)>> \/ wire' = <<Last(k, up)>> BY <1>1, StrokeBytes
    <2>3. CASE wire' = <<224, Last(k, up)>> BY <2>1, <2>3
    <2>4. CASE wire' = <<Last(k, up)>> BY <2>1, <2>4
    <2> QED BY <2>2, <2>3, <2>4
  <1> QED
    BY <1>1, <1>3, <1>4 DEF KeyInv, TypeOK, CpuInv, StreamInv, PopFindsKey, NoLostWakeup,
       Empty, ring, cpu

LEMMA ByteArrivesInv == ASSUME KeyInv, ByteArrives PROVE KeyInv'
  <1>1. PICK k \in Keys, up \in BOOLEAN : Underway(k, up)
    BY DEF ByteArrives, KeyInv, StreamInv
  <1>2. Underway(k, up)'
    <2>1. Last(k, up) \in Bytes BY StrokeBytes
    <2>2. typing' = typing /\ extended' = extended BY DEF ByteArrives, ring
    <2>3. obf' = Head(wire) /\ wire' = Tail(wire) /\ obf = NoByte BY DEF ByteArrives
    <2>4. CASE k.ext /\ wire = <<224, Last(k, up)>> /\ extended = FALSE
      <3>1. obf' = 224 /\ wire' = <<Last(k, up)>> BY <2>3, <2>4
      <3> QED BY <1>1, <2>2, <2>4, <3>1 DEF Underway
    <2>5. CASE wire = <<Last(k, up)>> /\ extended = k.ext
      <3>1. obf' = Last(k, up) /\ wire' = <<>> BY <2>3, <2>5
      <3> QED BY <1>1, <2>2, <2>5, <3>1 DEF Underway
    <2>6. wire # <<>> BY DEF ByteArrives
    <2>7. 224 # NoByte BY ByteAssumption DEF Bytes
    <2> QED BY <1>1, <2>1, <2>3, <2>4, <2>5, <2>6, <2>7, ByteAssumption DEF Underway
  <1>3. wire' \in Seq(Bytes) /\ Len(wire') <= 2 /\ obf' \in Bytes
    BY DEF ByteArrives, KeyInv, TypeOK
  <1> QED
    BY <1>2, <1>3 DEF ByteArrives, KeyInv, TypeOK, CpuInv, StreamInv, PopFindsKey,
       NoLostWakeup, Empty, ring, cpu

LEMMA KeyboardInterruptInv == ASSUME KeyInv, KeyboardInterrupt PROVE KeyInv'
  <1> USE DEF KeyboardInterrupt
  <1>1. PICK k \in Keys, up \in BOOLEAN : Underway(k, up)
    BY DEF KeyInv, StreamInv
  <1>2. Last(k, up) \in Bytes /\ ~IsPrefix(Last(k, up)) /\ IsRelease(Last(k, up)) = up
    BY StrokeBytes
  <1>3. CASE obf = 224
    <2>1. IsPrefix(obf) BY <1>3 DEF IsPrefix
    <2>2. k.ext /\ wire = <<Last(k, up)>> /\ extended = FALSE
      BY <1>1, <1>2, <1>3, ByteAssumption DEF Underway, IsPrefix
    <2>3. Underway(k, up)'
      BY <1>1, <2>1, <2>2, KeysAssumption DEF Underway
    <2> QED
      BY <2>1, <2>3 DEF KeyInv, TypeOK, CpuInv, StreamInv, PopFindsKey, NoLostWakeup, Empty
  <1>4. CASE obf # 224
    <2>1. wire = <<>> /\ obf = Last(k, up) /\ extended = k.ext
      BY <1>1, <1>4 DEF Underway
    <2>2. ~IsPrefix(obf) /\ IsRelease(obf) = up BY <1>2, <2>1
    <2>3. StreamInv'
      BY <1>1, <2>1, <2>2 DEF StreamInv, Underway
    <2>4. CASE up
      BY <2>2, <2>3, <2>4 DEF KeyInv, TypeOK, CpuInv, PopFindsKey, NoLostWakeup, Empty
    <2>5. CASE ~up
      <3>1. KeyCode(obf) = Code(k)
        BY <2>1, StrokeBytes, KeyFields DEF KeyCode
      <3>2. KeyCode(obf) \in Codes BY <3>1, CodeType
      <3>3. Push(KeyCode(obf)) /\ typing' = NoKey BY <2>2, <2>5
      <3>4. data' \in [0..Size - 1 -> Codes] /\ head' \in 0..Size - 1
        BY <3>2, <3>3, NextIndexType DEF Push, KeyInv, TypeOK
      <3>5. (~Empty => ~Empty') /\ (Empty => data'[tail] \in Codes)
        BY <3>3, <3>4 DEF Push, Empty, KeyInv, TypeOK
      <3>6. ~Empty => data'[tail'] = data[tail]
        BY <3>3 DEF Push, Empty, KeyInv, TypeOK
      <3>7. TypeOK' BY <2>2, <2>5, <3>3, <3>4 DEF KeyInv, TypeOK
      <3>8. CpuInv' BY DEF KeyInv, CpuInv
      <3> QED
        BY <2>3, <3>5, <3>6, <3>7, <3>8 DEF KeyInv, PopFindsKey, NoLostWakeup
    <2> QED BY <2>4, <2>5
  <1> QED BY <1>3, <1>4

(* The steps of the thread: the keyboard and what it has sent stay as they  *)
(* are, and the ring changes only where a key is taken.                     *)
LEMMA StreamSame == ASSUME StreamInv, UNCHANGED <<controller, extended>> PROVE StreamInv'
  BY DEF StreamInv, Underway, controller

LEMMA TimerInterruptInv == ASSUME KeyInv, TimerInterrupt PROVE KeyInv'
  <1>1. StreamInv' BY StreamSame DEF KeyInv, TimerInterrupt, controller, ring
  <1>2. ticks' \in 0..MaxTicks /\ halted' = FALSE
    BY TickAssumption DEF TimerInterrupt, KeyInv, TypeOK
  <1>3. UNCHANGED <<wire, typing, obf, extended, data, head, tail, intr, pc, waiting, sc, last>>
    BY DEF TimerInterrupt, controller, ring
  <1>4. TypeOK' BY <1>2, <1>3 DEF KeyInv, TypeOK
  <1> QED
    BY <1>1, <1>2, <1>3, <1>4 DEF KeyInv, CpuInv, PopFindsKey, NoLostWakeup, Empty

LEMMA GetCharInv == ASSUME KeyInv, SysGetKey \/ GetChar PROVE KeyInv'
  <1> USE DEF SysGetKey, GetChar, GetCharEmpty, GetCharHalt, GetCharCli
  <1>1. StreamInv' BY StreamSame DEF KeyInv, controller, ring
  <1>2. UNCHANGED <<wire, typing, obf, extended, data, head, tail, waiting, ticks, sc, last>>
    BY DEF controller, ring
  <1>3. intr' \in BOOLEAN /\ halted' \in BOOLEAN /\ pc' \in {"empty", "swap", "pop", "cli"}
    BY DEF KeyInv, TypeOK
  <1>4. TypeOK' BY <1>2, <1>3 DEF KeyInv, TypeOK
  <1>5. CpuInv'
    BY <1>2 DEF KeyInv, CpuInv, TypeOK, Empty
  <1>6. PopFindsKey' /\ NoLostWakeup'
    BY <1>2 DEF KeyInv, CpuInv, PopFindsKey, NoLostWakeup, Empty
  <1> QED BY <1>1, <1>3, <1>4, <1>5, <1>6 DEF KeyInv

LEMMA PopInv == ASSUME KeyInv, Pop PROVE KeyInv'
  <1> USE DEF Pop, PopBegin, PopData, PopTail, Return, Caller
  <1>1. StreamInv' BY StreamSame DEF KeyInv, controller, ring
  <1>2. NextIndex(tail) \in 0..Size - 1 BY NextIndexType DEF KeyInv, TypeOK
  <1>3. data[tail] \in Codes BY DEF KeyInv, TypeOK
  <1>4. TypeOK'
    BY <1>2, <1>3 DEF KeyInv, TypeOK, controller, ring
  <1> QED
    BY <1>1, <1>4 DEF KeyInv, TypeOK, CpuInv, PopFindsKey, NoLostWakeup, Empty, controller, ring

LEMMA WaitInv ==
    ASSUME KeyInv, Wait \/ \E k \in Keys, t \in 0..MaxTicks : WaitForKey(k, t)
    PROVE  KeyInv'
  <1> USE DEF Wait, WaitForKey, WaitTimeout, WaitAgain, ReadCharNull, ReadChar, WaitFound,
              WaitHalt, LeaveWaitForKey, Return, Caller
  <1>1. StreamInv' BY StreamSame DEF KeyInv, controller, ring
  <1>2. UNCHANGED <<wire, typing, obf, extended, data, head, tail, sc>>
    BY DEF controller, ring
  <1>3. intr' \in BOOLEAN /\ halted' \in BOOLEAN /\ waiting' \in Keys \cup {NoKey}
    BY DEF KeyInv, TypeOK
  <1>4. ticks' \in 0..MaxTicks BY TickAssumption DEF KeyInv, TypeOK
  <1>5. last' \in Codes BY DEF KeyInv, TypeOK, Codes
  <1>6. pc' \in {"user", "time", "read", "pop", "compare", "dead"}
    BY DEF KeyInv, CpuInv
  <1>7. TypeOK' BY <1>2, <1>3, <1>4, <1>5, <1>6 DEF KeyInv, TypeOK
  <1> QED
    BY <1>1, <1>2, <1>7, KeysAssumption DEF KeyInv, CpuInv, PopFindsKey, NoLostWakeup, Empty

LEMMA NextInv == KeyInv /\ [Next]_vars => KeyInv'
  <1> SUFFICES ASSUME KeyInv, [Next]_vars PROVE KeyInv' OBVIOUS
  <1>1. CASE UNCHANGED vars
    BY <1>1 DEF vars, KeyInv, TypeOK, CpuInv, StreamInv, Underway, PopFindsKey, NoLostWakeup,
       Empty
  <1> QED
    BY <1>1, PressInv, ByteArrivesInv, KeyboardInterruptInv, TimerInterruptInv, GetCharInv,
       PopInv, WaitInv DEF Next

(* Every state a run of the keyboard path reaches satisfies the invariant.  *)
THEOREM KeyInvariant == Spec => []KeyInv
  <1>1. KeyInv /\ [Next]_vars => KeyInv' BY NextInv
  <1> QED BY InitInv, <1>1, PTL DEF Spec

(* No caller of pop finds the ring empty and returns its uninitialised      *)
(* local (Keyboard.cpp:18-20, 31-33).                                       *)
THEOREM PopFindsKeyTheorem == Spec => []PopFindsKey
  BY KeyInvariant, PTL DEF KeyInv

(* The CPU never sleeps in get_char with a key in the ring.                 *)
THEOREM NoLostWakeupTheorem == Spec => []NoLostWakeup
  BY KeyInvariant, PTL DEF KeyInv

----------------------------------------------------------------------------
(* The ring is the queue of KeyFifo.  First its arithmetic: the indices of  *)
(* a ring of Size slots, without `%`.                                       *)

QueueOf(d, h, t) == [idx \in 1..((h - t) % Size) |-> KeyOf(d[(t + idx - 1) % Size])]
Queue == QueueOf(data, head, tail)

LEMMA ModLow == ASSUME NEW a \in Nat, a < Size PROVE a % Size = a
  BY SizeAssumption, Z3

LEMMA ModHigh == ASSUME NEW a \in Nat, Size <= a, a < 2 * Size PROVE a % Size = a - Size
  BY SizeAssumption, Z3

LEMMA ModNegative == ASSUME NEW a \in Int, -Size < a, a < 0 PROVE a % Size = a + Size
  BY SizeAssumption, Z3

LEMMA WaitingValue ==
    ASSUME NEW h \in 0..Size - 1, NEW t \in 0..Size - 1
    PROVE  (h - t) % Size = IF h >= t THEN h - t ELSE h - t + Size
  BY SizeAssumption, ModLow, ModNegative

LEMMA SlotValue ==
    ASSUME NEW t \in 0..Size - 1, NEW idx \in 1..Size
    PROVE  (t + idx - 1) % Size = IF t + idx - 1 < Size THEN t + idx - 1 ELSE t + idx - 1 - Size
  BY SizeAssumption, ModLow, ModHigh

LEMMA NextIndexValue ==
    ASSUME NEW idx \in 0..Size - 1
    PROVE  NextIndex(idx) = IF idx = Size - 1 THEN 0 ELSE idx + 1
  <1>1. CASE idx + 1 < Size BY <1>1, SizeAssumption, ModLow DEF NextIndex
  <1>2. CASE idx + 1 = Size BY <1>2, SizeAssumption, ModHigh DEF NextIndex
  <1> QED BY <1>1, <1>2, SizeAssumption

LEMMA KeyOfCode == ASSUME NEW k \in Keys PROVE KeyOf(Code(k)) = k
  <1>1. Code(k) # KEY_NULL
    BY KeysAssumption, Z3 DEF Code, KEY_NULL
  <1>2. \A j \in Keys : Code(j) = Code(k) => j = k BY KeysAssumption
  <1> QED BY <1>1, <1>2 DEF KeyOf

LEMMA KeyOfType == ASSUME NEW c \in Codes PROVE KeyOf(c) \in Keys \cup {NoKey}
  <1>1. CASE c = KEY_NULL BY <1>1 DEF KeyOf
  <1>2. CASE c # KEY_NULL
    <2>1. PICK k \in Keys : c = Code(k) BY <1>2 DEF Codes
    <2> QED BY <2>1, KeyOfCode
  <1> QED BY <1>1, <1>2

LEMMA QueueLen ==
    ASSUME NEW d \in [0..Size - 1 -> Codes],
           NEW h \in 0..Size - 1, NEW t \in 0..Size - 1
    PROVE  /\ (h - t) % Size \in 0..Size - 1
           /\ Len(QueueOf(d, h, t)) = (h - t) % Size
           /\ QueueOf(d, h, t) \in Seq(Keys \cup {NoKey})
           /\ (((h - t) % Size = 0) <=> (t = h))
           /\ (((h - t) % Size = Size - 1) <=> (NextIndex(h) = t))
           /\ ((QueueOf(d, h, t) = <<>>) <=> (t = h))
  <1> DEFINE n == (h - t) % Size
  <1>2. n = IF h >= t THEN h - t ELSE h - t + Size
    BY WaitingValue
  <1>3. n \in 0..Size - 1 /\ ((n = 0) <=> (t = h))
    BY <1>2, SizeAssumption
  <1>4. (n = Size - 1) <=> (NextIndex(h) = t)
    BY <1>2, SizeAssumption, NextIndexValue
  <1>5. QueueOf(d, h, t) \in Seq(Keys \cup {NoKey}) /\ Len(QueueOf(d, h, t)) = n
    <2>1. ASSUME NEW idx \in 1..n PROVE KeyOf(d[(t + idx - 1) % Size]) \in Keys \cup {NoKey}
      <3>1. idx \in 1..Size BY <1>3, SizeAssumption
      <3>2. (t + idx - 1) % Size \in 0..Size - 1 BY <3>1, SlotValue, SizeAssumption
      <3> QED BY <3>2, KeyOfType
    <2>2. QueueOf(d, h, t) = [idx \in 1..n |-> KeyOf(d[(t + idx - 1) % Size])] BY DEF QueueOf
    <2>3. QueueOf(d, h, t) \in [1..n -> Keys \cup {NoKey}] BY <2>1, <2>2
    <2> QED BY <1>3, <2>3, SeqDef, LenProperties
  <1>6. (QueueOf(d, h, t) = <<>>) <=> (t = h)
    BY <1>3, <1>5, EmptySeq
  <1> QED BY <1>3, <1>4, <1>5, <1>6

(* The same, as a formula that can be applied to any ring.                  *)
LEMMA QueueSeq ==
    \A d \in [0..Size - 1 -> Codes], h, t \in 0..Size - 1 :
        Len(QueueOf(d, h, t)) = (h - t) % Size /\ QueueOf(d, h, t) \in Seq(Keys \cup {NoKey})
  <1> TAKE d \in [0..Size - 1 -> Codes], h, t \in 0..Size - 1
  <1>1. Len(QueueOf(d, h, t)) = (h - t) % Size BY QueueLen
  <1>2. QueueOf(d, h, t) \in Seq(Keys \cup {NoKey}) BY QueueLen
  <1> QED BY <1>1, <1>2

(* Pushing a key into a ring with room appends it.                          *)
LEMMA PushAppends ==
    ASSUME NEW d \in [0..Size - 1 -> Codes], NEW h \in 0..Size - 1, NEW t \in 0..Size - 1,
           NEW k \in Keys, NextIndex(h) # t
    PROVE  QueueOf([d EXCEPT ![h] = Code(k)], NextIndex(h), t) = Append(QueueOf(d, h, t), k)
  <1> DEFINE e == [d EXCEPT ![h] = Code(k)]
             g == NextIndex(h)
             n == (h - t) % Size
             Q == QueueOf(d, h, t)
             R == QueueOf(e, g, t)
  <1>1. g \in 0..Size - 1 BY NextIndexType
  <1>2. n = (IF h >= t THEN h - t ELSE h - t + Size)
    BY WaitingValue
  <1>3. (g - t) % Size = n + 1 /\ n \in 0..Size - 2
    <2>1. g = IF h = Size - 1 THEN 0 ELSE h + 1 BY NextIndexValue
    <2>2. (g - t) % Size = IF g >= t THEN g - t ELSE g - t + Size BY <1>1, WaitingValue
    <2> QED BY <1>2, <2>1, <2>2, SizeAssumption
  <1>4. ASSUME NEW idx \in 1..n + 1
        PROVE  /\ (t + idx - 1) % Size \in 0..Size - 1
               /\ (((t + idx - 1) % Size = h) <=> (idx = n + 1))
    <2>1. idx \in 1..Size BY <1>3, SizeAssumption
    <2>2. (t + idx - 1) % Size = IF t + idx - 1 < Size THEN t + idx - 1 ELSE t + idx - 1 - Size
      BY <2>1, SlotValue
    <2> HIDE DEF n
    <2> QED BY <1>2, <1>3, <2>1, <2>2, SizeAssumption
  <1>5. R = [idx \in 1..n + 1 |-> KeyOf(e[(t + idx - 1) % Size])]
    BY <1>3 DEF QueueOf
  <1>6. \A idx \in 1..n + 1 : R[idx] = IF idx = n + 1 THEN k ELSE Q[idx]
    <2> SUFFICES ASSUME NEW idx \in 1..n + 1 PROVE R[idx] = IF idx = n + 1 THEN k ELSE Q[idx]
      OBVIOUS
    <2>1. CASE idx = n + 1
      <3>1. (t + idx - 1) % Size = h BY <1>4, <2>1
      <3>2. e[h] = Code(k) OBVIOUS
      <3>3. R[idx] = KeyOf(Code(k)) BY <1>5, <3>1, <3>2
      <3> QED BY <2>1, <3>3, KeyOfCode
    <2>2. CASE idx # n + 1
      <3>1. (t + idx - 1) % Size # h /\ (t + idx - 1) % Size \in 0..Size - 1 BY <1>4, <2>2
      <3>2. e[(t + idx - 1) % Size] = d[(t + idx - 1) % Size] BY <3>1
      <3>3. idx \in 1..n BY <1>3, <2>2, SizeAssumption
      <3>4. Q[idx] = KeyOf(d[(t + idx - 1) % Size]) BY <3>3 DEF QueueOf
      <3> QED BY <1>5, <2>2, <3>2, <3>4
    <2> QED BY <2>1, <2>2
  <1>7. Q \in Seq(Keys \cup {NoKey}) /\ Len(Q) = n BY QueueLen
  <1>8. e \in [0..Size - 1 -> Codes] BY CodeType
  <1>9. R \in Seq(Keys \cup {NoKey}) /\ Len(R) = n + 1 
    <2>1. Len(R) = (g - t) % Size /\ R \in Seq(Keys \cup {NoKey})
      <3> QED BY <1>1, <1>8, QueueSeq
    <2> QED BY <1>3, <2>1
  <1> HIDE DEF R, Q, n
  <1>10. /\ Append(Q, k) \in Seq(Keys \cup {NoKey}) /\ Len(Append(Q, k)) = n + 1
         /\ \A idx \in 1..n + 1 : Append(Q, k)[idx] = IF idx = n + 1 THEN k ELSE Q[idx]
    <2>1. k \in Keys \cup {NoKey} OBVIOUS
    <2> QED BY <1>3, <1>7, <2>1, AppendProperties
  <1>11. \A idx \in 1..Len(R) : R[idx] = Append(Q, k)[idx] BY <1>6, <1>9, <1>10
  <1>12. R = Append(Q, k) BY <1>9, <1>10, <1>11, SeqEqual
  <1> QED BY <1>12 DEF R, Q

(* Giving the slot at the tail back removes the oldest key.                 *)
LEMMA PopRemoves ==
    ASSUME NEW d \in [0..Size - 1 -> Codes],
           NEW h \in 0..Size - 1, NEW t \in 0..Size - 1, t # h
    PROVE  /\ QueueOf(d, h, t) # <<>> /\ Head(QueueOf(d, h, t)) = KeyOf(d[t])
           /\ QueueOf(d, h, NextIndex(t)) = Tail(QueueOf(d, h, t))
  <1> DEFINE u == NextIndex(t)
             n == (h - t) % Size
             Q == QueueOf(d, h, t)
             R == QueueOf(d, h, u)
  <1>1. u \in 0..Size - 1 /\ u = (IF t = Size - 1 THEN 0 ELSE t + 1)
    BY NextIndexType, NextIndexValue
  <1>2. n = (IF h >= t THEN h - t ELSE h - t + Size)
    BY WaitingValue
  <1>3. (h - u) % Size = n - 1 /\ n \in 1..Size - 1
    <2>1. (h - u) % Size = IF h >= u THEN h - u ELSE h - u + Size BY <1>1, WaitingValue
    <2> HIDE DEF u, n
    <2> QED BY <1>1, <1>2, <2>1, SizeAssumption
  <1>4. ASSUME NEW idx \in 1..n - 1 PROVE (u + idx - 1) % Size = (t + (idx + 1) - 1) % Size
    <2>1. idx \in 1..Size /\ idx + 1 \in 1..Size BY <1>3, SizeAssumption
    <2>2. (u + idx - 1) % Size = IF u + idx - 1 < Size THEN u + idx - 1 ELSE u + idx - 1 - Size
      BY <1>1, <2>1, SlotValue
    <2>3. (t + (idx + 1) - 1) % Size
            = IF t + (idx + 1) - 1 < Size THEN t + (idx + 1) - 1 ELSE t + (idx + 1) - 1 - Size
      BY <2>1, SlotValue
    <2> HIDE DEF u, n
    <2> QED BY <1>1, <2>1, <2>2, <2>3, SizeAssumption
  <1>5. R = [idx \in 1..n - 1 |-> KeyOf(d[(u + idx - 1) % Size])] BY <1>3 DEF QueueOf
  <1>6. Q = [idx \in 1..n |-> KeyOf(d[(t + idx - 1) % Size])] BY DEF QueueOf
  <1>7. Q \in Seq(Keys \cup {NoKey}) /\ Len(Q) = n /\ Q # <<>> BY SMTT(30), <1>3, QueueLen
  <1>8. \A idx \in 1..n - 1 : R[idx] = Q[idx + 1]
    <2> SUFFICES ASSUME NEW idx \in 1..n - 1 PROVE R[idx] = Q[idx + 1] OBVIOUS
    <2>1. idx + 1 \in 1..n BY <1>3
    <2>2. Q[idx + 1] = KeyOf(d[(t + (idx + 1) - 1) % Size]) BY <1>6, <2>1
    <2>3. R[idx] = KeyOf(d[(u + idx - 1) % Size]) BY <1>5
    <2> QED BY <1>4, <2>2, <2>3
  <1>9. Head(Q) = KeyOf(d[t])
    <2>1. (t + 1 - 1) % Size = t BY SlotValue, SizeAssumption
    <2>2. Q[1] = KeyOf(d[(t + 1 - 1) % Size]) BY <1>3, <1>6
    <2> QED BY <1>7, <2>1, <2>2
  <1>10. R \in Seq(Keys \cup {NoKey}) /\ Len(R) = n - 1
    <2>1. Len(R) = (h - u) % Size /\ R \in Seq(Keys \cup {NoKey})
      <3> QED BY <1>1, QueueSeq
    <2> QED BY <1>3, <2>1
  <1> HIDE DEF R, Q, n, u
  <1>11. /\ Tail(Q) \in Seq(Keys \cup {NoKey}) /\ Len(Tail(Q)) = n - 1
         /\ \A idx \in 1..n - 1 : Tail(Q)[idx] = Q[idx + 1]
    BY <1>7, HeadTailProperties
  <1>12. R = Tail(Q) BY <1>8, <1>10, <1>11, SeqEqual
  <1> QED BY <1>7, <1>9, <1>12 DEF R, Q, u

----------------------------------------------------------------------------
(* Every step of the path is a step of KeyFifo, or none.                    *)

LEMMA RingTypes ==
    ASSUME KeyInv
    PROVE  head \in 0..Size - 1 /\ tail \in 0..Size - 1 /\ data \in [0..Size - 1 -> Codes]
  BY DEF KeyInv, TypeOK

LEMMA FifoInit == Init => Fifo!Init
  <1> SUFFICES ASSUME Init PROVE Fifo!Init OBVIOUS
  <1>1. Queue = <<>> BY InitInv, RingTypes, QueueLen DEF Init, Queue
  <1>2. KeyOf(last) = NoKey BY DEF Init, KeyOf
  <1> QED BY <1>1, <1>2 DEF Init, Fifo!Init, Queue, QueueOf

(* What the abstract steps are, in terms of Queue.                          *)
LEMMA FifoPress ==
    ASSUME NEW k \in Keys, typing = NoKey, typing' = k, UNCHANGED <<data, head, tail, last>>
    PROVE  Fifo!Next
  BY DEF Fifo!Next, Fifo!Press, KeyOf

LEMMA FifoEnqueue ==
    ASSUME typing # NoKey, typing' = NoKey, last' = last,
           Len(Queue) < Size - 1, Queue' = Append(Queue, typing)
    PROVE  Fifo!Next
  <1>1. KeyOf(last)' = KeyOf(last) BY DEF KeyOf
  <1>2. Fifo!Enqueue BY <1>1, Zenon DEF Fifo!Enqueue, Queue, QueueOf
  <1> QED BY <1>2 DEF Fifo!Next

LEMMA FifoDrop ==
    ASSUME typing # NoKey, typing' = NoKey, UNCHANGED <<data, head, tail, last>>,
           Len(Queue) = Size - 1
    PROVE  Fifo!Next
  <1>1. KeyOf(last)' = KeyOf(last) BY DEF KeyOf
  <1>2. Queue' = Queue BY DEF Queue, QueueOf, KeyOf
  <1>3. Fifo!Drop BY <1>1, <1>2, Zenon DEF Fifo!Drop, Queue, QueueOf
  <1> QED BY <1>3 DEF Fifo!Next

LEMMA FifoTake ==
    ASSUME Queue # <<>>, KeyOf(last)' = Head(Queue), Queue' = Tail(Queue), typing' = typing
    PROVE  Fifo!Next
  BY DEF Fifo!Next, Fifo!Take, Queue, QueueOf

LEMMA FifoTakeNothing ==
    ASSUME Queue = <<>>, last' = KEY_NULL, UNCHANGED <<typing, data, head, tail>>
    PROVE  Fifo!Next
  BY DEF Fifo!Next, Fifo!TakeNothing, KeyOf, Queue, QueueOf

LEMMA FifoStutter ==
    ASSUME UNCHANGED <<typing, data, head, tail, last>>
    PROVE  UNCHANGED Fifo!vars
  BY DEF Fifo!vars, KeyOf

LEMMA PressStep == ASSUME KeyInv, NEW k \in Keys, Press(k) PROVE [Fifo!Next]_Fifo!vars
  <1>1. typing = NoKey
    BY StrokeBytes, ByteAssumption DEF Press, KeyInv, StreamInv, Underway
  <1> QED BY <1>1, FifoPress DEF Press, ring

LEMMA InterruptStep == ASSUME KeyInv, KeyboardInterrupt PROVE [Fifo!Next]_Fifo!vars
  <1> USE DEF KeyboardInterrupt
  <1>1. CASE IsPrefix(obf) \/ IsRelease(obf)
    BY <1>1, FifoStutter DEF IsPrefix, IsRelease
  <1>2. CASE ~IsPrefix(obf) /\ ~IsRelease(obf)
    <2>1. PICK k \in Keys, up \in BOOLEAN : Underway(k, up) BY DEF KeyInv, StreamInv
    <2>2. obf = Last(k, up) /\ extended = k.ext
      BY <1>2, <2>1 DEF Underway, IsPrefix
    <2>3. ~up BY <1>2, <2>2, StrokeBytes
    <2>4. typing = k BY <2>1, <2>3 DEF Underway
    <2>5. KeyCode(obf) = Code(k) BY <2>2, StrokeBytes, KeyFields DEF KeyCode
    <2>6. Push(Code(k)) /\ typing' = NoKey /\ UNCHANGED <<tail, last>> BY <1>2, <2>5
    <2>7. typing # NoKey BY <2>4, KeysAssumption
    <2>8. CASE NextIndex(head) = tail
      <3>1. Len(Queue) = Size - 1 BY <2>8, RingTypes, QueueLen DEF Queue
      <3> QED BY <2>6, <2>7, <2>8, <3>1, FifoDrop DEF Push
    <2>9. CASE NextIndex(head) # tail
      <3>1. Len(Queue) < Size - 1
        <4>1. Len(Queue) = (head - tail) % Size BY RingTypes, QueueSeq DEF Queue
        <4>2. (head - tail) % Size \in 0..Size - 1 /\ (head - tail) % Size # Size - 1
          BY <2>9, RingTypes, QueueLen
        <4> QED BY <4>1, <4>2, SizeAssumption
      <3>2. data' = [data EXCEPT ![head] = Code(k)] /\ head' = NextIndex(head) /\ tail' = tail
        BY <2>6, <2>9 DEF Push
      <3>3. Queue' = QueueOf(data', head', tail') BY DEF Queue, QueueOf, KeyOf
      <3>4. Queue' = Append(Queue, k)
        <4>1. head \in 0..Size - 1 /\ tail \in 0..Size - 1 /\ data \in [0..Size - 1 -> Codes]
          BY RingTypes
        <4>2. QueueOf([data EXCEPT ![head] = Code(k)], NextIndex(head), tail)
                = Append(QueueOf(data, head, tail), k)
          BY <2>9, <4>1, PushAppends
        <4> QED BY <3>2, <3>3, <4>2 DEF Queue
      <3> QED BY <2>4, <2>6, <2>7, <3>1, <3>4, FifoEnqueue
    <2> QED BY <2>8, <2>9
  <1> QED BY <1>1, <1>2

LEMMA PopTailStep == ASSUME KeyInv, PopTail PROVE [Fifo!Next]_Fifo!vars
  <1>1. tail # head /\ sc = data[tail] BY DEF KeyInv, PopTail, PopFindsKey, Empty
  <1>2. tail' = NextIndex(tail) /\ last' = sc /\ UNCHANGED <<typing, data, head>>
    BY DEF PopTail, Return, controller
  <1>3. Queue' = QueueOf(data, head, NextIndex(tail))
    BY <1>2 DEF Queue, QueueOf, KeyOf
  <1>4. Queue # <<>> /\ Head(Queue) = KeyOf(data[tail]) /\ Queue' = Tail(Queue)
    BY <1>1, <1>3, RingTypes, PopRemoves DEF Queue
  <1>5. KeyOf(last)' = KeyOf(data[tail]) BY <1>1, <1>2 DEF KeyOf
  <1> QED BY <1>2, <1>4, <1>5, FifoTake

LEMMA ReadCharNullStep == ASSUME KeyInv, ReadCharNull PROVE [Fifo!Next]_Fifo!vars
  <1>1. Queue = <<>> BY RingTypes, QueueLen DEF ReadCharNull, Empty, Queue
  <1> QED BY <1>1, FifoTakeNothing DEF ReadCharNull, Return, controller, ring

LEMMA NextStep == KeyInv /\ [Next]_vars => [Fifo!Next]_Fifo!vars
  <1> SUFFICES ASSUME KeyInv, [Next]_vars PROVE [Fifo!Next]_Fifo!vars OBVIOUS
  <1>1. CASE UNCHANGED vars BY <1>1, FifoStutter DEF vars
  <1>2. ASSUME NEW k \in Keys, Release(k) PROVE [Fifo!Next]_Fifo!vars
    BY <1>2, FifoStutter DEF Release, ring
  <1>3. CASE ByteArrives \/ TimerInterrupt \/ SysGetKey \/ GetChar
    BY <1>3, FifoStutter DEF ByteArrives, TimerInterrupt, SysGetKey, GetChar, GetCharEmpty,
       GetCharHalt, GetCharCli, controller, ring
  <1>4. CASE PopBegin
    <2>1. pc' = "data" /\ UNCHANGED <<typing, data, head, tail, last>>
      BY <1>4 DEF PopBegin, KeyInv, PopFindsKey, controller, ring
    <2> QED BY <2>1, FifoStutter
  <1>5. CASE PopData BY <1>5, FifoStutter DEF PopData, controller, ring
  <1>6. ASSUME NEW k \in Keys, NEW t \in 0..MaxTicks, WaitForKey(k, t)
        PROVE  [Fifo!Next]_Fifo!vars
    BY <1>6, FifoStutter DEF WaitForKey, controller, ring
  <1>7. CASE WaitTimeout \/ WaitAgain \/ ReadChar \/ WaitFound \/ WaitHalt
    BY <1>7, FifoStutter DEF WaitTimeout, WaitAgain, ReadChar, WaitFound, WaitHalt,
       LeaveWaitForKey, controller, ring
  <1> QED
    BY <1>1, <1>2, <1>3, <1>4, <1>5, <1>6, <1>7, PressStep, InterruptStep, PopTailStep,
       ReadCharNullStep DEF Next, Pop, Wait

(* The keyboard path implements KeyFifo: what the shell reads is what was   *)
(* typed, in order and each key once, whatever the interrupts interleave    *)
(* with, and a key is dropped only by a full ring.                          *)
THEOREM KeyQueueImplementsKeyFifo == Spec => ImplementsKeyFifo
  <1>1. KeyInv /\ [Next]_vars => [Fifo!Next]_Fifo!vars BY NextStep
  <1> QED BY KeyInvariant, FifoInit, <1>1, PTL DEF Spec, ImplementsKeyFifo, Fifo!Spec

----------------------------------------------------------------------------
(* The console and the shell.  Arithmetic first: a set of numbers has a    *)
(* least one.                                                              *)
Less == OpToRel(<, Nat)
LEMMA Least ==
    ASSUME NEW S, S \subseteq Nat, S # {}
    PROVE  \E m \in S : \A n \in S : m <= n
<1>1. PICK m \in S : \A n \in S : ~ <<n, m>> \in Less
  BY NatLessThanWellFounded, WFMin DEF Less
<1>2. \A n \in S : ~ (n < m)
  BY <1>1 DEF Less, OpToRel
<1> QED BY <1>1, <1>2

----------------------------------------------------------------------------
(* The screen. *)

(* The cells before row y, those with that row, and all there are. *)
RowAt(y, before) == before = y * Width
RowsEnd(y, before, through, all) ==
    /\ Cells = 0..all - 1
    /\ through = before + Width /\ through <= all
    /\ (y + 1 = Height => through = all)
    /\ (y > 0 => before >= Width) /\ (y = 0 => before = 0)

LEMMA Rows ==
    ASSUME NEW y \in 0..Height - 1
    PROVE  \E before \in Nat, through \in Nat, all \in Nat :
             /\ RowAt(y, before) /\ RowsEnd(y, before, through, all)
             /\ RowAt(y + 1, through) /\ RowAt(y - 1, before - Width)
             /\ all = Width * Height
<1> USE ScreenAssumption
<1>1. PICK before \in Int, all \in Int, rest \in Int :
        before = y * Width /\ all = Width * Height /\ rest = (Height - 1 - y) * Width
  OBVIOUS
<1>2. before >= 0 /\ rest >= 0
  BY <1>1
<1>3. all = before + Width + rest
  BY <1>1
<1>4. PICK through \in Nat : through = before + Width
  BY <1>2
<1>5. y + 1 = Height => rest = 0
  BY <1>1
<1>6. (y > 0 => before >= Width) /\ (y = 0 => before = 0)
  BY <1>1
<1>7. all \in Nat /\ before \in Nat /\ Cells = 0..all - 1
  BY <1>1, <1>2, <1>3, <1>4 DEF Cells
<1>8. RowsEnd(y, before, through, all)
  BY <1>2, <1>3, <1>4, <1>5, <1>6, <1>7 DEF RowsEnd
<1>9. RowAt(y, before)
  BY <1>1 DEF RowAt
<1>10. RowAt(y + 1, through)
  <2>1. (y + 1) * Width = y * Width + Width
    OBVIOUS
  <2> QED BY <1>1, <1>4, <2>1 DEF RowAt
<1>11. RowAt(y - 1, before - Width)
  <2>1. (y - 1) * Width = y * Width - Width
    OBVIOUS
  <2> QED BY <1>1, <2>1 DEF RowAt
<1> QED BY <1>1, <1>4, <1>7, <1>8, <1>9, <1>10, <1>11

(* memcpy downwards copies as memmove does. *)
IsMemory(mem) == mem = [a \in DOMAIN mem |-> mem[a]] /\ DOMAIN mem \subseteq Nat
Readable(mem, src, n) == \A a \in DOMAIN mem : a < n => src + a \in DOMAIN mem

LEMMA MemcpyDown ==
    ASSUME NEW mem, NEW src \in Nat, NEW n \in Nat, src > 0, IsMemory(mem), Readable(mem, src, n)
    PROVE  Memcpy(mem, 0, src, n) = [a \in DOMAIN mem |-> IF a < n THEN mem[src + a] ELSE mem[a]]
<1> USE DEF IsMemory, Readable
<1> DEFINE D == DOMAIN mem
           Moved(k) == [a \in D |-> IF a < k THEN mem[src + a] ELSE mem[a]]
           Next1(k, m) == [m EXCEPT ![0 + k - 1] = m[src + k - 1]]
           Is(f) == f = [k \in 0..n |-> IF k = 0 THEN mem
                                        ELSE LET m == f[k - 1] IN [m EXCEPT ![0 + k - 1] = m[src + k - 1]]]
           g == [k \in 0..n |-> Moved(k)]
           c == CHOOSE f : Is(f)
<1>1. Memcpy(mem, 0, src, n) = c[n]
  BY DEF Memcpy
<1>2. Moved(0) = mem
  <2>1. \A a \in D : Moved(0)[a] = mem[a]
    OBVIOUS
  <2> QED BY <2>1
<1>3. ASSUME NEW k \in 1..n PROVE Moved(k) = Next1(k, Moved(k - 1))
  <2>1. ASSUME NEW a \in D PROVE Moved(k)[a] = Next1(k, Moved(k - 1))[a]
    <3>1. a \in Nat
      OBVIOUS
    <3>2. CASE a # k - 1
      <4>1. a < k <=> a < k - 1
        BY <3>1, <3>2
      <4> QED BY <4>1, <3>2
    <3>3. CASE a = k - 1
      <4>1. src + a \in D /\ ~(src + a < k - 1)
        BY <3>1, <3>3
      <4>2. Moved(k - 1)[src + a] = mem[src + a]
        BY <4>1
      <4>3. 0 + k - 1 = a /\ src + k - 1 = src + a
        BY <3>3
      <4>4. Next1(k, Moved(k - 1))[a] = Moved(k - 1)[src + a]
        BY <4>3
      <4>5. Moved(k)[a] = mem[src + a]
        BY <3>1, <3>3
      <4> QED BY <4>2, <4>4, <4>5
    <3> QED BY <3>2, <3>3
  <2> QED BY <2>1
<1> HIDE DEF Moved
<1>4. Is(g)
  <2>1. ASSUME NEW k \in 0..n
        PROVE  g[k] = IF k = 0 THEN mem ELSE LET m == g[k - 1] IN [m EXCEPT ![0 + k - 1] = m[src + k - 1]]
    <3>1. CASE k = 0
      BY <3>1, <1>2
    <3>2. CASE k # 0
      <4>1. k \in 1..n /\ k - 1 \in 0..n
        BY <3>2
      <4>2. g[k] = Next1(k, Moved(k - 1)) /\ g[k - 1] = Moved(k - 1)
        BY <1>3, <4>1
      <4> QED BY <3>2, <4>2
    <3> QED BY <3>1, <3>2
  <2> QED BY <2>1
<1>5. Is(c)
  BY <1>4
<1> HIDE DEF g, c
<1>6. c[0] = mem /\ \A k \in 1..n : c[k] = Next1(k, c[k - 1])
  <2>1. 0 \in 0..n
    OBVIOUS
  <2>2. c[0] = mem
    BY <1>5, <2>1
  <2>3. ASSUME NEW k \in 1..n PROVE c[k] = Next1(k, c[k - 1])
    <3>1. k \in 0..n /\ k # 0
      OBVIOUS
    <3> QED BY <1>5, <3>1
  <2> QED BY <2>2, <2>3
<1> HIDE DEF Is
<1>7. c[n] = Moved(n)
  <2> DEFINE Wrong == {k \in 0..n : c[k] # Moved(k)}
  <2>1. SUFFICES ASSUME Wrong # {} PROVE FALSE
    <3>1. n \in 0..n
      OBVIOUS
    <3> QED BY <2>1, <3>1
  <2>2. PICK k \in Wrong : \A j \in Wrong : k <= j
    <3>1. Wrong \subseteq Nat
      OBVIOUS
    <3> HIDE DEF Wrong
    <3> QED BY <2>1, <3>1, Least
  <2>3. k \in 0..n /\ c[k] # Moved(k)
    BY <2>2
  <2>4. k # 0
    BY <1>2, <1>6, <2>3
  <2>5. k \in 1..n /\ k - 1 \in 0..n /\ k - 1 \notin Wrong
    BY <2>2, <2>3, <2>4
  <2>6. c[k - 1] = Moved(k - 1)
    BY <2>5
  <2> HIDE DEF Next1
  <2> QED BY <1>3, <1>6, <2>3, <2>5, <2>6
<1> QED BY <1>1, <1>7 DEF Moved

Screens(B) ==
    [initialized : BOOLEAN, dirty : BOOLEAN, x : 0..Width - 1, y : 0..Height - 1,
     back : [Cells -> B], front : [Cells -> B]]
On(f) == f.initialized

(* Where the cursor is on the screen, counted in cells. *)
CellIs(x, y, e) == \E before \in Nat : RowAt(y, before) /\ e = before + x
CursorIs(f, e) == CellIs(f.x, f.y, e)
Drawn(f, g, c, e) ==
    On(g) /\ g.x = f.x /\ g.y = f.y /\ DOMAIN g.back = Cells
    /\ \A j \in Cells : g.back[j] = IF j = e THEN c ELSE f.back[j]

LEMMA CharDrawn ==
    ASSUME NEW B, NEW f \in Screens(B), On(f), NEW c \in B,
           NEW x \in 0..Width - 1, NEW y \in 0..Height - 1
    PROVE  \E g \in Screens(B), e \in Nat :
             g = PutCharAt(f, c, x, y) /\ e \in Cells /\ CellIs(x, y, e) /\ Drawn(f, g, c, e)
<1> USE ScreenAssumption
<1>1. PICK before \in Nat, through \in Nat, all \in Nat :
        RowAt(y, before) /\ RowsEnd(y, before, through, all)
  BY Rows
<1>2. PICK e \in Nat : e = before + x
  OBVIOUS
<1>4. e \in Cells
  BY <1>1, <1>2 DEF RowsEnd
<1>5. y * Width + x = e /\ CellIs(x, y, e)
  BY <1>1, <1>2 DEF RowAt, CellIs
<1>6. PICK back \in [Cells -> B] : back = [f.back EXCEPT ![e] = c]
  BY <1>4 DEF Screens
<1>8. f.initialized /\ x < Width /\ y < Height
  BY DEF On
<1>9. PICK g : g = [f EXCEPT !.back[e] = c, !.dirty = TRUE]
  OBVIOUS
<1>10. PutCharAt(f, c, x, y) = g
  BY <1>5, <1>8, <1>9 DEF PutCharAt
<1>11. g \in Screens(B) /\ g.back = back /\ g.x = f.x /\ g.y = f.y
  BY <1>6, <1>9 DEF Screens
<1>12. g.initialized
  BY <1>8, <1>9 DEF Screens
<1>13. DOMAIN f.back = Cells
  BY DEF Screens
<1>14. Drawn(f, g, c, e)
  BY <1>6, <1>11, <1>12, <1>13 DEF Drawn, On
<1> QED BY <1>4, <1>5, <1>10, <1>11, <1>14

Scrolled(back) == [c \in Cells |-> IF c + Width \in Cells THEN back[c + Width] ELSE Background]

LEMMA ScrollIs ==
    ASSUME NEW B, NEW f \in Screens(B), On(f), Background \in B
    PROVE  LET g == Scroll(f, 1)
           IN g \in Screens(B) /\ On(g) /\ g.x = f.x /\ g.y = f.y /\ g.back = Scrolled(f.back)
<1> USE ScreenAssumption
<1>1. f.initialized /\ 1 # 0 /\ f.back \in [Cells -> B]
  BY DEF On, Screens
<1>2. PICK all \in Nat, kept \in Nat : all = Width * Height /\ kept = (Height - 1) * Width /\ kept + Width = all
  OBVIOUS
<1>3. Cells = 0..all - 1
  BY <1>2 DEF Cells
<1>6. PICK b \in [Cells -> B] : b = Scrolled(f.back)
  BY <1>1 DEF Scrolled
<1>7. Scroll(f, 1) = [f EXCEPT !.back = b, !.dirty = TRUE]
  <2>1. CASE Height = 1
    <3>1. all = Width
      BY <1>2, <2>1
    <3>2. Scroll(f, 1) = Clear(f)
      BY <1>1, <2>1 DEF Scroll
    <3>3. Memset(f.back, 0, Background, all) = b
      <4>1. DOMAIN f.back = Cells
        BY <1>1
      <4>2. Memset(f.back, 0, Background, all)
              = [c \in Cells |-> IF c \in 0..0 + all - 1 THEN Background ELSE f.back[c]]
        BY <4>1 DEF Memset
      <4>3. ASSUME NEW c \in Cells PROVE c + Width \notin Cells /\ c \in 0..0 + all - 1
        BY <1>3, <3>1
      <4> QED BY <1>6, <4>2, <4>3 DEF Scrolled
    <3> QED BY <1>2, <3>2, <3>3 DEF Clear
  <2>2. CASE Height # 1
    <3>1. ~(1 >= Height)
      BY <2>2
    <3>2. 1 * Width = Width
      OBVIOUS
    <3>3. PICK moved : moved = Memcpy(f.back, 0, 1 * Width, kept)
      OBVIOUS
    <3>4. DOMAIN f.back = Cells /\ Cells \subseteq Nat /\ f.back = [a \in Cells |-> f.back[a]]
      BY <1>1, <1>3
    <3>5. moved = [a \in Cells |-> IF a < kept THEN f.back[Width + a] ELSE f.back[a]]
      <4>1. \A a \in Cells : a < kept => Width + a \in Cells
        BY <1>2, <1>3
      <4>2. moved = Memcpy(f.back, 0, Width, kept)
        BY <3>2, <3>3
      <4>3. Width \in Nat /\ Width > 0
        OBVIOUS
      <4>4. Memcpy(f.back, 0, Width, kept)
              = [a \in DOMAIN f.back |-> IF a < kept THEN f.back[Width + a] ELSE f.back[a]]
        <5>1. IsMemory(f.back)
          BY <3>4 DEF IsMemory
        <5>3. Readable(f.back, Width, kept)
          BY <3>4, <4>1 DEF Readable
        <5>4. Width \in Nat
          BY <4>3
        <5>5. Width > 0
          BY <4>3
        <5> QED BY <5>1, <5>3, <5>4, <5>5, MemcpyDown
      <4> QED BY <3>4, <4>2, <4>4
    <3>6. Memset(moved, kept, Background, Width) = b
      <4>1. Memset(moved, kept, Background, Width)
              = [a \in Cells |-> IF a \in kept..kept + Width - 1 THEN Background ELSE moved[a]]
        BY <3>5 DEF Memset
      <4>2. ASSUME NEW a \in Cells
            PROVE  (IF a \in kept..kept + Width - 1 THEN Background ELSE moved[a])
                     = IF a + Width \in Cells THEN f.back[a + Width] ELSE Background
        <5>1. a \in Nat /\ a < all
          BY <1>3
        <5>2. CASE a < kept
          <6>1. a \notin kept..kept + Width - 1 /\ a + Width \in Cells /\ a + Width = Width + a
            BY <1>2, <1>3, <5>1, <5>2
          <6> QED BY <3>5, <5>2, <6>1
        <5>3. CASE ~(a < kept)
          <6>1. a \in kept..kept + Width - 1 /\ a + Width \notin Cells
            BY <1>2, <1>3, <5>1, <5>3
          <6> QED BY <6>1
        <5> QED BY <5>2, <5>3
      <4> QED BY <1>6, <4>1, <4>2 DEF Scrolled
    <3>7. (Height - 1) * Width = kept
      BY <1>2
    <3> QED BY <1>1, <3>1, <3>2, <3>3, <3>6, <3>7 DEF Scroll
  <2> QED BY <2>1, <2>2
<1>8. PICK g : g = [f EXCEPT !.back = b, !.dirty = TRUE]
  OBVIOUS
<1>9. g \in Screens(B) /\ g.x = f.x /\ g.y = f.y /\ g.back = b /\ g.initialized
  BY <1>1, <1>8 DEF Screens
<1> QED BY <1>6, <1>7, <1>8, <1>9 DEF On

(* What a step of the cursor to the next line or cell does: the cells move *)
(* up by d, a line at the screen's end and nothing before.                 *)
Up(d, through, all) == d = 0 \/ (d = Width /\ through = all)
MovedUp(old, new, d) == \A j \in Nat : j \in Cells /\ j + d \in Cells => new[j] = old[j + d]

LEMMA NewLineIs ==
    ASSUME NEW B, NEW f \in Screens(B), On(f), Background \in B
    PROVE  \E g \in Screens(B), before \in Nat, through \in Nat, all \in Nat, d \in Nat :
             /\ g = NewLine(f) /\ On(g) /\ g.x = 0
             /\ RowAt(f.y, before) /\ RowsEnd(f.y, before, through, all)
             /\ d <= through /\ RowAt(g.y, through - d)
             /\ Up(d, through, all) /\ MovedUp(f.back, g.back, d)
<1> USE ScreenAssumption
<1>1. f.x \in 0..Width - 1 /\ f.y \in 0..Height - 1 /\ f.initialized
  BY DEF Screens, On
<1>2. PICK before \in Nat, through \in Nat, all \in Nat :
        /\ RowAt(f.y, before) /\ RowsEnd(f.y, before, through, all) /\ RowAt(f.y + 1, through)
  BY <1>1, Rows
<1>5. 0 \in 0..Width - 1
  OBVIOUS
<1>3. CASE f.y + 1 >= Height
  <2>1. f.y + 1 = Height /\ Height - 1 = f.y /\ Height - 1 \in 0..Height - 1
    BY <1>1, <1>3
  <2>2. PICK s \in Screens(B) : /\ s = Scroll(f, 1)
                                /\ On(s) /\ s.x = f.x /\ s.y = f.y /\ s.back = Scrolled(f.back)
    BY ScrollIs
  <2>4. PICK g : g = [s EXCEPT !.x = 0, !.y = Height - 1]
    OBVIOUS
  <2>5. NewLine(f) = g
    BY <1>3, <2>2, <2>4 DEF NewLine
  <2>6. g \in Screens(B) /\ g.initialized /\ g.x = 0 /\ g.y = f.y /\ g.back = s.back
    BY <1>5, <2>1, <2>2, <2>4 DEF Screens, On
  <2>7. MovedUp(f.back, g.back, Width)
    BY <2>2, <2>6 DEF Scrolled, MovedUp
  <2>8. Up(Width, through, all) /\ Width \in Nat /\ Width <= through /\ through - Width = before
    BY <1>2, <2>1 DEF RowsEnd, Up
  <2>9. RowAt(g.y, through - Width)
    BY <1>2, <2>6, <2>8
  <2> QED BY <1>2, <2>5, <2>6, <2>7, <2>8, <2>9 DEF On
<1>4. CASE ~(f.y + 1 >= Height)
  <2>1. PICK g : g = [f EXCEPT !.x = 0, !.y = f.y + 1]
    OBVIOUS
  <2>2. NewLine(f) = g
    BY <1>4, <2>1 DEF NewLine
  <2>3. f.y + 1 \in 0..Height - 1
    BY <1>1, <1>4
  <2>7. g \in Screens(B) /\ g.initialized /\ g.x = 0 /\ g.y = f.y + 1 /\ g.back = f.back
    BY <1>1, <1>5, <2>1, <2>3 DEF Screens
  <2>4. MovedUp(f.back, g.back, 0)
    BY <2>7 DEF MovedUp
  <2>5. 0 <= through /\ through - 0 = through
    OBVIOUS
  <2>8. RowAt(g.y, through - 0)
    BY <1>2, <2>5, <2>7
  <2>6. Up(0, through, all)
    BY DEF Up
  <2> QED BY <1>2, <2>2, <2>4, <2>5, <2>6, <2>7, <2>8 DEF On
<1> QED BY <1>3, <1>4

(* A character moves the cursor on by one cell.                            *)
Glyph(old, new, c, e, d) ==
    \A j \in Nat : j \in Cells /\ j + d \in Cells => new[j] = IF j + d = e THEN c ELSE old[j + d]

LEMMA GlyphIs ==
    ASSUME NEW B, NEW f \in Screens(B), On(f), Background \in B, NEW c \in B
    PROVE  \E g \in Screens(B), e \in Nat, all \in Nat, d \in Nat :
             /\ g = PutGlyph(f, c) /\ On(g)
             /\ Cells = 0..all - 1 /\ e \in Cells /\ CursorIs(f, e)
             /\ e + 1 >= d /\ CursorIs(g, e + 1 - d)
             /\ Up(d, e + 1, all) /\ Glyph(f.back, g.back, c, e, d)
<1> USE ScreenAssumption
<1>1. f.x \in 0..Width - 1 /\ f.y \in 0..Height - 1
  BY DEF Screens
<1>2. PICK h \in Screens(B), e \in Nat :
        /\ h = PutCharAt(f, c, f.x, f.y) /\ e \in Cells /\ CellIs(f.x, f.y, e) /\ Drawn(f, h, c, e)
  BY <1>1, CharDrawn
<1>3. h.x = f.x /\ h.y = f.y /\ h.initialized
  BY <1>2 DEF Drawn, On
<1>4. PICK before \in Nat, through \in Nat, all \in Nat :
        RowAt(f.y, before) /\ RowsEnd(f.y, before, through, all)
  BY <1>1, Rows
<1>5. CursorIs(f, e)
  BY <1>2 DEF CursorIs
<1>6. e = before + f.x
  BY <1>2, <1>4 DEF CellIs, RowAt
<1>7. PutGlyph(f, c) = IncCursor(h, 1)
  BY <1>2 DEF PutGlyph
<1>8. \A j \in Cells : h.back[j] = IF j = e THEN c ELSE f.back[j]
  BY <1>2 DEF Drawn
<1>11. Cells = 0..all - 1
  BY <1>4 DEF RowsEnd
<1>9. CASE h.x + 1 >= Width
  <2>1. e + 1 = through
    <3>1. f.x + 1 = Width
      BY <1>1, <1>3, <1>9
    <3>2. through = before + Width
      BY <1>4 DEF RowsEnd
    <3>3. f.x \in Nat
      BY <1>1
    <3> QED BY <1>6, <3>1, <3>2, <3>3
  <2>4. PICK g \in Screens(B), b2 \in Nat, t2 \in Nat, a2 \in Nat, d \in Nat :
             /\ g = NewLine(h) /\ On(g) /\ g.x = 0
             /\ RowAt(h.y, b2) /\ RowsEnd(h.y, b2, t2, a2)
             /\ d <= t2 /\ RowAt(g.y, t2 - d)
             /\ Up(d, t2, a2) /\ MovedUp(h.back, g.back, d)
    BY <1>2, NewLineIs DEF Drawn
  <2>3. PutGlyph(f, c) = g
    BY <1>7, <1>9, <2>4 DEF IncCursor
  <2>10. b2 = before
    BY <1>3, <1>4, <2>4 DEF RowAt
  <2>5. t2 = through
    BY <1>4, <2>4, <2>10 DEF RowsEnd
  <2>11. a2 = all
    BY <1>11, <2>4 DEF RowsEnd
  <2>6. PICK low \in Nat : low = e + 1 - d /\ low = t2 - d /\ low + g.x = low
    BY <2>1, <2>4, <2>5
  <2>7. CursorIs(g, e + 1 - d) /\ e + 1 >= d
    BY <2>1, <2>4, <2>5, <2>6 DEF CursorIs, CellIs
  <2>8. Up(d, e + 1, all)
    BY <2>1, <2>4, <2>5, <2>11
  <2>9. Glyph(f.back, g.back, c, e, d)
    BY <1>8, <2>4 DEF Glyph, MovedUp
  <2> QED BY <1>2, <1>5, <1>11, <2>3, <2>4, <2>7, <2>8, <2>9
<1>10. CASE ~(h.x + 1 >= Width)
  <2>1. PICK g : g = [h EXCEPT !.x = h.x + 1]
    OBVIOUS
  <2>2. PutGlyph(f, c) = g
    BY <1>7, <1>10, <2>1 DEF IncCursor
  <2>3. h.x + 1 \in 0..Width - 1
    BY <1>1, <1>3, <1>10
  <2>4. g \in Screens(B) /\ g.initialized /\ g.x = f.x + 1 /\ g.y = f.y /\ g.back = h.back
    BY <1>3, <2>1, <2>3 DEF Screens
  <2>8. e + 1 - 0 = before + g.x
    BY <1>1, <1>6, <2>4
  <2>5. CursorIs(g, e + 1 - 0)
    BY <1>4, <2>4, <2>8 DEF CursorIs, CellIs
  <2>6. Up(0, e + 1, all) /\ e + 1 >= 0
    BY DEF Up
  <2>7. Glyph(f.back, g.back, c, e, 0)
    BY <1>8, <2>4 DEF Glyph
  <2> QED BY <1>2, <1>5, <1>11, <2>2, <2>4, <2>5, <2>6, <2>7 DEF On
<1> QED BY <1>9, <1>10

LEMMA BackspaceIs ==
    ASSUME NEW B, NEW f \in Screens(B), On(f), Background \in B
    PROVE  \E g \in Screens(B), e \in Nat :
             /\ g = Backspace(f) /\ On(g) /\ CursorIs(f, e) /\ e \in Cells
             /\ e > 0 => /\ CursorIs(g, e - 1)
                         /\ \A j \in Nat : j \in Cells /\ j < e - 1 => g.back[j] = f.back[j]
<1> USE ScreenAssumption
<1>1. f.x \in 0..Width - 1 /\ f.y \in 0..Height - 1
  BY DEF Screens
<1>13. PICK blank \in B : blank = " "
  BY DEF Background
<1>2. PICK h \in Screens(B), e \in Nat :
        /\ h = PutCharAt(f, blank, f.x, f.y) /\ e \in Cells /\ CellIs(f.x, f.y, e) /\ Drawn(f, h, blank, e)
  BY <1>1, CharDrawn
<1>3. h.x = f.x /\ h.y = f.y /\ h.initialized
  BY <1>2 DEF Drawn, On
<1>4. PICK before \in Nat, through \in Nat, all \in Nat :
        /\ RowAt(f.y, before) /\ RowsEnd(f.y, before, through, all)
        /\ RowAt(f.y - 1, before - Width)
  BY <1>1, Rows
<1>5. e = before + f.x
  BY <1>2, <1>4 DEF CellIs, RowAt
<1>6. PICK k \in Screens(B) : /\ k = DecCursor(h, 1) /\ On(k) /\ k.back = h.back
                              /\ e > 0 => CursorIs(k, e - 1)
  <2>1. CASE h.x >= 1
    <3>1. PICK k : k = [h EXCEPT !.x = h.x - 1]
      OBVIOUS
    <3>2. h.x - 1 \in 0..Width - 1
      BY <1>1, <1>3, <2>1
    <3>3. k \in Screens(B) /\ k.initialized /\ k.back = h.back /\ k.x = f.x - 1 /\ k.y = f.y
      BY <1>3, <3>1, <3>2 DEF Screens
    <3>5. e - 1 = before + k.x
      BY <1>1, <1>5, <3>3
    <3>4. CursorIs(k, e - 1)
      BY <1>4, <3>3, <3>5 DEF CursorIs, CellIs
    <3> QED BY <2>1, <3>1, <3>3, <3>4 DEF DecCursor, On
  <2>2. CASE ~(h.x >= 1)
    <3>1. PICK y : y = (IF h.y > 0 THEN h.y - 1 ELSE 0)
      OBVIOUS
    <3>6. PICK k : k = [h EXCEPT !.x = Width - 1, !.y = y]
      OBVIOUS
    <3>2. y \in 0..Height - 1 /\ Width - 1 \in 0..Width - 1 /\ f.x = 0
      BY <1>1, <1>3, <2>2, <3>1
    <3>3. k \in Screens(B) /\ k.initialized /\ k.back = h.back /\ k.x = Width - 1 /\ k.y = y
      BY <1>3, <3>2, <3>6 DEF Screens
    <3>4. ASSUME e > 0 PROVE CursorIs(k, e - 1)
      <4>1. before > 0 /\ f.y > 0 /\ before >= Width
        BY <1>1, <1>4, <1>5, <3>2, <3>4 DEF RowsEnd
      <4>2. y = f.y - 1
        BY <1>3, <3>1, <4>1
      <4>3. PICK low \in Nat : low = before - Width
        BY <4>1
      <4>4. e - 1 = low + k.x
        BY <1>5, <3>2, <3>3, <4>3
      <4>5. RowAt(k.y, low)
        BY <1>4, <3>3, <4>2, <4>3
      <4> QED BY <4>4, <4>5 DEF CursorIs, CellIs
    <3>5. DecCursor(h, 1) = k
      BY <2>2, <3>1, <3>6 DEF DecCursor
    <3> QED BY <3>3, <3>4, <3>5 DEF On
  <2> QED BY <2>1, <2>2
<1>7. k.x \in 0..Width - 1 /\ k.y \in 0..Height - 1
  BY DEF Screens
<1>8. PICK g \in Screens(B), u \in Nat :
        /\ g = PutCharAt(k, blank, k.x, k.y) /\ u \in Cells /\ CellIs(k.x, k.y, u) /\ Drawn(k, g, blank, u)
  <2>1. On(k)
    BY <1>6
  <2> QED BY <1>7, <2>1, CharDrawn
<1>10. Backspace(f) = g
  BY <1>2, <1>6, <1>8, <1>13 DEF Backspace
<1>12. CursorIs(f, e) /\ On(g)
  BY <1>2, <1>8 DEF CursorIs, Drawn
<1>11. ASSUME e > 0
       PROVE  /\ CursorIs(g, e - 1)
              /\ \A j \in Nat : j \in Cells /\ j < e - 1 => g.back[j] = f.back[j]
  <2>1. CursorIs(k, e - 1)
    BY <1>6, <1>11
  <2>4. u = e - 1
    BY <1>8, <2>1 DEF CursorIs, CellIs, RowAt
  <2>5. CursorIs(g, e - 1)
    BY <1>8, <2>1 DEF CursorIs, Drawn
  <2>3. ASSUME NEW j \in Nat, j \in Cells, j < e - 1 PROVE g.back[j] = f.back[j]
    <3>1. j # u /\ j # e
      BY <2>3, <2>4
    <3>2. g.back[j] = k.back[j]
      BY <1>8, <2>3, <3>1 DEF Drawn
    <3>3. h.back[j] = f.back[j]
      BY <1>2, <2>3, <3>1 DEF Drawn
    <3> QED BY <1>6, <3>2, <3>3
  <2> QED BY <2>3, <2>5
<1> QED BY <1>2, <1>10, <1>11, <1>12

----------------------------------------------------------------------------
(* What a recursion over 0..n computes, step by step. *)

Iterates(g, n, v, step) == g[0] = v /\ \A k \in 1..n : g[k] = step[k][g[k - 1]]

LEMMA Iterated ==
    ASSUME NEW n \in Nat, NEW V, NEW v \in V, NEW step \in [1..n -> [V -> V]]
    PROVE  \E g \in [0..n -> V] : Iterates(g, n, v, step)
<1> DEFINE Has(m) == \E g \in [0..m -> V] : Iterates(g, m, v, step)
           Wrong == {m \in 0..n : ~Has(m)}
<1>1. SUFFICES ASSUME Wrong # {} PROVE FALSE
  <2>1. n \in 0..n
    OBVIOUS
  <2> QED BY <1>1, <2>1
<1>2. PICK m \in Wrong : \A k \in Wrong : m <= k
  <2>1. Wrong \subseteq Nat
    OBVIOUS
  <2> HIDE DEF Wrong
  <2> QED BY <1>1, <2>1, Least
<1>3. m \in 0..n /\ ~Has(m)
  BY <1>2
<1>4. m # 0
  <2>1. PICK g : g = [k \in 0..0 |-> v]
    OBVIOUS
  <2>2. g \in [0..0 -> V] /\ g[0] = v
    BY <2>1
  <2>3. Iterates(g, 0, v, step)
    BY <2>2 DEF Iterates
  <2>4. Has(0)
    BY <2>2, <2>3
  <2> HIDE DEF Has
  <2> QED BY <1>3, <2>4
<1>5. m \in 1..n /\ m - 1 \in 0..n /\ m - 1 \notin Wrong
  BY <1>2, <1>3, <1>4
<1>6. PICK g \in [0..m - 1 -> V] : Iterates(g, m - 1, v, step)
  BY <1>5
<1>7. PICK u \in V : u = step[m][g[m - 1]]
  <2>1. m - 1 \in 0..m - 1
    BY <1>5
  <2> QED BY <1>5, <2>1
<1>8. PICK h \in [0..m -> V] : h = [k \in 0..m |-> IF k = m THEN u ELSE g[k]]
  <2>1. \A k \in 0..m : k # m => k \in 0..m - 1
    BY <1>5
  <2> QED BY <2>1
<1>9. Iterates(h, m, v, step)
  <2>1. h[0] = v
    <3>1. 0 \in 0..m /\ 0 # m
      BY <1>5
    <3> QED BY <1>6, <1>8, <3>1 DEF Iterates
  <2>2. ASSUME NEW k \in 1..m PROVE h[k] = step[k][h[k - 1]]
    <3>1. k \in 0..m /\ k - 1 \in 0..m /\ k - 1 # m
      BY <1>5
    <3>2. h[k - 1] = g[k - 1]
      BY <1>8, <3>1
    <3>3. CASE k = m
      BY <1>7, <1>8, <3>1, <3>2, <3>3
    <3>4. CASE k # m
      <4>1. k \in 1..m - 1
        BY <1>5, <3>4
      <4> QED BY <1>6, <1>8, <3>1, <3>2, <3>4, <4>1 DEF Iterates
    <3> QED BY <3>3, <3>4
  <2> QED BY <2>1, <2>2 DEF Iterates
<1> QED BY <1>3, <1>9

Copies(c, g, n) == c[0] = g[0] /\ \A k \in 1..n : c[k - 1] = g[k - 1] => c[k] = g[k]

LEMMA Copied ==
    ASSUME NEW n \in Nat, NEW c, NEW g, Copies(c, g, n)
    PROVE  c[n] = g[n]
<1> DEFINE Wrong == {k \in 0..n : c[k] # g[k]}
<1>1. SUFFICES ASSUME Wrong # {} PROVE FALSE
  <2>1. n \in 0..n
    OBVIOUS
  <2> QED BY <1>1, <2>1
<1>2. PICK m \in Wrong : \A k \in Wrong : m <= k
  <2>1. Wrong \subseteq Nat
    OBVIOUS
  <2> HIDE DEF Wrong
  <2> QED BY <1>1, <2>1, Least
<1>3. m \in 0..n /\ c[m] # g[m]
  BY <1>2
<1>4. m # 0
  BY <1>3 DEF Copies
<1>5. m \in 1..n /\ m - 1 \in 0..n /\ m - 1 \notin Wrong
  BY <1>2, <1>3, <1>4
<1>6. c[m - 1] = g[m - 1]
  BY <1>5
<1> QED BY <1>3, <1>5, <1>6 DEF Copies

----------------------------------------------------------------------------
(* Characters on the screen. *)

LEMMA IncCursorOk ==
    ASSUME NEW B, NEW f \in Screens(B), On(f), Background \in B, NEW n \in Nat
    PROVE  IncCursor(f, n) \in Screens(B) /\ On(IncCursor(f, n))
<1>1. CASE f.x + n >= Width
  <2>1. PICK g \in Screens(B) : g = NewLine(f) /\ On(g)
    BY NewLineIs
  <2> QED BY <1>1, <2>1 DEF IncCursor
<1>2. CASE ~(f.x + n >= Width)
  <2>1. f.x + n \in 0..Width - 1
    BY <1>2, ScreenAssumption DEF Screens
  <2>2. PICK g : g = [f EXCEPT !.x = f.x + n]
    OBVIOUS
  <2>3. g \in Screens(B) /\ g.initialized
    BY <2>1, <2>2 DEF Screens, On
  <2> QED BY <1>2, <2>2, <2>3 DEF IncCursor, On
<1> QED BY <1>1, <1>2

LEMMA PutCharOk ==
    ASSUME NEW B, NEW f \in Screens(B), On(f), Background \in B, NEW c \in B
    PROVE  /\ PutChar(f, c) \in Screens(B) /\ On(PutChar(f, c))
           /\ c = "\n" => PutChar(f, c).x = 0
<1>1. f.initialized
  BY DEF On
<1>6. "\t" # "\n" /\ "bs" # "\n" /\ "bs" # "\t"
  OBVIOUS
<1>2. CASE c = "\t"
  <2>1. IncCursor(f, TabSize) \in Screens(B) /\ On(IncCursor(f, TabSize))
    BY IncCursorOk DEF TabSize
  <2>2. PICK h \in Screens(B) : h = IncCursor(f, TabSize) /\ On(h)
    BY <2>1
  <2>3. PICK blank \in B : blank = " "
    BY DEF Background
  <2>4. PICK g \in Screens(B) : g = PutGlyph(h, blank) /\ On(g)
    BY <2>2, GlyphIs
  <2>5. PutChar(f, c) = g
    BY <1>1, <1>2, <1>6, <2>2, <2>3, <2>4 DEF PutChar
  <2> QED BY <1>2, <1>6, <2>4, <2>5
<1>3. CASE c = "\n"
  <2>1. PICK g \in Screens(B) : g = NewLine(f) /\ On(g) /\ g.x = 0
    BY NewLineIs
  <2>2. PutChar(f, c) = g
    BY <1>1, <1>3, <1>6, <2>1 DEF PutChar
  <2> QED BY <2>1, <2>2
<1>4. CASE c = "bs"
  <2>1. PICK g \in Screens(B) : g = Backspace(f) /\ On(g)
    BY BackspaceIs
  <2>2. PutChar(f, c) = g
    BY <1>1, <1>4, <1>6, <2>1 DEF PutChar
  <2> QED BY <1>4, <1>6, <2>1, <2>2
<1>5. CASE c \notin {"\t", "\n", "bs"}
  <2>1. PICK g \in Screens(B) : g = PutGlyph(f, c) /\ On(g)
    BY GlyphIs
  <2>2. PutChar(f, c) = g
    BY <1>1, <1>5, <2>1 DEF PutChar
  <2> QED BY <1>5, <2>1, <2>2
<1> QED BY <1>2, <1>3, <1>4, <1>5

(* A text that ends a line leaves the cursor at the next one's beginning.  *)
LEMMA PutTextOk ==
    ASSUME NEW B, NEW f \in Screens(B), On(f), Background \in B, NEW text \in Seq(B), Len(text) > 0
    PROVE  /\ PutText(f, text) \in Screens(B) /\ On(PutText(f, text))
           /\ text[Len(text)] = "\n" => PutText(f, text).x = 0
<1> DEFINE V == {h \in Screens(B) : On(h)}
<1>1. PICK n \in Nat : n = Len(text) /\ n > 0
  OBVIOUS
<1>2. \A k \in 1..n : text[k] \in B
  BY <1>1
<1>3. \A k \in 1..n : \A h \in V : PutChar(h, text[k]) \in V
  BY <1>2, PutCharOk
<1>4. PICK step \in [1..n -> [V -> V]] : step = [k \in 1..n |-> [h \in V |-> PutChar(h, text[k])]]
  <2> HIDE DEF V
  <2> QED BY <1>3
<1>5. PICK g \in [0..n -> V] : Iterates(g, n, f, step)
  <2>1. f \in V
    OBVIOUS
  <2> HIDE DEF V
  <2> QED BY <2>1, Iterated
<1>6. g[0] = f /\ \A k \in 1..n : k \in 0..n /\ k - 1 \in 0..n /\ g[k] = PutChar(g[k - 1], text[k])
  <2>1. ASSUME NEW k \in 1..n PROVE k \in 0..n /\ k - 1 \in 0..n /\ g[k] = PutChar(g[k - 1], text[k])
    <3>1. k \in 0..n /\ k - 1 \in 0..n
      OBVIOUS
    <3>2. g[k - 1] \in V
      BY <3>1
    <3>3. step[k][g[k - 1]] = PutChar(g[k - 1], text[k])
      <4> HIDE DEF V
      <4> QED BY <1>4, <3>2
    <3> QED BY <1>5, <3>1, <3>3 DEF Iterates
  <2> QED BY <1>5, <2>1 DEF Iterates
<1> DEFINE Is(a) == a = [k \in 0..n |-> IF k = 0 THEN f ELSE PutChar(a[k - 1], text[k])]
           c == CHOOSE a : Is(a)
<1>7. PutText(f, text) = c[n]
  BY <1>1 DEF PutText
<1>8. Is(g)
  <2>1. \A k \in 0..n : g[k] = IF k = 0 THEN f ELSE PutChar(g[k - 1], text[k])
    <3>1. \A k \in 0..n : k = 0 \/ k \in 1..n
      OBVIOUS
    <3> QED BY <1>6, <3>1
  <2>2. g = [k \in 0..n |-> g[k]]
    OBVIOUS
  <2> QED BY <2>1, <2>2
<1>9. Is(c)
  BY <1>8
<1> HIDE DEF c
<1>10. Copies(c, g, n)
  <2>1. 0 \in 0..n
    OBVIOUS
  <2>2. c[0] = f
    BY <1>9, <2>1
  <2>3. ASSUME NEW k \in 1..n, c[k - 1] = g[k - 1] PROVE c[k] = g[k]
    <3>1. k \in 0..n /\ k # 0
      OBVIOUS
    <3>2. c[k] = PutChar(c[k - 1], text[k])
      BY <1>9, <3>1
    <3> QED BY <1>6, <2>3, <3>2
  <2> QED BY <1>6, <2>2, <2>3 DEF Copies
<1>11. c[n] = g[n]
  BY <1>10, Copied
<1>12. n \in 1..n /\ n \in 0..n /\ n - 1 \in 0..n
  BY <1>1
<1>13. PICK before \in Screens(B) : before = g[n - 1] /\ On(before)
  <2>1. g[n - 1] \in V
    BY <1>12
  <2> QED BY <2>1
<1>14. PutText(f, text) = PutChar(before, text[n])
  BY <1>6, <1>7, <1>11, <1>12, <1>13
<1>15. text[n] \in B
  BY <1>2, <1>12
<1> QED BY <1>1, <1>13, <1>14, <1>15, PutCharOk

----------------------------------------------------------------------------
(* What printf prints. *)

Pieces(text, given, S) == \A k \in 1..Len(text) : Piece(text, given, k) \in Seq(S)
Joins(g, text, given) ==
    g[0] = <<>> /\ \A k \in 1..Len(text) : g[k] = g[k - 1] \o Piece(text, given, k)

LEMMA FormatIs ==
    ASSUME NEW S, NEW T, NEW text \in Seq(T), NEW given, Pieces(text, given, S)
    PROVE  \E g \in [0..Len(text) -> Seq(S)] :
             Joins(g, text, given) /\ Format(text, given) = g[Len(text)]
<1> DEFINE E(k, s) == s \o Piece(text, given, k)
           V == Seq(S)
<1>1. PICK n \in Nat : n = Len(text)
  OBVIOUS
<1>3. \A k \in 1..n : \A h \in V : E(k, h) \in V
  BY <1>1 DEF Pieces
<1>4. PICK step \in [1..n -> [V -> V]] : step = [k \in 1..n |-> [h \in V |-> E(k, h)]]
  <2> HIDE DEF V, E
  <2> QED BY <1>3
<1>5. PICK g \in [0..n -> V] : Iterates(g, n, <<>>, step)
  <2>1. <<>> \in V
    OBVIOUS
  <2> HIDE DEF V, E
  <2> QED BY <2>1, Iterated
<1>6. g[0] = <<>> /\ \A k \in 1..n : k \in 0..n /\ k - 1 \in 0..n /\ g[k] = E(k, g[k - 1])
  <2>1. ASSUME NEW k \in 1..n PROVE k \in 0..n /\ k - 1 \in 0..n /\ g[k] = E(k, g[k - 1])
    <3>1. k \in 0..n /\ k - 1 \in 0..n
      OBVIOUS
    <3>2. g[k - 1] \in V
      BY <3>1
    <3>3. step[k][g[k - 1]] = E(k, g[k - 1])
      <4> HIDE DEF V, E
      <4> QED BY <1>4, <3>2
    <3> QED BY <1>5, <3>1, <3>3 DEF Iterates
  <2> QED BY <1>5, <2>1 DEF Iterates
<1> DEFINE Is(a) == a = [k \in 0..n |-> IF k = 0 THEN <<>> ELSE a[k - 1] \o Piece(text, given, k)]
           c == CHOOSE a : Is(a)
<1>7. Format(text, given) = c[n]
  BY <1>1 DEF Format
<1>8. Is(g)
  <2>1. \A k \in 0..n : g[k] = IF k = 0 THEN <<>> ELSE g[k - 1] \o Piece(text, given, k)
    <3>1. \A k \in 0..n : k = 0 \/ k \in 1..n
      OBVIOUS
    <3> QED BY <1>6, <3>1
  <2>2. g = [k \in 0..n |-> g[k]]
    OBVIOUS
  <2> HIDE DEF V
  <2> QED BY <2>1, <2>2
<1>9. Is(c)
  BY <1>8
<1> HIDE DEF c
<1>10. Copies(c, g, n)
  <2>1. 0 \in 0..n
    OBVIOUS
  <2>2. c[0] = <<>>
    BY <1>9, <2>1
  <2>3. ASSUME NEW k \in 1..n, c[k - 1] = g[k - 1] PROVE c[k] = g[k]
    <3>1. k \in 0..n /\ k # 0
      OBVIOUS
    <3>2. c[k] = E(k, c[k - 1])
      BY <1>9, <3>1
    <3> QED BY <1>6, <2>3, <3>2
  <2> QED BY <1>6, <2>2, <2>3 DEF Copies
<1>11. c[n] = g[n]
  BY <1>10, Copied
<1>12. Joins(g, text, given)
  BY <1>1, <1>6 DEF Joins
<1> QED BY <1>1, <1>7, <1>11, <1>12

(* What is printed ends a line, if it is a text. *)
EndsLine(s) == s # <<>> => s[Len(s)] = "\n"
PrintsLine(s) == \E S : s \in Seq(S) /\ EndsLine(s)

NoLetter == "\n" \notin Conversions /\ "\n" \notin Colors
LEMMA NewLineIsNoLetter == NoLetter
  BY DEF NoLetter, Conversions, Colors

LEMMA FormatEnds ==
    ASSUME NEW S, NEW T, NEW text \in Seq(T), NEW given, Pieces(text, given, S),
           Len(text) > 0, text[Len(text)] = "\n"
    PROVE  /\ Format(text, given) \in Seq(S) /\ Len(Format(text, given)) > 0
           /\ Format(text, given)[Len(Format(text, given))] = "\n"
<1>1. PICK n \in Nat : n = Len(text) /\ n > 0
  OBVIOUS
<1>2. PICK g \in [0..n -> Seq(S)] : Joins(g, text, given) /\ Format(text, given) = g[n]
  BY <1>1, FormatIs
<1>3. n \in 1..n /\ n \in 0..n /\ n - 1 \in 0..n
  BY <1>1
<1>4. Piece(text, given, n) = <<"\n">>
  <2>1. ~IsConversion(text, n) /\ ~IsColor(text, n)
    BY <1>1 DEF IsConversion, IsColor, Directive
  <2>2. n - 1 + 1 = n
    OBVIOUS
  <2>3. text[n - 1 + 1] = "\n"
    BY <1>1, <2>2
  <2>4. ~IsConversion(text, n - 1) /\ ~IsColor(text, n - 1)
    BY <2>3, NewLineIsNoLetter DEF IsConversion, IsColor, Directive, NoLetter
  <2> QED BY <1>1, <2>1, <2>4 DEF Piece
<1>5. PICK before \in Seq(S) : before = g[n - 1]
  BY <1>3
<1>6. g[n] = before \o <<"\n">>
  BY <1>1, <1>2, <1>3, <1>4, <1>5 DEF Joins
<1>7. <<"\n">> \in Seq(S)
  BY <1>1, <1>3, <1>4 DEF Pieces
<1>10. PICK nl : nl = "\n" /\ <<nl>> \in Seq(S)
  BY <1>7
<1>8. PICK end \in Seq(S) : end = <<nl>> /\ Len(end) = 1 /\ end[1] = nl
  BY <1>10
<1>11. PICK m \in Nat : m = Len(before)
  OBVIOUS
<1>12. PICK all \in Seq(S) : all = before \o end
  <2>1. before \o end \in Seq(S)
    OBVIOUS
  <2> QED BY <2>1
<1>9. Len(all) = m + 1 /\ all[m + 1] = nl /\ m + 1 > 0
  <2>1. Len(all) = m + 1
    BY <1>8, <1>11, <1>12
  <2>2. all[m + 1] = end[m + 1 - m]
    BY <1>8, <1>11, <1>12, <2>1
  <2>3. m + 1 - m = 1
    OBVIOUS
  <2> QED BY <1>8, <2>1, <2>2, <2>3
<1>13. Format(text, given) = all
  BY <1>2, <1>6, <1>8, <1>10, <1>12
<1> QED BY <1>9, <1>10, <1>12, <1>13

OneArgument(text, p) == \A j \in 1..Len(text) : text[j] = "%" => j = p

LEMMA PiecesOfOne ==
    ASSUME NEW S, NEW text \in Seq(S), NEW p, OneArgument(text, p), NEW t \in Seq(S)
    PROVE  Pieces(text, <<t>>, S)
<1>1. SUFFICES ASSUME NEW k \in 1..Len(text) PROVE Piece(text, <<t>>, k) \in Seq(S)
  BY DEF Pieces
<1>2. CASE IsConversion(text, k)
  <2>1. text[k] = "%" /\ k = p
    BY <1>2 DEF IsConversion, Directive, OneArgument
  <2>2. {j \in 1..k : IsConversion(text, j)} = {k}
    <3>1. ASSUME NEW j \in 1..k, IsConversion(text, j) PROVE j = k
      <4>1. j \in 1..Len(text) /\ text[j] = "%"
        BY <3>1 DEF IsConversion, Directive
      <4> QED BY <2>1, <4>1 DEF OneArgument
    <3>2. k \in 1..k
      OBVIOUS
    <3> QED BY <1>2, <3>1, <3>2
  <2>3. Cardinality({j \in 1..k : IsConversion(text, j)}) = 1
    BY <2>2, FS_Singleton
  <2> QED BY <1>2, <2>3 DEF Piece
<1>3. CASE ~IsConversion(text, k)
  <2>1. <<text[k]>> \in Seq(S) /\ <<>> \in Seq(S)
    OBVIOUS
  <2> QED BY <1>3, <2>1 DEF Piece
<1> QED BY <1>2, <1>3

LEMMA PiecesOfNone ==
    ASSUME NEW S, NEW text \in Seq(S), NEW given, OneArgument(text, 0)
    PROVE  Pieces(text, given, S)
<1>1. SUFFICES ASSUME NEW k \in 1..Len(text) PROVE Piece(text, given, k) \in Seq(S)
  BY DEF Pieces
<1>2. ~IsConversion(text, k)
  BY DEF IsConversion, Directive, OneArgument
<1>3. <<text[k]>> \in Seq(S) /\ <<>> \in Seq(S)
  OBVIOUS
<1> QED BY <1>2, <1>3 DEF Piece

LEMMA PrintsNone ==
    ASSUME NEW S, NEW text \in Seq(S), NEW given, OneArgument(text, 0),
           Len(text) > 0, text[Len(text)] = "\n"
    PROVE  PrintsLine(Format(text, given))
<1>1. Pieces(text, given, S)
  BY PiecesOfNone
<1>2. PICK s \in Seq(S) : s = Format(text, given) /\ s[Len(s)] = "\n"
  BY <1>1, FormatEnds
<1> QED BY <1>2 DEF PrintsLine, EndsLine

LEMMA PrintsOne ==
    ASSUME NEW S, NEW text \in Seq(S), NEW p, OneArgument(text, p), NEW t \in Seq(S),
           Len(text) > 0, text[Len(text)] = "\n"
    PROVE  PrintsLine(Format(text, <<t>>))
<1>1. Pieces(text, <<t>>, S)
  BY PiecesOfOne
<1>2. PICK s \in Seq(S) : s = Format(text, <<t>>) /\ s[Len(s)] = "\n"
  BY <1>1, FormatEnds
<1> QED BY <1>2 DEF PrintsLine, EndsLine

LEMMA PromptPrinted == Format(PromptText, <<>>) = <<PromptChar>>
<1> DEFINE S == {"&", "f", ">"}
<1>11. PICK a \in S, b \in S, d \in S : a = "&" /\ b = "f" /\ d = ">"
  OBVIOUS
<1>12. PICK text \in Seq(S) : text = <<a, b, d>> /\ Len(text) = 3 /\ text[1] = a /\ text[2] = b /\ text[3] = d
  <2> HIDE DEF S
  <2>1. <<a, b, d>> \in Seq(S)
    OBVIOUS
  <2>2. Len(<<a, b, d>>) = 3 /\ <<a, b, d>>[1] = a /\ <<a, b, d>>[2] = b /\ <<a, b, d>>[3] = d
    OBVIOUS
  <2> QED BY <2>1, <2>2
<1>1. text = PromptText /\ Len(text) = 3 /\ text[1] = "&" /\ text[2] = "f" /\ text[3] = ">"
  BY <1>11, <1>12 DEF PromptText, PromptChar
<1>2. OneArgument(text, 0)
  <2>1. \A j \in 1..3 : text[j] \in S
    BY <1>1
  <2>2. "%" \notin S
    OBVIOUS
  <2> QED BY <1>1, <2>1, <2>2 DEF OneArgument
<1>3. Pieces(text, <<>>, S)
  BY <1>2, PiecesOfNone
<1>4. PICK g \in [0..3 -> Seq(S)] : Joins(g, text, <<>>) /\ Format(text, <<>>) = g[3]
  BY <1>1, <1>3, FormatIs
<1>5. IsColor(text, 1) /\ ~IsColor(text, 2) /\ ~IsColor(text, 3)
  BY <1>1 DEF IsColor, Directive, Colors
<1>6. ~IsConversion(text, 0) /\ ~IsConversion(text, 1) /\ ~IsConversion(text, 2) /\ ~IsConversion(text, 3)
  BY <1>1 DEF IsConversion, Directive
<1>7. Piece(text, <<>>, 1) = <<>> /\ Piece(text, <<>>, 2) = <<>> /\ Piece(text, <<>>, 3) = <<">">>
  <2>1. 2 - 1 = 1 /\ 3 - 1 = 2
    OBVIOUS
  <2> QED BY <1>1, <1>5, <1>6, <2>1 DEF Piece
<1>8. g[1] = <<>>
  <2>1. 1 \in 1..Len(text) /\ 1 - 1 = 0
    BY <1>1
  <2>2. g[1] = <<>> \o <<>>
    BY <1>4, <1>7, <2>1 DEF Joins
  <2> QED BY <2>2
<1>9. g[2] = <<>>
  <2>1. 2 \in 1..Len(text) /\ 2 - 1 = 1
    BY <1>1
  <2>2. g[2] = <<>> \o <<>>
    BY <1>4, <1>7, <1>8, <2>1 DEF Joins
  <2> QED BY <2>2
<1>10. g[3] = <<">">>
  <2>1. 3 \in 1..Len(text) /\ 3 - 1 = 2
    BY <1>1
  <2>2. g[3] = <<>> \o <<">">>
    BY <1>4, <1>7, <1>9, <2>1 DEF Joins
  <2> QED BY <2>2
<1> QED BY <1>1, <1>4, <1>10 DEF PromptChar

----------------------------------------------------------------------------
(* What keeps the screen a screen. *)

Ok(f) == \E B : f \in Screens(B) /\ On(f)

LEMMA Widened ==
    ASSUME NEW f, Ok(f), NEW C
    PROVE  \E B : f \in Screens(B) /\ On(f) /\ Background \in B /\ C \subseteq B
<1>1. PICK A : f \in Screens(A) /\ On(f)
  BY DEF Ok
<1>2. PICK B : B = A \cup C \cup {Background}
  OBVIOUS
<1>3. [Cells -> A] \subseteq [Cells -> B]
  BY <1>2
<1>4. f \in Screens(B)
  <2> HIDE DEF Cells
  <2> QED BY <1>1, <1>3 DEF Screens
<1> QED BY <1>1, <1>2, <1>4

LEMMA CharKeeps ==
    ASSUME NEW f, Ok(f), NEW c
    PROVE  Ok(PutChar(f, c)) /\ (c = "\n" => PutChar(f, c).x = 0)
<1>0. PICK C : C = {c}
  OBVIOUS
<1>1. PICK B : f \in Screens(B) /\ On(f) /\ Background \in B /\ C \subseteq B
  BY Widened
<1>2. c \in B
  BY <1>0, <1>1
<1>3. PutChar(f, c) \in Screens(B) /\ On(PutChar(f, c)) /\ (c = "\n" => PutChar(f, c).x = 0)
  BY <1>1, <1>2, PutCharOk
<1> QED BY <1>3 DEF Ok

LEMMA LogKeeps ==
    ASSUME NEW f, Ok(f), NEW c, c \notin {"%", "&"}
    PROVE  Ok(Log(f, <<c>>, <<>>)) /\ Log(f, <<c>>, <<>>).x = 0
<1> DEFINE S == {"&", "7", "\n", c}
<1>1. PICK a \in S, b \in S, e \in S, d \in S : a = "&" /\ b = "7" /\ d = "\n" /\ e = c
  OBVIOUS
<1>2. PICK text \in Seq(S) : text = <<a, b>> \o <<e>> \o <<d>>
  <2> HIDE DEF S
  <2>1. <<a, b>> \in Seq(S) /\ <<e>> \in Seq(S) /\ <<d>> \in Seq(S)
    OBVIOUS
  <2>2. <<a, b>> \o <<e>> \o <<d>> \in Seq(S)
    BY <2>1
  <2> QED BY <2>2
<1>3. Len(text) = 4 /\ text[4] = d
  BY <1>2
<1>4. OneArgument(text, 0)
  <2>1. \A j \in 1..Len(text) : text[j] \in S
    OBVIOUS
  <2>2. "%" \notin S
    OBVIOUS
  <2> QED BY <2>1, <2>2 DEF OneArgument
<1>5. Pieces(text, <<>>, S)
  BY <1>4, PiecesOfNone
<1>6. PICK B : f \in Screens(B) /\ On(f) /\ Background \in B /\ S \subseteq B
  <2> HIDE DEF S
  <2> QED BY Widened
<1>7. PICK s \in Seq(S) : s = Format(text, <<>>) /\ Len(s) > 0 /\ s[Len(s)] = "\n"
  <2>1. Len(text) > 0 /\ text[Len(text)] = "\n"
    BY <1>1, <1>3
  <2> QED BY <1>5, <2>1, FormatEnds
<1>8. s \in Seq(B)
  <2> HIDE DEF S
  <2> QED BY <1>6
<1>9. PutText(f, s) \in Screens(B) /\ On(PutText(f, s)) /\ PutText(f, s).x = 0
  <2> HIDE DEF S
  <2> QED BY <1>6, <1>7, <1>8, PutTextOk
<1>10. Log(f, <<c>>, <<>>) = PutText(f, s)
  <2>1. text = <<"&", "7">> \o <<c>> \o <<"\n">>
    BY <1>1, <1>2
  <2> QED BY <1>7, <2>1 DEF Log
<1> QED BY <1>9, <1>10 DEF Ok

LEMMA SwapKeeps ==
    ASSUME NEW f, Ok(f)
    PROVE  Ok(Swap(f)) /\ Swap(f).x = f.x /\ Swap(f).y = f.y /\ Swap(f).back = f.back
<1>1. PICK B : f \in Screens(B) /\ On(f)
  BY DEF Ok
<1>2. PICK g : g = [f EXCEPT !.front = f.back, !.dirty = FALSE]
  OBVIOUS
<1>3. g \in Screens(B) /\ g.initialized /\ g.x = f.x /\ g.y = f.y /\ g.back = f.back
  BY <1>1, <1>2 DEF Screens, On
<1>4. Swap(f) = g \/ Swap(f) = f
  BY <1>2 DEF Swap
<1> QED BY <1>1, <1>3, <1>4 DEF Ok, On

LEMMA ChessKeeps ==
    ASSUME NEW f, Ok(f)
    PROVE  Ok(ChessFrame(f))
<1>0. PICK C : C = {Square}
  OBVIOUS
<1>1. PICK B : f \in Screens(B) /\ On(f) /\ C \subseteq B
  BY Widened
<1>2. PICK back \in [Cells -> B] : back = [c \in Cells |-> IF c \in Board THEN Square ELSE f.back[c]]
  <2>1. f.back \in [Cells -> B] /\ Square \in B
    BY <1>0, <1>1 DEF Screens
  <2>2. \A c \in Cells : (IF c \in Board THEN Square ELSE f.back[c]) \in B
    BY <2>1
  <2> QED BY <2>2
<1>3. PICK g : g = [f EXCEPT !.back = back, !.dirty = TRUE]
  OBVIOUS
<1>4. g \in Screens(B) /\ g.initialized
  BY <1>1, <1>3 DEF Screens, On
<1>5. ChessFrame(f) = Swap(g)
  BY <1>2, <1>3 DEF ChessFrame
<1> QED BY <1>4, <1>5, SwapKeeps DEF Ok, On

----------------------------------------------------------------------------
(* Texts in memory. *)

Letters == Chars \cup {NUL, "\n"}
Buffers == [0..BufSize - 1 -> Letters]

LEMMA FirstIs ==
    ASSUME NEW S, S \subseteq Nat, NEW k \in Nat, NEW w \in S, w >= k
    PROVE  \E e \in S : e = FirstFrom(S, k) /\ e >= k /\ \A p \in S : p >= k => e <= p
<1> DEFINE T == {e \in S : e >= k}
<1>1. PICK e \in T : \A p \in T : e <= p
  <2>1. T \subseteq Nat /\ T # {}
    OBVIOUS
  <2> HIDE DEF T
  <2> QED BY <2>1, Least
<1>2. e \in S /\ e >= k /\ \A p \in S : p >= k => e <= p
  BY <1>1
<1> QED BY <1>2 DEF FirstFrom

(* A loop over a buffer that starts inside stops inside or right behind.   *)
LEMMA PlacesAre ==
    ASSUME NEW buf \in Buffers, NEW k \in Nat
    PROVE  /\ PlacesFrom(buf, k) \subseteq Nat
           /\ \A j \in Nat : j = k \/ j \in 1..BufSize <=> j \in PlacesFrom(buf, k)
           /\ \A j \in Nat : j < BufSize => At(buf, j) = buf[j] /\ buf[j] \in Letters
           /\ \A j \in Nat : j >= BufSize => At(buf, j) = NUL
           /\ BufSize \in Nat /\ BufSize > 1
<1>1. BufSize \in Nat /\ BufSize > 1 /\ DOMAIN buf = 0..BufSize - 1
  BY ShellAssumption DEF Buffers
<1>2. PlacesFrom(buf, k) = {k} \cup {a + 1 : a \in 0..BufSize - 1}
  BY <1>1 DEF PlacesFrom
<1>3. {a + 1 : a \in 0..BufSize - 1} = 1..BufSize
  <2>1. ASSUME NEW j \in 1..BufSize PROVE \E a \in 0..BufSize - 1 : j = a + 1
    <3>1. j - 1 \in 0..BufSize - 1 /\ j = (j - 1) + 1
      BY <1>1
    <3> QED BY <3>1
  <2>2. \A a \in 0..BufSize - 1 : a + 1 \in 1..BufSize
    BY <1>1
  <2> QED BY <2>1, <2>2
<1>4. PlacesFrom(buf, k) = {k} \cup 1..BufSize
  BY <1>2, <1>3
<1>5. \A j \in Nat : j < BufSize => At(buf, j) = buf[j] /\ buf[j] \in Letters
  <2>1. \A j \in Nat : j < BufSize => j \in 0..BufSize - 1
    BY <1>1
  <2> HIDE DEF Letters
  <2> QED BY <1>1, <2>1 DEF At, Buffers
<1>6. \A j \in Nat : j >= BufSize => At(buf, j) = NUL
  BY <1>1 DEF At
<1> QED BY <1>1, <1>4, <1>5, <1>6

(* Where a loop stops that leaves a text's NUL to no other loop. *)
Stops(buf, k, Stop) == {e \in PlacesFrom(buf, k) : At(buf, e) \in Stop}
StopsAt(buf, k, Stop, e) ==
    /\ e = FirstFrom(Stops(buf, k, Stop), k) /\ e >= k /\ At(buf, e) \in Stop
    /\ (k <= BufSize => e <= BufSize)
    /\ \A j \in Nat : k <= j /\ j < e => At(buf, j) \notin Stop

LEMMA StopsIs ==
    ASSUME NEW buf \in Buffers, NEW k \in Nat, NEW Stop, NUL \in Stop
    PROVE  \E e \in Nat : StopsAt(buf, k, Stop, e)
<1> DEFINE S == Stops(buf, k, Stop)
<1>1. PICK w \in Nat : w = IF k <= BufSize THEN BufSize ELSE k
  BY PlacesAre
<1>2. w \in S /\ w >= k
  <2>1. w >= BufSize /\ w >= k /\ (w = k \/ w \in 1..BufSize)
    BY <1>1, PlacesAre
  <2> QED BY <2>1, PlacesAre DEF Stops
<1>3. S \subseteq Nat
  BY PlacesAre DEF Stops
<1> HIDE DEF S
<1>4. PICK e \in S : e = FirstFrom(S, k) /\ e >= k /\ \A p \in S : p >= k => e <= p
  BY <1>2, <1>3, FirstIs
<1>7. e <= w
  BY <1>2, <1>4
<1>5. ASSUME NEW j \in Nat, k <= j, j < e PROVE At(buf, j) \notin Stop
  <2>1. j \notin S
    BY <1>3, <1>4, <1>5
  <2>2. ASSUME At(buf, j) \in Stop PROVE FALSE
    <3>1. j \notin PlacesFrom(buf, k)
      BY <2>1, <2>2 DEF S, Stops
    <3>2. j # k /\ ~(j \in 1..BufSize)
      BY <3>1, PlacesAre
    <3>3. j > BufSize /\ j > k
      BY <1>5, <3>2, PlacesAre
    <3> QED BY <1>1, <1>3, <1>5, <1>7, <3>3, PlacesAre
  <2> QED BY <2>2
<1>6. e \in Nat /\ At(buf, e) \in Stop
  BY <1>3, <1>4 DEF S, Stops
<1>8. k <= BufSize => e <= BufSize
  BY <1>1, <1>7
<1> QED BY <1>4, <1>5, <1>6, <1>8 DEF StopsAt, S

EndsAt(buf, k, e) ==
    /\ e = EndOf(buf, k) /\ e >= k /\ At(buf, e) = NUL
    /\ \A j \in Nat : k <= j /\ j < e => At(buf, j) # NUL

LEMMA EndOfIs ==
    ASSUME NEW buf \in Buffers, NEW k \in Nat
    PROVE  \E e \in Nat : EndsAt(buf, k, e)
<1>1. PICK Stop : Stop = {NUL}
  OBVIOUS
<1>2. PICK e \in Nat : StopsAt(buf, k, Stop, e)
  BY <1>1, StopsIs
<1>3. Stops(buf, k, Stop) = {c \in PlacesFrom(buf, k) : At(buf, c) = NUL}
  BY <1>1 DEF Stops
<1> QED BY <1>1, <1>2, <1>3 DEF EndsAt, EndOf, StopsAt

Space == " "

WordEndsAt(buf, k, e) ==
    /\ e = SkipWord(buf, k) /\ e >= k /\ At(buf, e) \in {NUL, Space}
    /\ (k <= BufSize => e <= BufSize)
    /\ \A j \in Nat : k <= j /\ j < e => At(buf, j) \notin {NUL, Space}

LEMMA SkipWordIs ==
    ASSUME NEW buf \in Buffers, NEW k \in Nat
    PROVE  \E e \in Nat : WordEndsAt(buf, k, e)
<1>1. PICK Stop : Stop = {NUL, Space}
  OBVIOUS
<1>2. PICK e \in Nat : StopsAt(buf, k, Stop, e)
  BY <1>1, StopsIs
<1>3. Stops(buf, k, Stop) = {c \in PlacesFrom(buf, k) : At(buf, c) \in {NUL, Space}}
  BY <1>1 DEF Stops
<1> QED BY <1>1, <1>2, <1>3 DEF WordEndsAt, SkipWord, StopsAt, Space

SpacesEndAt(buf, k, e) ==
    /\ e = SkipSpaces(buf, k) /\ e >= k /\ At(buf, e) # Space
    /\ (k <= BufSize => e <= BufSize)
    /\ \A j \in Nat : k <= j /\ j < e => At(buf, j) = Space

LEMMA SkipSpacesIs ==
    ASSUME NEW buf \in Buffers, NEW k \in Nat
    PROVE  \E e \in Nat : SpacesEndAt(buf, k, e)
<1>1. PICK Stop : Stop = Letters \ {Space}
  OBVIOUS
<1>4. \A j \in Nat : At(buf, j) \in Stop <=> At(buf, j) # Space
  <2>1. \A j \in Nat : At(buf, j) \in Letters
    BY PlacesAre DEF Letters
  <2> QED BY <1>1, <2>1
<1>5. NUL \in Stop
  BY <1>1 DEF NUL, Letters, Space
<1>2. PICK e \in Nat : StopsAt(buf, k, Stop, e)
  BY <1>5, StopsIs
<1>3. Stops(buf, k, Stop) = {c \in PlacesFrom(buf, k) : At(buf, c) # Space}
  <2>1. PlacesFrom(buf, k) \subseteq Nat
    BY PlacesAre
  <2> QED BY <1>4, <2>1 DEF Stops
<1> QED BY <1>2, <1>3, <1>4 DEF SpacesEndAt, SkipSpaces, StopsAt, Space

LEMMA CStringIs ==
    ASSUME NEW buf \in Buffers, NEW k \in Nat
    PROVE  CString(buf, k) \in Seq(Letters)
<1>1. PICK e \in Nat : /\ e = EndOf(buf, k) /\ e >= k
                       /\ \A j \in Nat : k <= j /\ j < e => At(buf, j) # NUL
  BY EndOfIs DEF EndsAt
<1>2. PICK n \in Nat : n = e - k
  BY <1>1
<1>3. ASSUME NEW j \in 1..n PROVE buf[k + j - 1] \in Letters
  <2>1. PICK l \in Nat : l = k + j - 1 /\ k <= l /\ l < e
    BY <1>2
  <2>2. l < BufSize
    BY <1>1, <2>1, PlacesAre
  <2> QED BY <2>1, <2>2, PlacesAre
<1>4. [j \in 1..n |-> buf[k + j - 1]] \in Seq(Letters)
  <2> HIDE DEF Letters
  <2> QED BY <1>3
<1> QED BY <1>1, <1>2, <1>4 DEF CString

Splits == [at : Nat, text : Buffers]

LEMMA SplitTurnIs ==
    ASSUME NEW s \in Splits
    PROVE  SplitTurn(s) \in Splits
<1>1. PICK k \in Nat, buf \in Buffers : k = s.at /\ buf = s.text
  BY DEF Splits
<1>2. PICK space \in Nat : space = SkipWord(buf, k)
  BY SkipWordIs DEF WordEndsAt
<1>3. PICK from \in Nat : from = SkipSpaces(buf, space + 1)
  <2>1. space + 1 \in Nat
    OBVIOUS
  <2> QED BY <2>1, SkipSpacesIs DEF SpacesEndAt
<1>4. PICK cut : cut = [buf EXCEPT ![space] = NUL]
  OBVIOUS
<1>5. cut \in Buffers
  <2>1. NUL \in Letters
    BY DEF Letters
  <2> QED BY <1>4, <2>1 DEF Buffers
<1>6. PICK t : t = [at |-> from, text |-> cut]
  OBVIOUS
<1>7. t \in Splits
  BY <1>5, <1>6 DEF Splits
<1>8. SplitTurn(s) = s \/ SplitTurn(s) = t
  BY <1>1, <1>2, <1>3, <1>4, <1>6 DEF SplitTurn
<1> QED BY <1>7, <1>8

LEMMA SplitIs ==
    ASSUME NEW buf \in Buffers, NEW k \in Nat
    PROVE  \E g \in [0..BufSize -> Splits] :
             /\ g[0] = [at |-> k, text |-> buf]
             /\ \A n \in 1..BufSize : n - 1 \in 0..BufSize /\ g[n] = SplitTurn(g[n - 1])
             /\ Split(buf, k) = g[BufSize].text
<1> DEFINE V == Splits
           E(h) == SplitTurn(h)
           v == [at |-> k, text |-> buf]
<1>1. BufSize \in Nat
  BY PlacesAre
<1>2. PICK m \in Nat : m = BufSize
  BY <1>1
<1>3. \A h \in V : E(h) \in V
  BY SplitTurnIs
<1>4. PICK step \in [1..m -> [V -> V]] : step = [n \in 1..m |-> [h \in V |-> E(h)]]
  <2> HIDE DEF V, E
  <2> QED BY <1>3
<1>5. PICK g \in [0..m -> V] : Iterates(g, m, v, step)
  <2>1. v \in V
    BY DEF Splits
  <2> HIDE DEF V, E, v
  <2> QED BY <2>1, Iterated
<1>6. g[0] = v /\ \A n \in 1..m : n \in 0..m /\ n - 1 \in 0..m /\ g[n] = E(g[n - 1])
  <2> HIDE DEF V, E, v
  <2>1. ASSUME NEW n \in 1..m PROVE n \in 0..m /\ n - 1 \in 0..m /\ g[n] = E(g[n - 1])
    <3>1. n \in 0..m /\ n - 1 \in 0..m
      OBVIOUS
    <3>2. g[n - 1] \in V
      BY <3>1
    <3>3. step[n][g[n - 1]] = E(g[n - 1])
      BY <1>4, <3>2
    <3> QED BY <1>5, <3>1, <3>3 DEF Iterates
  <2> QED BY <1>5, <2>1 DEF Iterates
<1> DEFINE Is(a) == a = [n \in 0..m |-> IF n = 0 THEN v ELSE E(a[n - 1])]
           c == CHOOSE a : Is(a)
<1>7. Split(buf, k) = c[m].text
  BY <1>2 DEF Split
<1> HIDE DEF V, E, v
<1>8. Is(g)
  <2>1. \A n \in 0..m : g[n] = IF n = 0 THEN v ELSE E(g[n - 1])
    <3>1. \A n \in 0..m : n = 0 \/ n \in 1..m
      OBVIOUS
    <3> QED BY <1>6, <3>1
  <2>2. g = [n \in 0..m |-> g[n]]
    OBVIOUS
  <2> QED BY <2>1, <2>2
<1>9. Is(c)
  BY <1>8
<1> HIDE DEF c
<1>10. Copies(c, g, m)
  <2>1. 0 \in 0..m
    OBVIOUS
  <2>2. c[0] = v
    BY <1>9, <2>1
  <2>3. ASSUME NEW n \in 1..m, c[n - 1] = g[n - 1] PROVE c[n] = g[n]
    <3>1. n \in 0..m /\ n # 0
      OBVIOUS
    <3>2. c[n] = E(c[n - 1])
      BY <1>9, <3>1
    <3> QED BY <1>6, <2>3, <3>2
  <2> QED BY <1>6, <2>2, <2>3 DEF Copies
<1>11. c[m] = g[m]
  BY <1>10, Copied
<1> QED BY <1>2, <1>6, <1>7, <1>11 DEF V, E, v

LEMMA SplitTyped ==
    ASSUME NEW buf \in Buffers
    PROVE  Split(buf, 0) \in Buffers
<1>1. BufSize \in Nat
  BY PlacesAre
<1>4. PICK k \in Nat : k = 0
  OBVIOUS
<1>2. PICK g \in [0..BufSize -> Splits] :
        /\ g[0] = [at |-> k, text |-> buf]
        /\ \A n \in 1..BufSize : n - 1 \in 0..BufSize /\ g[n] = SplitTurn(g[n - 1])
        /\ Split(buf, k) = g[BufSize].text
  BY SplitIs
<1>3. g[BufSize] \in Splits
  BY <1>1
<1> QED BY <1>2, <1>3, <1>4 DEF Splits

----------------------------------------------------------------------------
(* Numbers as text. *)

LEMMA DigitsTyped ==
    ASSUME NEW v, NEW base
    PROVE  \E S : DigitsOf(v, base) \in Seq(S)
<1> DEFINE left == CHOOSE f : f = [n \in 0..LongBits |-> IF n = 0 THEN v ELSE f[n - 1] \div base]
           used == {n \in 0..LongBits : left[n] > 0}
           count == Cardinality(used)
<1>1. count \in Nat
  <2> HIDE DEF left
  <2>1. LongBits \in Nat /\ 0 \in Int
    BY WidthAssumption
  <2>2. IsFiniteSet(0..LongBits)
    BY <2>1, FS_Interval
  <2>3. used \subseteq 0..LongBits
    OBVIOUS
  <2> HIDE DEF used
  <2>4. IsFiniteSet(used)
    BY <2>2, <2>3, FS_Subset
  <2> QED BY <2>4, FS_CardinalityType
<1>2. DigitsOf(v, base) = [j \in 1..count |-> DigitChars[1 + (left[count - j] % base)]]
  BY DEF DigitsOf
<1> HIDE DEF count, left
<1>3. PICK d : d = [j \in 1..count |-> DigitChars[1 + (left[count - j] % base)]]
  OBVIOUS
<1>4. PICK S : S = {d[j] : j \in 1..count}
  OBVIOUS
<1>5. d \in [1..count -> S]
  BY <1>3, <1>4
<1>6. d \in Seq(S)
  BY <1>1, <1>5
<1> QED BY <1>2, <1>3, <1>6

LEMMA Joined ==
    ASSUME NEW A, NEW B, NEW s \in Seq(A), NEW t \in Seq(B)
    PROVE  \E S : s \o t \in Seq(S)
<1>1. PICK S : S = A \cup B
  OBVIOUS
<1>2. s \in Seq(S) /\ t \in Seq(S)
  BY <1>1
<1>3. s \o t \in Seq(S)
  BY <1>2
<1> QED BY <1>3

LEMMA ToStrTyped ==
    ASSUME NEW v, NEW w
    PROVE  \E S : ToStr(v, w) \in Seq(S)
<1> DEFINE sign == IF v < 0 THEN <<"-">> ELSE <<>>
           digits == IF v = 0 THEN <<"0">> ELSE DigitsOf(IF v < 0 THEN Signed(-v, w) ELSE v, 10)
<1>1. PICK A : sign \in Seq(A)
  <2>1. PICK c : c = "-"
    OBVIOUS
  <2>2. <<c>> \in Seq({c}) /\ <<>> \in Seq({c})
    OBVIOUS
  <2> QED BY <2>1, <2>2
<1>2. PICK B : digits \in Seq(B)
  <2>1. PICK c : c = "0"
    OBVIOUS
  <2>2. <<c>> \in Seq({c})
    OBVIOUS
  <2>3. PICK u, b : u = (IF v < 0 THEN Signed(-v, w) ELSE v) /\ b = 10
    OBVIOUS
  <2>4. PICK S : DigitsOf(u, b) \in Seq(S)
    BY DigitsTyped
  <2>5. digits = <<c>> \/ digits = DigitsOf(u, b)
    BY <2>1, <2>3
  <2> HIDE DEF digits
  <2> QED BY <2>2, <2>4, <2>5
<1>3. ToStr(v, w) = sign \o digits
  BY DEF ToStr
<1> HIDE DEF sign, digits
<1> QED BY <1>1, <1>2, <1>3, Joined

----------------------------------------------------------------------------
(* What the commands print is a line each. *)

LEMMA PrintsArgument ==
    ASSUME NEW A, NEW text \in Seq(A), NEW p, OneArgument(text, p), NEW B, NEW t \in Seq(B),
           Len(text) > 0, text[Len(text)] = "\n"
    PROVE  PrintsLine(Format(text, <<t>>))
<1>1. PICK S : S = A \cup B
  OBVIOUS
<1>2. text \in Seq(S) /\ t \in Seq(S)
  BY <1>1
<1> QED BY <1>2, PrintsOne

LEMMA PrintPrints ==
    PrintsLine(Format(<<"&", "9", "h", "\n">>, <<>>))
<1> DEFINE S == {"&", "9", "h", "\n"}
<1>1. PICK c1 \in S, c2 \in S, c3 \in S, c4 \in S :
        c1 = "&" /\ c2 = "9" /\ c3 = "h" /\ c4 = "\n"
  OBVIOUS
<1>2. PICK text \in Seq(S) :
        /\ text = <<c1, c2, c3, c4>> /\ Len(text) = 4
        /\ text[1] = c1 /\ text[2] = c2 /\ text[3] = c3 /\ text[4] = c4
  <2> HIDE DEF S
  <2>1. <<c1, c2, c3, c4>> \in Seq(S)
    OBVIOUS
  <2> QED BY <2>1
<1>3. OneArgument(text, 0)
  <2>1. SUFFICES ASSUME NEW j \in 1..4, text[j] = "%" PROVE j = 0
    BY <1>2 DEF OneArgument
  <2>2. j = 1 \/ j = 2 \/ j = 3 \/ j = 4
    OBVIOUS
  <2> QED BY <1>1, <1>2, <2>1, <2>2
<1>4. Len(text) > 0 /\ text[Len(text)] = "\n"
  BY <1>1, <1>2
<1>5. text = <<"&", "9", "h", "\n">>
  BY <1>1, <1>2
<1> HIDE DEF S
<1> QED BY <1>3, <1>4, <1>5, PrintsNone

LEMMA PoweroffPrints ==
    PrintsLine(Format(<<"&", "c", "\t", "S", "\n">>, <<>>))
<1> DEFINE S == {"&", "c", "\t", "S", "\n"}
<1>1. PICK c1 \in S, c2 \in S, c3 \in S, c4 \in S, c5 \in S :
        c1 = "&" /\ c2 = "c" /\ c3 = "\t" /\ c4 = "S" /\ c5 = "\n"
  OBVIOUS
<1>2. PICK text \in Seq(S) :
        /\ text = <<c1, c2, c3, c4, c5>> /\ Len(text) = 5
        /\ text[1] = c1 /\ text[2] = c2 /\ text[3] = c3 /\ text[4] = c4 /\ text[5] = c5
  <2> HIDE DEF S
  <2>1. <<c1, c2, c3, c4, c5>> \in Seq(S)
    OBVIOUS
  <2> QED BY <2>1
<1>3. OneArgument(text, 0)
  <2>1. SUFFICES ASSUME NEW j \in 1..5, text[j] = "%" PROVE j = 0
    BY <1>2 DEF OneArgument
  <2>2. j = 1 \/ j = 2 \/ j = 3 \/ j = 4 \/ j = 5
    OBVIOUS
  <2> QED BY <1>1, <1>2, <2>1, <2>2
<1>4. Len(text) > 0 /\ text[Len(text)] = "\n"
  BY <1>1, <1>2
<1>5. text = <<"&", "c", "\t", "S", "\n">>
  BY <1>1, <1>2
<1> HIDE DEF S
<1> QED BY <1>3, <1>4, <1>5, PrintsNone

LEMMA UsagePrints ==
    PrintsLine(Format(<<"&", "7", "u", "\n">>, <<>>))
<1> DEFINE S == {"&", "7", "u", "\n"}
<1>1. PICK c1 \in S, c2 \in S, c3 \in S, c4 \in S :
        c1 = "&" /\ c2 = "7" /\ c3 = "u" /\ c4 = "\n"
  OBVIOUS
<1>2. PICK text \in Seq(S) :
        /\ text = <<c1, c2, c3, c4>> /\ Len(text) = 4
        /\ text[1] = c1 /\ text[2] = c2 /\ text[3] = c3 /\ text[4] = c4
  <2> HIDE DEF S
  <2>1. <<c1, c2, c3, c4>> \in Seq(S)
    OBVIOUS
  <2> QED BY <2>1
<1>3. OneArgument(text, 0)
  <2>1. SUFFICES ASSUME NEW j \in 1..4, text[j] = "%" PROVE j = 0
    BY <1>2 DEF OneArgument
  <2>2. j = 1 \/ j = 2 \/ j = 3 \/ j = 4
    OBVIOUS
  <2> QED BY <1>1, <1>2, <2>1, <2>2
<1>4. Len(text) > 0 /\ text[Len(text)] = "\n"
  BY <1>1, <1>2
<1>5. text = <<"&", "7", "u", "\n">>
  BY <1>1, <1>2
<1> HIDE DEF S
<1> QED BY <1>3, <1>4, <1>5, PrintsNone

LEMMA TimePrints ==
    ASSUME NEW B, NEW t \in Seq(B)
    PROVE  PrintsLine(Format(<<"%", "l", "\n">>, <<t>>))
<1> DEFINE S == {"%", "l", "\n"}
<1>1. PICK c1 \in S, c2 \in S, c3 \in S :
        c1 = "%" /\ c2 = "l" /\ c3 = "\n"
  OBVIOUS
<1>2. PICK text \in Seq(S) :
        /\ text = <<c1, c2, c3>> /\ Len(text) = 3
        /\ text[1] = c1 /\ text[2] = c2 /\ text[3] = c3
  <2> HIDE DEF S
  <2>1. <<c1, c2, c3>> \in Seq(S)
    OBVIOUS
  <2> QED BY <2>1
<1>3. OneArgument(text, 1)
  <2>1. SUFFICES ASSUME NEW j \in 1..3, text[j] = "%" PROVE j = 1
    BY <1>2 DEF OneArgument
  <2>2. j = 1 \/ j = 2 \/ j = 3
    OBVIOUS
  <2> QED BY <1>1, <1>2, <2>1, <2>2
<1>4. Len(text) > 0 /\ text[Len(text)] = "\n"
  BY <1>1, <1>2
<1>5. text = <<"%", "l", "\n">>
  BY <1>1, <1>2
<1> HIDE DEF S
<1> QED BY <1>3, <1>4, <1>5, PrintsArgument

LEMMA UnknownPrints ==
    ASSUME NEW B, NEW t \in Seq(B)
    PROVE  PrintsLine(Format(<<"&", "7", "?", "&", "c", "%", "s", " ", "\n">>, <<t>>))
<1> DEFINE S == {"&", "7", "?", "c", "%", "s", " ", "\n"}
<1>1. PICK c1 \in S, c2 \in S, c3 \in S, c4 \in S, c5 \in S, c6 \in S, c7 \in S, c8 \in S :
        c1 = "&" /\ c2 = "7" /\ c3 = "?" /\ c4 = "c" /\ c5 = "%" /\ c6 = "s" /\ c7 = " " /\ c8 = "\n"
  OBVIOUS
<1> HIDE DEF S
<1>2. PICK text \in Seq(S) :
        /\ text = <<c1, c2, c3, c1, c4, c5, c6, c7, c8>> /\ Len(text) = 9
        /\ text[1] = c1 /\ text[2] = c2 /\ text[3] = c3 /\ text[4] = c1 /\ text[5] = c4 /\ text[6] = c5 /\ text[7] = c6 /\ text[8] = c7 /\ text[9] = c8
  <2>1. PICK former \in Seq(S) : former = <<c1, c2, c3, c1>>
    <3>1. <<c1, c2, c3, c1>> \in Seq(S)
      OBVIOUS
    <3> QED BY <3>1
  <2>2. PICK latter \in Seq(S) : latter = <<c4, c5, c6, c7, c8>>
    <3>1. <<c4, c5, c6, c7, c8>> \in Seq(S)
      OBVIOUS
    <3> QED BY <3>1
  <2>3. <<c1, c2, c3, c1, c4, c5, c6, c7, c8>> = former \o latter
    BY <2>1, <2>2
  <2>4. former \o latter \in Seq(S)
    OBVIOUS
  <2>5. Len(<<c1, c2, c3, c1, c4, c5, c6, c7, c8>>) = 9
    OBVIOUS
  <2>6. PICK text \in Seq(S) : text = <<c1, c2, c3, c1, c4, c5, c6, c7, c8>>
    BY <2>3, <2>4
  <2>7. text[1] = c1 /\ text[2] = c2 /\ text[3] = c3 /\ text[4] = c1 /\ text[5] = c4
    BY <2>6
  <2>8. text[6] = c5 /\ text[7] = c6 /\ text[8] = c7 /\ text[9] = c8
    BY <2>6
  <2> QED BY <2>5, <2>6, <2>7, <2>8
<1>3. OneArgument(text, 6)
  <2>1. SUFFICES ASSUME NEW j \in 1..9, text[j] = "%" PROVE j = 6
    BY <1>2 DEF OneArgument
  <2>2. j = 1 \/ j = 2 \/ j = 3 \/ j = 4 \/ j = 5 \/ j = 6 \/ j = 7 \/ j = 8 \/ j = 9
    OBVIOUS
  <2> QED BY <1>1, <1>2, <2>1, <2>2
<1>6. Len(text) = 9 /\ text[9] = c8
  BY <1>2
<1>7. c8 = "\n"
  BY <1>1
<1>8. Len(text) > 0
  BY <1>6
<1>4. Len(text) > 0 /\ text[Len(text)] = "\n"
  BY <1>6, <1>7, <1>8
<1>5. text = <<"&", "7", "?", "&", "c", "%", "s", " ", "\n">>
  BY <1>1, <1>2
<1> QED BY <1>3, <1>4, <1>5, PrintsArgument

----------------------------------------------------------------------------
(* The line on the screen: its first n letters stand behind the prompt,    *)
(* which stands at the beginning of a row, and the cursor behind them.     *)
LineAt(f, buf, n, p) ==
    /\ CursorIs(f, p + n + 1) /\ n < BufSize
    /\ f.back[p] = PromptChar
    /\ \A k \in Nat : k < n => f.back[p + 1 + k] = buf[k]
Edited(f, buf, n) ==
    \E y \in 0..Height - 1, p \in Nat : RowAt(y, p) /\ LineAt(f, buf, n, p)

LEMMA OneCell ==
    ASSUME NEW f, f.x \in Int, NEW e \in Nat, NEW u \in Nat, CursorIs(f, e), CursorIs(f, u)
    PROVE  e = u
BY DEF CursorIs, CellIs, RowAt

(* Where a row begins when the screen has moved up by d.  A line fits on   *)
(* the screen: what it has before its end does not leave it.               *)
LEMMA RowUp ==
    ASSUME NEW y \in 0..Height - 1, NEW p \in Nat, RowAt(y, p), NEW all \in Nat, Cells = 0..all - 1,
           NEW e \in Nat, NEW d \in Nat, Up(d, e + 1, all), NEW n \in Nat, e = p + n, n < BufSize
    PROVE  /\ d <= p /\ p < all
           /\ \E z \in 0..Height - 1 : RowAt(z, p - d)
<1> USE ScreenAssumption
<1>1. PICK before \in Nat, through \in Nat, whole \in Nat :
        /\ RowAt(y, before) /\ RowsEnd(y, before, through, whole)
        /\ RowAt(y - 1, before - Width) /\ whole = Width * Height
  BY Rows
<1>2. before = p
  BY <1>1 DEF RowAt
<1>3. whole = all
  BY <1>1 DEF RowsEnd
<1>4. BufSize \in Nat /\ BufSize < all
  BY <1>1, <1>3, LineFits, ShellAssumption
<1>5. p < all
  BY <1>1, <1>2, <1>3 DEF RowsEnd
<1>6. CASE d = 0
  <2>1. p - d = p
    BY <1>6
  <2> QED BY <1>5, <1>6, <2>1
<1>7. CASE d # 0
  <2>1. d = Width /\ e + 1 = all
    BY <1>7 DEF Up
  <2>2. y > 0
    <3>1. CASE y = 0
      <4>1. p = 0
        BY <1>1, <1>2, <3>1 DEF RowsEnd
      <4> QED BY <1>4, <2>1, <4>1
    <3> QED BY <3>1
  <2>3. d <= p
    BY <1>1, <1>2, <2>1, <2>2 DEF RowsEnd
  <2>4. y - 1 \in 0..Height - 1 /\ RowAt(y - 1, p - d)
    BY <1>1, <1>2, <2>1, <2>2
  <2> QED BY <1>5, <2>3, <2>4
<1> QED BY <1>6, <1>7

LEMMA PromptDrawn ==
    ASSUME NEW f, Ok(f), f.x = 0, NEW buf
    PROVE  Edited(PutChar(f, PromptChar), buf, 0)
<1> USE ScreenAssumption
<1>1. PICK C : C = {PromptChar}
  OBVIOUS
<1>2. PICK B : f \in Screens(B) /\ On(f) /\ Background \in B /\ C \subseteq B
  BY Widened
<1>3. PICK c \in B : c = PromptChar
  BY <1>1, <1>2
<1>4. PICK g \in Screens(B), e \in Nat, all \in Nat, d \in Nat :
        /\ g = PutGlyph(f, c) /\ On(g)
        /\ Cells = 0..all - 1 /\ e \in Cells /\ CursorIs(f, e)
        /\ e + 1 >= d /\ CursorIs(g, e + 1 - d)
        /\ Up(d, e + 1, all) /\ Glyph(f.back, g.back, c, e, d)
  BY <1>2, GlyphIs
<1>5. PutChar(f, PromptChar) = g
  <2>1. PromptChar \notin {"\t", "\n", "bs"}
    BY DEF PromptChar
  <2> QED BY <1>2, <1>3, <1>4, <2>1 DEF PutChar, On
<1>6. PICK y \in 0..Height - 1 : y = f.y
  BY <1>2 DEF Screens
<1>7. RowAt(y, e)
  BY <1>4, <1>6 DEF CursorIs, CellIs
<1>8. PICK n \in Nat : n = 0
  OBVIOUS
<1>9. e = e + n /\ n < BufSize
  BY <1>8, ShellAssumption
<1>10. d <= e /\ \E z \in 0..Height - 1 : RowAt(z, e - d)
  BY <1>4, <1>7, <1>9, RowUp
<1>11. PICK z \in 0..Height - 1, p \in Nat : p = e - d /\ RowAt(z, p)
  BY <1>10
<1>12. g.back[p] = PromptChar
  <2>1. p \in Cells /\ p + d \in Cells /\ p + d = e
    BY <1>4, <1>11
  <2> QED BY <1>3, <1>4, <2>1 DEF Glyph
<1>13. CursorIs(g, p + n + 1)
  <2>1. p + n + 1 = e + 1 - d
    BY <1>8, <1>11
  <2> QED BY <1>4, <2>1
<1>14. LineAt(g, buf, n, p)
  BY <1>8, <1>9, <1>12, <1>13 DEF LineAt
<1> QED BY <1>5, <1>8, <1>11, <1>14 DEF Edited

LEMMA CharInLine ==
    ASSUME NEW f, Ok(f), NEW buf \in Buffers, NEW n \in Nat, Edited(f, buf, n), n + 1 < BufSize,
           NEW c, c \notin {"\t", "\n", "bs"}
    PROVE  Edited(PutChar(f, c), [buf EXCEPT ![n] = c], n + 1)
<1> USE ScreenAssumption
<1>1. PICK C : C = {c}
  OBVIOUS
<1>2. PICK B : f \in Screens(B) /\ On(f) /\ Background \in B /\ C \subseteq B
  BY Widened
<1>3. c \in B
  BY <1>1, <1>2
<1>4. PICK g \in Screens(B), e \in Nat, all \in Nat, d \in Nat :
        /\ g = PutGlyph(f, c) /\ On(g)
        /\ Cells = 0..all - 1 /\ e \in Cells /\ CursorIs(f, e)
        /\ e + 1 >= d /\ CursorIs(g, e + 1 - d)
        /\ Up(d, e + 1, all) /\ Glyph(f.back, g.back, c, e, d)
  BY <1>2, <1>3, GlyphIs
<1>5. PutChar(f, c) = g
  BY <1>2, <1>4 DEF PutChar, On
<1>6. PICK y \in 0..Height - 1, p \in Nat : RowAt(y, p) /\ LineAt(f, buf, n, p)
  BY DEF Edited
<1>7. PICK m \in Nat : m = n + 1
  OBVIOUS
<1>8. e = p + m
  <2>1. f.x \in Int
    BY <1>2 DEF Screens
  <2>2. p + n + 1 \in Nat /\ CursorIs(f, p + n + 1)
    BY <1>6 DEF LineAt
  <2>3. e = p + n + 1
    BY <1>4, <2>1, <2>2, OneCell
  <2> QED BY <1>7, <2>3
<1>9. m < BufSize
  BY <1>7
<1>10. d <= p /\ p < all /\ \E z \in 0..Height - 1 : RowAt(z, p - d)
  BY <1>4, <1>6, <1>8, <1>9, RowUp
<1>11. PICK z \in 0..Height - 1, q \in Nat : q = p - d /\ RowAt(z, q)
  BY <1>10
<1>12. g.back[q] = PromptChar
  <2>1. q \in Cells /\ q + d \in Cells /\ q + d = p /\ p # e
    BY <1>4, <1>7, <1>8, <1>10, <1>11
  <2>2. f.back[p] = PromptChar
    BY <1>6 DEF LineAt
  <2> QED BY <1>4, <2>1, <2>2 DEF Glyph
<1>13. CursorIs(g, q + m + 1)
  <2>1. q + m + 1 = e + 1 - d
    BY <1>8, <1>11
  <2> QED BY <1>4, <2>1
<1>14. ASSUME NEW k \in Nat, k < m PROVE g.back[q + 1 + k] = [buf EXCEPT ![n] = c][k]
  <2>1. PICK j \in Nat : j = q + 1 + k
    OBVIOUS
  <2>2. j \in Cells /\ j + d \in Cells /\ j + d = p + 1 + k
    BY <1>4, <1>8, <1>11, <1>14, <2>1
  <2>3. g.back[j] = IF j + d = e THEN c ELSE f.back[j + d]
    BY <1>4, <2>2 DEF Glyph
  <2>4. k \in DOMAIN buf
    BY <1>7, <1>14, ShellAssumption DEF Buffers
  <2>5. CASE k = n
    <3>1. j + d = e
      BY <1>7, <1>8, <2>2, <2>5
    <3> QED BY <2>1, <2>3, <2>4, <2>5, <3>1
  <2>6. CASE k # n
    <3>1. k < n /\ j + d # e
      BY <1>7, <1>8, <1>14, <2>2, <2>6
    <3>2. f.back[p + 1 + k] = buf[k]
      BY <1>6, <3>1 DEF LineAt
    <3> QED BY <2>1, <2>2, <2>3, <2>4, <2>6, <3>1, <3>2
  <2> QED BY <2>5, <2>6
<1>15. LineAt(g, [buf EXCEPT ![n] = c], m, q)
  BY <1>9, <1>12, <1>13, <1>14 DEF LineAt
<1> QED BY <1>5, <1>7, <1>11, <1>15 DEF Edited

LEMMA BackspaceInLine ==
    ASSUME NEW f, Ok(f), NEW buf \in Buffers, NEW n \in Nat, n > 0, Edited(f, buf, n), NEW c
    PROVE  Edited(PutChar(f, "bs"), [buf EXCEPT ![n - 1] = c], n - 1)
<1>1. PICK C : C = {"bs"}
  OBVIOUS
<1>2. PICK B : f \in Screens(B) /\ On(f) /\ Background \in B /\ C \subseteq B
  BY Widened
<1>4. PICK g \in Screens(B), e \in Nat :
        /\ g = Backspace(f) /\ On(g) /\ CursorIs(f, e) /\ e \in Cells
        /\ e > 0 => /\ CursorIs(g, e - 1)
                    /\ \A j \in Nat : j \in Cells /\ j < e - 1 => g.back[j] = f.back[j]
  BY <1>2, BackspaceIs
<1>5. PutChar(f, "bs") = g
  <2>1. "bs" # "\t" /\ "bs" # "\n"
    OBVIOUS
  <2> QED BY <1>2, <1>4, <2>1 DEF PutChar, On
<1>6. PICK y \in 0..Height - 1, p \in Nat : RowAt(y, p) /\ LineAt(f, buf, n, p)
  BY DEF Edited
<1>7. PICK m \in Nat : m = n - 1
  OBVIOUS
<1>8. e = p + n + 1
  <2>1. f.x \in Int
    BY <1>2, ScreenAssumption DEF Screens
  <2>2. p + n + 1 \in Nat /\ CursorIs(f, p + n + 1)
    BY <1>6 DEF LineAt
  <2> QED BY <1>4, <2>1, <2>2, OneCell
<1>9. CursorIs(g, p + m + 1)
  <2>1. p + m + 1 = e - 1 /\ e > 0
    BY <1>7, <1>8
  <2> QED BY <1>4, <2>1
<1>3. PICK all \in Int : Cells = 0..all - 1
  <2>1. Width * Height \in Int
    BY ScreenAssumption
  <2> QED BY <2>1 DEF Cells
<1>10. ASSUME NEW j \in Nat, j < p + n PROVE g.back[j] = f.back[j]
  <2>1. j \in Cells /\ j < e - 1 /\ e > 0
    BY <1>3, <1>4, <1>8, <1>10
  <2> QED BY <1>4, <2>1
<1>11. g.back[p] = PromptChar
  <2>1. p < p + n
    OBVIOUS
  <2> QED BY <1>6, <1>10, <2>1 DEF LineAt
<1>12. ASSUME NEW k \in Nat, k < m PROVE g.back[p + 1 + k] = [buf EXCEPT ![n - 1] = c][k]
  <2>1. p + 1 + k \in Nat /\ p + 1 + k < p + n /\ k < n /\ k # n - 1
    BY <1>7, <1>12
  <2>2. f.back[p + 1 + k] = buf[k]
    BY <1>6, <2>1 DEF LineAt
  <2>3. n < BufSize /\ BufSize \in Nat
    BY <1>6, ShellAssumption DEF LineAt
  <2>4. k \in DOMAIN buf
    BY <2>1, <2>3 DEF Buffers
  <2> QED BY <1>10, <2>1, <2>2, <2>4
<1>13. m < BufSize
  BY <1>6, <1>7, ShellAssumption DEF LineAt
<1>14. LineAt(g, [buf EXCEPT ![n - 1] = c], m, p)
  BY <1>9, <1>11, <1>12, <1>13 DEF LineAt
<1> QED BY <1>5, <1>6, <1>7, <1>14 DEF Edited

----------------------------------------------------------------------------
(* The invariant: a command and the prompt begin a line of the screen, and *)
(* while nothing has come between the screen shows the line that is being  *)
(* edited.                                                                 *)
ShellType ==
    /\ Ok(fb) /\ then \in {"swap", "prompt", "sleep", "stopped"}
    /\ buffer \in Buffers /\ i \in Nat /\ history \in Seq(Buffers)
ColumnInv ==
    /\ stage \in {"run", "prompt", "sleep", "asleep"} => fb.x = 0
    /\ stage = "print" /\ then # "swap" => PrintsLine(out) /\ (out = <<>> => fb.x = 0)
Prompting == i = 0 /\ out = <<PromptChar>> /\ fb.x = 0
EditInv ==
    clean =>
      /\ stage \in {"swap", "key"} => Edited(fb, buffer, i)
      /\ stage = "print" /\ then = "swap" =>
           Prompting \/ (out = <<>> /\ i = 0 /\ Edited(fb, buffer, i))
ShellInv == ShellType /\ ColumnInv /\ EditInv

LEMMA InvShows == ShellInv => LineShown
<1>1. SUFFICES ASSUME ShellInv, stage \in {"swap", "key"}, clean
               PROVE  LET end == fb.y * Width + fb.x
                      IN /\ \A k \in 1..i : fb.back[end - k] = buffer[i - k]
                         /\ fb.back[end - i - 1] = PromptChar
  BY DEF LineShown
<1>2. PICK n \in Nat : n = i
  BY <1>1 DEF ShellInv, ShellType
<1>3. PICK y \in 0..Height - 1, p \in Nat : RowAt(y, p) /\ LineAt(fb, buffer, n, p)
  BY <1>1, <1>2 DEF ShellInv, EditInv, Edited
<1>4. PICK end : end = fb.y * Width + fb.x
  OBVIOUS
<1>5. end = p + n + 1
  BY <1>3, <1>4 DEF LineAt, CursorIs, CellIs, RowAt
<1>6. fb.back[end - n - 1] = PromptChar
  <2>1. end - n - 1 = p
    BY <1>5
  <2> QED BY <1>3, <2>1 DEF LineAt
<1>7. ASSUME NEW k \in 1..n PROVE fb.back[end - k] = buffer[n - k]
  <2>1. n - k \in Nat /\ n - k < n /\ p + 1 + (n - k) = end - k
    BY <1>5
  <2>2. fb.back[p + 1 + (n - k)] = buffer[n - k]
    BY <1>3, <2>1 DEF LineAt
  <2> QED BY <2>1, <2>2
<1> QED BY <1>2, <1>4, <1>6, <1>7

LEMMA NoneIsBuffer == [k \in 0..BufSize - 1 |-> NUL] \in Buffers
BY DEF Buffers, Letters

LEMMA ShellInitInv == ShellInit => ShellInv
<1>1. SUFFICES ASSUME ShellInit PROVE ShellInv
  OBVIOUS
<1> USE ScreenAssumption
<1>2. PICK blank, B : blank = Background /\ B = {blank}
  OBVIOUS
<1>3. PICK clean0 : clean0 = [NewFramebuffer EXCEPT !.dirty = FALSE]
  OBVIOUS
<1>4. Ok(clean0) /\ clean0.x = 0
  <2>1. PICK back \in [Cells -> B] : back = [c \in Cells |-> blank]
    BY <1>2
  <2>2. 0 \in 0..Width - 1 /\ 0 \in 0..Height - 1
    OBVIOUS
  <2>3. PICK f : f = [initialized |-> TRUE, dirty |-> TRUE, x |-> 0, y |-> 0,
                      back |-> back, front |-> back]
    OBVIOUS
  <2>4. f = NewFramebuffer
    BY <1>2, <2>1, <2>3 DEF NewFramebuffer
  <2>5. f \in Screens(B) /\ f.initialized /\ f.x = 0
    BY <2>2, <2>3 DEF Screens
  <2>6. clean0 = [f EXCEPT !.dirty = FALSE]
    BY <1>3, <2>4
  <2>7. clean0 \in Screens(B) /\ clean0.initialized /\ clean0.x = 0
    BY <2>5, <2>6 DEF Screens
  <2> QED BY <2>7 DEF Ok, On
<1>5. PICK logged : logged = Log(clean0, <<"l">>, <<>>)
  OBVIOUS
<1>6. Ok(logged) /\ logged.x = 0
  <2>1. PICK c : c = "l"
    OBVIOUS
  <2>2. c \notin {"%", "&"}
    BY <2>1
  <2>3. Ok(Log(clean0, <<c>>, <<>>)) /\ Log(clean0, <<c>>, <<>>).x = 0
    BY <1>4, <2>2, LogKeeps
  <2> QED BY <1>5, <2>1, <2>3
<1>7. PICK swapped : swapped = [logged EXCEPT !.dirty = FALSE]
  OBVIOUS
<1>8. Ok(swapped) /\ swapped.x = 0
  <2>1. PICK A : logged \in Screens(A) /\ On(logged)
    BY <1>6 DEF Ok
  <2>2. swapped \in Screens(A) /\ swapped.initialized /\ swapped.x = logged.x
    BY <1>7, <2>1 DEF Screens, On
  <2> QED BY <1>6, <2>2 DEF Ok, On
<1>9. Ok(fb) /\ fb.x = 0
  <2>1. fb = clean0 \/ fb = swapped
    BY <1>1, <1>3, <1>5, <1>7 DEF ShellInit
  <2> QED BY <1>4, <1>8, <2>1
<1>10. ShellType
  <2>1. history = <<>> /\ i = 0 /\ then = "swap" /\ buffer = [k \in 0..BufSize - 1 |-> NUL]
    BY <1>1 DEF ShellInit
  <2>2. history \in Seq(Buffers)
    BY <2>1
  <2> QED BY <1>9, <2>1, <2>2, NoneIsBuffer DEF ShellType
<1>11. stage = "print" /\ then = "swap" /\ out = <<PromptChar>> /\ i = 0
  BY <1>1, PromptPrinted DEF ShellInit
<1> QED BY <1>9, <1>10, <1>11 DEF ShellInv, ColumnInv, EditInv, Prompting

LEMMA TailPrints ==
    ASSUME NEW s, PrintsLine(s), s # <<>>
    PROVE  PrintsLine(Tail(s)) /\ (Tail(s) = <<>> => Head(s) = "\n")
<1>1. PICK S : s \in Seq(S) /\ EndsLine(s)
  BY DEF PrintsLine
<1>2. PICK t \in Seq(S), h \in S : t = Tail(s) /\ h = Head(s)
  <2>1. Tail(s) \in Seq(S)
    BY <1>1
  <2>2. Head(s) \in S
    BY <1>1
  <2> QED BY <2>1, <2>2
<1>3. s[Len(s)] = "\n" /\ Len(s) \in Nat /\ Len(s) > 0 /\ h = s[1] /\ Len(t) = Len(s) - 1
  BY <1>1, <1>2 DEF EndsLine
<1>4. CASE t = <<>>
  <2>1. Len(s) = 1
    BY <1>3, <1>4
  <2>2. h = "\n"
    BY <1>3, <2>1
  <2>3. EndsLine(t)
    BY <1>4 DEF EndsLine
  <2> QED BY <1>2, <2>2, <2>3 DEF PrintsLine
<1>5. CASE t # <<>>
  <2>1. Len(t) > 0
    BY <1>5
  <2>2. t[Len(t)] = s[Len(t) + 1]
    BY <1>1, <1>2, <2>1
  <2>3. t[Len(t)] = "\n"
    BY <1>3, <2>2
  <2>4. EndsLine(t)
    BY <2>3 DEF EndsLine
  <2> QED BY <1>2, <1>5, <2>4 DEF PrintsLine
<1> QED BY <1>4, <1>5

LEMMA PrintCharStep ==
    ASSUME ShellInv, PrintChar
    PROVE  ShellInv'
<1>1. /\ stage = "print" /\ out # <<>> /\ stage' = stage /\ then' = then /\ i' = i
      /\ buffer' = buffer /\ history' = history /\ clean' = clean
      /\ fb' = PutChar(fb, Head(out)) /\ out' = Tail(out)
  BY DEF PrintChar, line
<1>2. Ok(fb') /\ (Head(out) = "\n" => fb'.x = 0)
  BY <1>1, CharKeeps DEF ShellInv, ShellType
<1>3. ShellType'
  BY <1>1, <1>2 DEF ShellInv, ShellType
<1>4. ColumnInv'
  <2>1. ASSUME then # "swap" PROVE PrintsLine(out') /\ (out' = <<>> => fb'.x = 0)
    <3>1. PrintsLine(out)
      BY <1>1, <2>1 DEF ShellInv, ColumnInv
    <3> QED BY <1>1, <1>2, <3>1, TailPrints
  <2> QED BY <1>1, <2>1 DEF ColumnInv
<1>5. EditInv'
  <2>1. ASSUME clean, then = "swap"
        PROVE  out' = <<>> /\ i = 0 /\ Edited(fb', buffer, 0)
    <3>1. i = 0 /\ fb.x = 0 /\ out = <<PromptChar>>
      BY <1>1, <2>1 DEF ShellInv, EditInv, Prompting
    <3>2. PICK c : c = PromptChar
      OBVIOUS
    <3>3. Head(<<c>>) = c /\ Tail(<<c>>) = <<>>
      OBVIOUS
    <3>4. fb' = PutChar(fb, PromptChar) /\ out' = <<>>
      BY <1>1, <3>1, <3>2, <3>3
    <3>5. Edited(PutChar(fb, PromptChar), buffer, 0)
      BY <3>1, PromptDrawn DEF ShellInv, ShellType
    <3> QED BY <3>1, <3>4, <3>5
  <2> QED BY <1>1, <2>1 DEF EditInv
<1> QED BY <1>3, <1>4, <1>5 DEF ShellInv

LEMMA PrintedStep ==
    ASSUME ShellInv, Printed
    PROVE  ShellInv'
<1>1. /\ stage = "print" /\ out = <<>> /\ stage' = then /\ then' = then /\ i' = i /\ out' = out
      /\ buffer' = buffer /\ history' = history /\ clean' = clean /\ fb' = fb
  BY DEF Printed, line, printing
<1>2. ShellType'
  BY <1>1 DEF ShellInv, ShellType
<1>3. then \in {"swap", "prompt", "sleep", "stopped"}
  BY DEF ShellInv, ShellType
<1>4. ColumnInv'
  BY <1>1, <1>3 DEF ShellInv, ColumnInv
<1>5. EditInv'
  <2>1. out # <<PromptChar>>
    <3>1. PICK c : c = PromptChar
      OBVIOUS
    <3>2. <<c>> # <<>>
      OBVIOUS
    <3> QED BY <1>1, <3>1, <3>2
  <2> QED BY <1>1, <1>3, <2>1 DEF ShellInv, EditInv, Prompting
<1> QED BY <1>2, <1>4, <1>5 DEF ShellInv

LEMMA SwappedEdited ==
    ASSUME NEW f, Ok(f), NEW buf, NEW n, Edited(f, buf, n)
    PROVE  Edited(Swap(f), buf, n)
BY SwapKeeps DEF Edited, LineAt, CursorIs

LEMMA SwapStep ==
    ASSUME ShellInv, SwapFramebuffer \/ WaitSwap
    PROVE  ShellInv'
<1>1. /\ stage \in {"swap", "key"} /\ stage' = "key" /\ then' = then /\ i' = i /\ buffer' = buffer
      /\ history' = history /\ clean' = clean /\ fb' = Swap(fb)
  BY DEF SwapFramebuffer, WaitSwap, line, printing
<1>2. Ok(fb) /\ Ok(fb')
  BY <1>1, SwapKeeps DEF ShellInv, ShellType
<1>3. ShellType'
  BY <1>1, <1>2 DEF ShellInv, ShellType
<1>4. ColumnInv'
  BY <1>1 DEF ColumnInv
<1>5. clean => Edited(fb', buffer, i)
  BY <1>1, <1>2, SwappedEdited DEF ShellInv, EditInv
<1>6. EditInv'
  BY <1>1, <1>5 DEF EditInv
<1> QED BY <1>3, <1>4, <1>6 DEF ShellInv

LEMMA SleepStep ==
    ASSUME ShellInv, SleepBegin \/ SleepEnd
    PROVE  ShellInv'
<1>1. /\ stage \in {"sleep", "asleep"} /\ stage' \in {"asleep", "forever", "prompt"}
      /\ then' = then /\ i' = i /\ buffer' = buffer /\ history' = history
      /\ fb' = Swap(fb) \/ fb' = fb
  BY DEF SleepBegin, SleepEnd, line, printing
<1>2. Ok(fb') /\ fb'.x = 0
  <2>1. Ok(fb) /\ fb.x = 0
    BY <1>1 DEF ShellInv, ShellType, ColumnInv
  <2> QED BY <1>1, <2>1, SwapKeeps
<1>3. ShellType'
  BY <1>1, <1>2 DEF ShellInv, ShellType
<1>4. ColumnInv'
  BY <1>1, <1>2 DEF ColumnInv
<1>6. EditInv'
  BY <1>1 DEF EditInv
<1> QED BY <1>3, <1>4, <1>6 DEF ShellInv

LEMMA PromptStep ==
    ASSUME ShellInv, Prompt
    PROVE  ShellInv'
<1>1. /\ stage = "prompt" /\ stage' = "print" /\ then' = "swap" /\ i' = 0 /\ buffer' = buffer
      /\ fb' = fb /\ out' = <<PromptChar>>
      /\ history' = Append(history, buffer) \/ history' = history
  BY PromptPrinted DEF Prompt, Printf
<1>2. Ok(fb) /\ fb.x = 0 /\ buffer \in Buffers /\ history \in Seq(Buffers)
  BY <1>1 DEF ShellInv, ShellType, ColumnInv
<1>3. history' \in Seq(Buffers)
  BY <1>1, <1>2
<1>4. ShellType'
  BY <1>1, <1>2, <1>3 DEF ShellType
<1>5. ColumnInv'
  BY <1>1 DEF ColumnInv
<1>6. EditInv'
  BY <1>1, <1>2 DEF EditInv, Prompting
<1> QED BY <1>4, <1>5, <1>6 DEF ShellInv

LEMMA LogStep ==
    ASSUME ShellInv, InterruptLogs
    PROVE  ShellInv'
<1>1. /\ stage' = stage /\ then' = then /\ i' = i /\ buffer' = buffer /\ out' = out
      /\ fb' = Log(fb, <<"l">>, <<>>) /\ history' = history /\ ~clean'
  BY DEF InterruptLogs, line, printing
<1>2. Ok(fb') /\ fb'.x = 0
  <2>1. PICK c : c = "l"
    OBVIOUS
  <2>2. c \notin {"%", "&"}
    BY <2>1
  <2>3. Ok(Log(fb, <<c>>, <<>>)) /\ Log(fb, <<c>>, <<>>).x = 0
    BY <2>2, LogKeeps DEF ShellInv, ShellType
  <2> QED BY <1>1, <2>1, <2>3
<1>3. ShellType'
  BY <1>1, <1>2 DEF ShellInv, ShellType
<1>4. ColumnInv'
  BY <1>1, <1>2 DEF ShellInv, ColumnInv
<1>5. EditInv'
  BY <1>1 DEF EditInv
<1> QED BY <1>3, <1>4, <1>5 DEF ShellInv

LEMMA ChessStep ==
    ASSUME ShellInv, Chess
    PROVE  ShellInv'
<1>1. /\ stage' = "chess" /\ then' = then /\ i' = i /\ buffer' = buffer
      /\ fb' = ChessFrame(fb) /\ history' = history
  BY DEF Chess, line, printing
<1>2. Ok(fb')
  BY <1>1, ChessKeeps DEF ShellInv, ShellType
<1>3. ShellType'
  BY <1>1, <1>2 DEF ShellInv, ShellType
<1> QED BY <1>1, <1>3 DEF ShellInv, ColumnInv, EditInv

(* A command begins at the beginning of a line and prints one, or logs.    *)
RunInv == ShellInv /\ stage = "run"
Kept == i' = i /\ buffer' = buffer /\ history' = history

LEMMA RunsInColumn == RunInv => fb.x = 0 /\ Ok(fb)
BY DEF RunInv, ShellInv, ShellType, ColumnInv

LEMMA PrintsStep ==
    ASSUME RunInv, Kept, fb' = fb, stage' = "print", then' \in {"prompt", "sleep", "stopped"},
           PrintsLine(out')
    PROVE  ShellInv'
<1>1. ShellType'
  BY DEF RunInv, ShellInv, ShellType, Kept
<1>2. ColumnInv'
  BY RunsInColumn DEF ColumnInv
<1>3. EditInv'
  BY DEF EditInv
<1> QED BY <1>1, <1>2, <1>3 DEF ShellInv

LEMMA EndsStep ==
    ASSUME RunInv, Kept, Ok(fb'), fb'.x = 0, stage' \in {"prompt", "stopped", "chess"}, then' = then
    PROVE  ShellInv'
<1>1. ShellType'
  BY DEF RunInv, ShellInv, ShellType, Kept
<1>2. ColumnInv'
  BY DEF ColumnInv
<1>3. EditInv'
  BY DEF EditInv
<1> QED BY <1>1, <1>2, <1>3 DEF ShellInv

LEMMA RunStep ==
    ASSUME ShellInv, RunCommand
    PROVE  ShellInv'
<1>1. stage = "run" /\ Kept
  BY DEF RunCommand, PrintCommand, NothingCommand, KernelCommand, ListCommand, ClearCommand,
         PoweroffCommand, SleepCommand, ChessCommand, UnknownCommand, Running, Kept, line
<1>2. RunInv /\ Ok(fb) /\ fb.x = 0
  BY <1>1, RunsInColumn DEF RunInv
<1>3. CASE PrintCommand
  <2>1. fb' = fb /\ stage' = "print" /\ then' = "prompt" /\ PrintsLine(out')
    BY <1>3, PrintPrints DEF PrintCommand, Printf
  <2> QED BY <1>1, <1>2, <2>1, PrintsStep
<1>4. CASE NothingCommand \/ ClearCommand \/ ChessCommand
  <2>1. fb' = fb /\ then' = then /\ stage' \in {"prompt", "stopped", "chess"}
    BY <1>4 DEF NothingCommand, ClearCommand, ChessCommand, printing
  <2> QED BY <1>1, <1>2, <2>1, EndsStep
<1>5. CASE KernelCommand \/ ListCommand
  <2>1. PICK c : c = "k"
    OBVIOUS
  <2>2. c \notin {"%", "&"}
    BY <2>1
  <2>3. Ok(Log(fb, <<c>>, <<>>)) /\ Log(fb, <<c>>, <<>>).x = 0
    BY <1>2, <2>2, LogKeeps
  <2>4. fb' \in {fb, Log(fb, <<c>>, <<>>)} /\ then' = then /\ stage' \in {"prompt", "stopped", "chess"}
    BY <1>5, <2>1 DEF KernelCommand, ListCommand, printing
  <2>5. Ok(fb') /\ fb'.x = 0
    BY <1>2, <2>3, <2>4
  <2> QED BY <1>1, <1>2, <2>4, <2>5, EndsStep
<1>6. CASE PoweroffCommand
  <2>1. fb' = fb /\ stage' = "print" /\ then' \in {"prompt", "sleep", "stopped"} /\ PrintsLine(out')
    BY <1>6, PoweroffPrints DEF PoweroffCommand, Printf
  <2> QED BY <1>1, <1>2, <2>1, PrintsStep
<1>7. CASE SleepCommand
  <2>1. PICK time, S : time = ToStr(SleepTime[1], LongBits) /\ time \in Seq(S)
    <3>1. PICK v, w : v = SleepTime[1] /\ w = LongBits
      OBVIOUS
    <3> QED BY <3>1, ToStrTyped
  <2>2. \/ Printf(<<"&", "7", "u", "\n">>, <<>>, "prompt")
        \/ Printf(<<"%", "l", "\n">>, <<time>>, "sleep")
    BY <1>7, <2>1 DEF SleepCommand
  <2>3. PrintsLine(Format(<<"%", "l", "\n">>, <<time>>))
    BY <2>1, TimePrints
  <2>4. stage' = "print" /\ then' \in {"prompt", "sleep", "stopped"} /\ PrintsLine(out')
    BY <2>2, <2>3, UsagePrints DEF Printf
  <2>5. fb' = fb
    BY <1>7 DEF SleepCommand
  <2> QED BY <1>1, <1>2, <2>4, <2>5, PrintsStep
<1>8. CASE UnknownCommand
  <2>1. PICK text \in Seq(Letters) : text = CString(buffer, 0)
    <3>1. PICK k \in Nat : k = 0
      OBVIOUS
    <3>2. buffer \in Buffers
      BY DEF ShellInv, ShellType
    <3>3. CString(buffer, k) \in Seq(Letters)
      BY <3>2, CStringIs
    <3> QED BY <3>1, <3>3
  <2>2. PrintsLine(Format(<<"&", "7", "?", "&", "c", "%", "s", " ", "\n">>, <<text>>))
    BY UnknownPrints
  <2>3. fb' = fb /\ stage' = "print" /\ then' \in {"prompt", "sleep", "stopped"} /\ PrintsLine(out')
    BY <1>8, <2>1, <2>2 DEF UnknownCommand, Printf
  <2> QED BY <1>1, <1>2, <2>3, PrintsStep
<1> QED BY <1>3, <1>4, <1>5, <1>6, <1>7, <1>8 DEF RunCommand

(* The keys. *)

LEMMA BackspaceStep ==
    ASSUME ShellInv, BackspaceKey
    PROVE  ShellInv'
<1>1. /\ stage = "key" /\ stage' = "swap" /\ then' = then /\ history' = history /\ clean' = clean
  BY DEF BackspaceKey, Key, printing
<1>2. Ok(fb) /\ buffer \in Buffers /\ i \in Nat
  BY DEF ShellInv, ShellType
<1>3. clean => Edited(fb, buffer, i)
  BY <1>1 DEF ShellInv, EditInv
<1>4. CASE i = 0
  <2>1. fb' = fb /\ i' = i /\ buffer' = buffer
    BY <1>4 DEF BackspaceKey, line
  <2> QED BY <1>1, <1>3, <2>1 DEF ShellInv, ShellType, ColumnInv, EditInv
<1>5. CASE i # 0
  <2>1. /\ fb' = PutChar(fb, "bs") /\ i' = i - 1
        /\ buffer' = IF i - 1 < BufSize THEN [buffer EXCEPT ![i - 1] = NUL] ELSE buffer
    BY <1>5 DEF BackspaceKey
  <2>2. PICK n \in Nat : n = i /\ n > 0
    BY <1>2, <1>5
  <2>3. Ok(fb')
    BY <1>2, <2>1, CharKeeps
  <2>4. buffer' \in Buffers
    <3>1. NUL \in Letters
      BY DEF Letters
    <3> QED BY <1>2, <2>1, <3>1 DEF Buffers
  <2>5. ShellType'
    BY <1>1, <2>1, <2>2, <2>3, <2>4 DEF ShellInv, ShellType
  <2>6. ASSUME clean PROVE Edited(fb', buffer', i')
    <3>1. Edited(fb, buffer, n)
      BY <1>3, <2>2, <2>6
    <3>2. Edited(PutChar(fb, "bs"), [buffer EXCEPT ![n - 1] = NUL], n - 1)
      BY <1>2, <2>2, <3>1, BackspaceInLine
    <3>3. n < BufSize
      BY <3>1 DEF Edited, LineAt
    <3>4. n - 1 < BufSize
      BY <3>3, ShellAssumption
    <3> QED BY <2>1, <2>2, <3>2, <3>4
  <2> QED BY <1>1, <2>5, <2>6 DEF ShellInv, ColumnInv, EditInv
<1> QED BY <1>4, <1>5

LEMMA CharStep ==
    ASSUME ShellInv, NEW c \in Chars \cup {"\n"}, CharKey(c)
    PROVE  ShellInv'
<1>1. /\ stage = "key" /\ stage' = "swap" /\ then' = then /\ history' = history
  BY DEF CharKey, Key, printing
<1>2. Ok(fb) /\ buffer \in Buffers /\ i \in Nat
  BY DEF ShellInv, ShellType
<1>3. clean => Edited(fb, buffer, i)
  BY <1>1 DEF ShellInv, EditInv
<1>4. CASE i >= BufSize - 1
  <2>1. fb' = fb /\ i' = i /\ buffer' = buffer /\ clean' = clean
    BY <1>4 DEF CharKey, line
  <2> QED BY <1>1, <1>3, <2>1 DEF ShellInv, ShellType, ColumnInv, EditInv
<1>5. CASE ~(i >= BufSize - 1)
  <2>1. /\ fb' = PutChar(fb, c) /\ buffer' = [buffer EXCEPT ![i] = c]
        /\ i' = IF c = "\t" THEN i + TabSize ELSE i + 1
        /\ clean' = (clean /\ c \notin {"\t", "\n"})
    BY <1>5 DEF CharKey
  <2>2. PICK n \in Nat : n = i /\ n + 1 < BufSize
    BY <1>2, <1>5, ShellAssumption
  <2>3. Ok(fb')
    BY <1>2, <2>1, CharKeeps
  <2>4. buffer' \in Buffers
    <3>1. c \in Letters
      BY DEF Letters
    <3> QED BY <1>2, <2>1, <3>1 DEF Buffers
  <2>7. i' \in Nat
    BY <1>2, <2>1 DEF TabSize
  <2>5. ShellType'
    BY <1>1, <2>3, <2>4, <2>7 DEF ShellInv, ShellType
  <2>6. ASSUME clean, c \notin {"\t", "\n"} PROVE Edited(fb', buffer', i')
    <3>1. Edited(fb, buffer, n)
      BY <1>3, <2>2, <2>6
    <3>2. c \notin {"\t", "\n", "bs"}
      <4>1. "bs" \notin Chars
        BY CharsAssumption
      <4>2. "bs" # "\n"
        OBVIOUS
      <4> QED BY <2>6, <4>1, <4>2
    <3>3. Edited(PutChar(fb, c), [buffer EXCEPT ![n] = c], n + 1)
      BY <1>2, <2>2, <3>1, <3>2, CharInLine
    <3>4. i' = n + 1
      BY <2>1, <2>2, <2>6
    <3> QED BY <2>1, <2>2, <3>3, <3>4
  <2> QED BY <1>1, <2>1, <2>5, <2>6 DEF ShellInv, ColumnInv, EditInv
<1> QED BY <1>4, <1>5

LEMMA UpStep ==
    ASSUME ShellInv, UpKey
    PROVE  ShellInv'
<1>1. PICK recalled : /\ recalled = IF history = <<>> THEN [k \in 0..BufSize - 1 |-> NUL]
                                    ELSE Head(history)
                      /\ buffer' = Memmove(recalled, 0, 0, BufSize)
  BY DEF UpKey
<1>2. /\ fb' = fb /\ i' = i /\ stage' = "print" /\ then' = "swap" /\ ~clean'
      /\ history' = IF history = <<>> THEN history ELSE Tail(history)
  BY DEF UpKey, Printf
<1>3. Ok(fb) /\ i \in Nat /\ history \in Seq(Buffers)
  BY DEF ShellInv, ShellType
<1>4. recalled \in Buffers
  BY <1>1, <1>3, NoneIsBuffer
<1>5. buffer' \in Buffers
  <2>1. DOMAIN recalled = 0..BufSize - 1 /\ \A a \in 0..BufSize - 1 : recalled[0 + a - 0] \in Letters
    <3>1. \A a \in 0..BufSize - 1 : 0 + a - 0 = a
      OBVIOUS
    <3> HIDE DEF Letters
    <3> QED BY <1>4, <3>1 DEF Buffers
  <2>2. buffer' = [a \in 0..BufSize - 1 |-> IF a \in 0..0 + BufSize - 1 THEN recalled[0 + a - 0] ELSE recalled[a]]
    BY <1>1, <2>1 DEF Memmove
  <2>3. \A a \in 0..BufSize - 1 : recalled[a] \in Letters
    BY <1>4 DEF Buffers
  <2> HIDE DEF Letters
  <2> QED BY <2>1, <2>2, <2>3 DEF Buffers
<1>6. history' \in Seq(Buffers)
  <2>1. history # <<>> => Tail(history) \in Seq(Buffers)
    BY <1>3
  <2> QED BY <1>2, <1>3, <2>1
<1>7. ShellType'
  BY <1>2, <1>3, <1>5, <1>6 DEF ShellType
<1> QED BY <1>2, <1>7 DEF ShellInv, ColumnInv, EditInv

LEMMA OtherStep ==
    ASSUME ShellInv, OtherKey
    PROVE  ShellInv'
<1>1. /\ stage = "key" /\ stage' = "swap" /\ then' = then /\ history' = history /\ clean' = clean
      /\ fb' = fb /\ i' = i /\ buffer' = buffer
  BY DEF OtherKey, Key, printing, line
<1> QED BY <1>1 DEF ShellInv, ShellType, ColumnInv, EditInv

LEMMA EnterStep ==
    ASSUME ShellInv, EnterKey
    PROVE  ShellInv'
<1>1. /\ then' = then /\ history' = history /\ i' = i /\ stage' \in {"run", "corrupt"}
      /\ fb' = PutChar(fb, "\n")
      /\ buffer' = buffer \/ buffer' = Split([buffer EXCEPT ![i] = NUL], 0)
  BY DEF EnterKey, printing
<1>2. Ok(fb') /\ fb'.x = 0
  BY <1>1, CharKeeps DEF ShellInv, ShellType
<1>3. buffer' \in Buffers
  <2>1. buffer \in Buffers /\ NUL \in Letters
    BY DEF ShellInv, ShellType, Letters
  <2>2. PICK ended \in Buffers : ended = [buffer EXCEPT ![i] = NUL]
    BY <2>1 DEF Buffers
  <2>3. Split(ended, 0) \in Buffers
    BY SplitTyped
  <2> QED BY <1>1, <2>1, <2>2, <2>3
<1>4. ShellType'
  BY <1>1, <1>2, <1>3 DEF ShellInv, ShellType
<1> QED BY <1>1, <1>2, <1>4 DEF ShellInv, ColumnInv, EditInv

LEMMA KeyChars ==
    ASSUME NEW key \in DOMAIN build_ascii_map \ {"backspace", "enter"}
    PROVE  to_char(key) \in Chars \cup {"\n"}
<1>1. key \in Chars \cup {"kp_enter"} /\ key # "backspace" /\ key # "enter"
  BY DEF build_ascii_map
<1>2. build_ascii_map[key] \in Chars \cup {"\n"}
  BY <1>1 DEF build_ascii_map
<1> QED BY <1>2 DEF to_char

LEMMA ShellNextInv == ShellInv /\ [ShellNext]_shellVars => ShellInv'
<1>1. SUFFICES ASSUME ShellInv, [ShellNext]_shellVars PROVE ShellInv'
  OBVIOUS
<1>2. CASE Keyboard
  <2>1. CASE \E key \in DOMAIN build_ascii_map \ {"backspace", "enter"} : CharKey(to_char(key))
    <3>1. PICK key \in DOMAIN build_ascii_map \ {"backspace", "enter"} : CharKey(to_char(key))
      BY <2>1
    <3> QED BY <1>1, <3>1, KeyChars, CharStep
  <2> QED BY <1>1, <1>2, <2>1, BackspaceStep, EnterStep, UpStep, OtherStep DEF Keyboard
<1>3. CASE ShellStep
  BY <1>1, <1>3, PrintCharStep, PrintedStep, SwapStep, RunStep, ChessStep, SleepStep, PromptStep
     DEF ShellStep
<1>4. CASE WaitSwap
  BY <1>1, <1>4, SwapStep
<1>5. CASE InterruptLogs
  BY <1>1, <1>5, LogStep
<1>6. CASE UNCHANGED shellVars
  BY <1>1, <1>6 DEF shellVars, printing, line, ShellInv, ShellType, ColumnInv, EditInv, Prompting
<1> QED BY <1>1, <1>2, <1>3, <1>4, <1>5, <1>6 DEF ShellNext

LEMMA ShellInvariant == ShellSpec => []ShellInv
BY ShellInitInv, ShellNextInv, PTL DEF ShellSpec

(* As long as no log, tab, keypad ENTER or recall has come between, the    *)
(* screen shows the prompt and behind it, up to the cursor, the line that  *)
(* ENTER will run (user_space_main and framebuffer::put_char), on a screen *)
(* of any size that holds a line, also where the line wraps, scrolls the   *)
(* screen or is rubbed out over the end of a row.                          *)
THEOREM LineShownTheorem == ShellSpec => []LineShown
BY ShellInvariant, InvShows, PTL

----------------------------------------------------------------------------
(* The words of a line.  From k on the text has no NUL but at n.           *)
TailIs(text, n, k) ==
    /\ n < BufSize /\ k <= n /\ text[n] = NUL
    /\ \A j \in Nat : k <= j /\ j < n => text[j] # NUL

WordEnd(text, n, k, e) ==
    /\ e = SkipWord(text, k) /\ k <= e /\ e <= n /\ text[e] \in {NUL, Space}
    /\ (text[e] = NUL => e = n) /\ At(text, e) = text[e]
    /\ \A j \in Nat : k <= j /\ j < e => text[j] \notin {NUL, Space}
SpacesEnd(text, n, k, e) ==
    /\ e = SkipSpaces(text, k) /\ k <= e /\ e <= n /\ text[e] # Space
    /\ (text[e] = NUL => e = n) /\ At(text, e) = text[e]
    /\ \A j \in Nat : k <= j /\ j < e => text[j] = Space

LEMMA WordEndIs ==
    ASSUME NEW text \in Buffers, NEW n \in Nat, NEW k \in Nat, TailIs(text, n, k)
    PROVE  \E e \in Nat : WordEnd(text, n, k, e)
<1>1. BufSize \in Nat /\ \A j \in Nat : j < BufSize => At(text, j) = text[j]
  BY PlacesAre
<1>2. PICK e \in Nat : WordEndsAt(text, k, e)
  BY SkipWordIs
<1>3. n < BufSize /\ k <= n /\ text[n] = NUL /\ \A j \in Nat : k <= j /\ j < n => text[j] # NUL
  BY DEF TailIs
<1>4. e <= n
  <2>1. SUFFICES ASSUME n < e PROVE FALSE
    OBVIOUS
  <2>2. At(text, n) # NUL
    BY <1>2, <1>3, <2>1 DEF WordEndsAt
  <2> QED BY <1>1, <1>3, <2>2
<1>5. \A j \in Nat : j <= n => At(text, j) = text[j]
  BY <1>1, <1>3
<1>6. ASSUME NEW j \in Nat, k <= j, j < e PROVE text[j] \notin {NUL, Space}
  <2>1. At(text, j) = text[j]
    BY <1>4, <1>5, <1>6
  <2> QED BY <1>2, <1>6, <2>1 DEF WordEndsAt
<1>7. At(text, e) = text[e] /\ text[e] \in {NUL, Space} /\ k <= e /\ e = SkipWord(text, k)
  BY <1>2, <1>4, <1>5 DEF WordEndsAt
<1>8. text[e] = NUL => e = n
  BY <1>3, <1>4, <1>7
<1> QED BY <1>4, <1>6, <1>7, <1>8 DEF WordEnd

LEMMA SpacesEndIs ==
    ASSUME NEW text \in Buffers, NEW n \in Nat, NEW k \in Nat, TailIs(text, n, k)
    PROVE  \E e \in Nat : SpacesEnd(text, n, k, e)
<1>1. BufSize \in Nat /\ \A j \in Nat : j < BufSize => At(text, j) = text[j]
  BY PlacesAre
<1>2. PICK e \in Nat : SpacesEndAt(text, k, e)
  BY SkipSpacesIs
<1>3. n < BufSize /\ k <= n /\ text[n] = NUL /\ \A j \in Nat : k <= j /\ j < n => text[j] # NUL
  BY DEF TailIs
<1>9. NUL # Space
  BY DEF NUL, Space
<1>4. e <= n
  <2>1. SUFFICES ASSUME n < e PROVE FALSE
    OBVIOUS
  <2>2. At(text, n) = Space
    BY <1>2, <1>3, <2>1 DEF SpacesEndAt
  <2> QED BY <1>1, <1>3, <1>9, <2>2
<1>5. \A j \in Nat : j <= n => At(text, j) = text[j]
  BY <1>1, <1>3
<1>6. ASSUME NEW j \in Nat, k <= j, j < e PROVE text[j] = Space
  <2>1. At(text, j) = text[j]
    BY <1>4, <1>5, <1>6
  <2> QED BY <1>2, <1>6, <2>1 DEF SpacesEndAt
<1>7. At(text, e) = text[e] /\ text[e] # Space /\ k <= e /\ e = SkipSpaces(text, k)
  BY <1>2, <1>4, <1>5 DEF SpacesEndAt
<1>8. text[e] = NUL => e = n
  BY <1>3, <1>4, <1>7
<1> QED BY <1>4, <1>6, <1>7, <1>8 DEF SpacesEnd

(* What is so at first and stays so from each to the next is so at last.   *)
Climbs(P, n) == 0 \in P /\ \A k \in 1..n : k - 1 \in P => k \in P

LEMMA Reaches ==
    ASSUME NEW n \in Nat, NEW P, Climbs(P, n)
    PROVE  n \in P
<1> DEFINE Wrong == (0..n) \ P
<1>1. SUFFICES ASSUME Wrong # {} PROVE FALSE
  <2>1. n \in 0..n
    OBVIOUS
  <2> QED BY <1>1, <2>1
<1>2. PICK m \in Wrong : \A k \in Wrong : m <= k
  <2>1. Wrong \subseteq Nat
    OBVIOUS
  <2> HIDE DEF Wrong
  <2> QED BY <1>1, <2>1, Least
<1>3. m \in 0..n /\ m \notin P
  BY <1>2
<1>4. m # 0
  BY <1>3 DEF Climbs
<1>5. m \in 1..n /\ m - 1 \in 0..n /\ m - 1 \notin Wrong
  BY <1>2, <1>3, <1>4
<1>6. m - 1 \in P
  BY <1>5
<1> QED BY <1>3, <1>5, <1>6 DEF Climbs

(* Where the words begin. *)
IsStart(text, b) == text[b] # Space /\ (b = 0 \/ text[b - 1] = Space)
Starts(text, n) == {b \in 0..n - 1 : IsStart(text, b)}
Before(text, n, k) == {b \in Starts(text, n) : b < k}

LEMMA StartsFinite ==
    ASSUME NEW text, NEW n \in Nat, NEW k
    PROVE  /\ IsFiniteSet(Starts(text, n)) /\ IsFiniteSet(Before(text, n, k))
           /\ Cardinality(Before(text, n, k)) \in Nat
<1>1. IsFiniteSet(0..n - 1)
  BY FS_Interval
<1>2. Starts(text, n) \subseteq 0..n - 1 /\ Before(text, n, k) \subseteq 0..n - 1
  BY DEF Starts, Before
<1>3. IsFiniteSet(Starts(text, n)) /\ IsFiniteSet(Before(text, n, k))
  <2> HIDE DEF Starts, Before
  <2> QED BY <1>1, <1>2, FS_Subset
<1> QED BY <1>3, FS_CardinalityType

(* The first word from k, if k is not inside one, and what the next begins *)
(* behind.                                                                 *)
LEMMA NextStart ==
    ASSUME NEW text \in Buffers, NEW n \in Nat, NEW k \in Nat, TailIs(text, n, 0), k <= n,
           k = 0 \/ text[k] \in {NUL, Space},
           NEW from \in Nat, SpacesEnd(text, n, k, from)
    PROVE  /\ Before(text, n, from) = Before(text, n, k)
           /\ text[from] = NUL => Starts(text, n) = Before(text, n, k)
           /\ text[from] # NUL =>
                /\ from \in Starts(text, n) /\ from \notin Before(text, n, k)
                /\ \A e \in Nat : WordEnd(text, n, from, e) =>
                     from < e /\ Before(text, n, e) = Before(text, n, k) \cup {from}
<1>1. k <= from /\ from <= n /\ text[from] # Space /\ (text[from] = NUL => from = n)
  BY DEF SpacesEnd
<1>2. ASSUME NEW b \in Starts(text, n), b < from PROVE b < k
  <2>1. b \in Nat /\ text[b] # Space
    BY DEF Starts, IsStart
  <2> QED BY <1>2, <2>1 DEF SpacesEnd
<1>3. \A b \in Starts(text, n) : b \in Nat /\ b < n
  BY DEF Starts
<1>4. Before(text, n, from) = Before(text, n, k)
  BY <1>1, <1>2, <1>3 DEF Before
<1>5. ASSUME text[from] = NUL PROVE Starts(text, n) = Before(text, n, k)
  <2>1. Starts(text, n) = Before(text, n, from)
    BY <1>1, <1>3, <1>5 DEF Before
  <2> QED BY <1>4, <2>1
<1>6. ASSUME text[from] # NUL
      PROVE  /\ from \in Starts(text, n) /\ from \notin Before(text, n, k)
             /\ \A e \in Nat : WordEnd(text, n, from, e) =>
                  from < e /\ Before(text, n, e) = Before(text, n, k) \cup {from}
  <2>1. from < n
    <3>1. text[n] = NUL
      BY DEF TailIs
    <3> QED BY <1>1, <1>6, <3>1
  <2>2. from = 0 \/ text[from - 1] = Space
    <3>1. CASE from = k
      BY <1>1, <1>6, <3>1
    <3>2. CASE from # k
      <4>1. from - 1 \in Nat /\ k <= from - 1 /\ from - 1 < from
        BY <1>1, <3>2
      <4> QED BY <4>1 DEF SpacesEnd
    <3> QED BY <3>1, <3>2
  <2>3. from \in Starts(text, n)
    BY <1>1, <2>1, <2>2 DEF Starts, IsStart
  <2>4. from \notin Before(text, n, k)
    BY <1>1 DEF Before
  <2>5. ASSUME NEW e \in Nat, WordEnd(text, n, from, e)
        PROVE  from < e /\ Before(text, n, e) = Before(text, n, k) \cup {from}
    <3>1. from <= e /\ text[e] \in {NUL, Space}
      BY <2>5 DEF WordEnd
    <3>2. from < e
      BY <1>1, <1>6, <3>1
    <3>3. ASSUME NEW b \in Starts(text, n), b < e, ~(b < from), b # from PROVE FALSE
      <4>1. b \in Nat /\ b # 0 /\ text[b - 1] = Space
        BY <1>3, <3>3 DEF Starts, IsStart
      <4>2. b - 1 \in Nat /\ from <= b - 1 /\ b - 1 < e
        BY <3>3, <4>1
      <4> QED BY <2>5, <4>1, <4>2 DEF WordEnd
    <3>5. ASSUME NEW b \in Starts(text, n) PROVE b < e <=> b < from \/ b = from
      <4>1. b \in Nat
        BY <1>3
      <4> QED BY <3>2, <3>3, <4>1
    <3>4. Before(text, n, e) = Before(text, n, from) \cup {from}
      BY <2>3, <3>5 DEF Before
    <3> QED BY <1>4, <3>2, <3>4
  <2> QED BY <2>3, <2>4, <2>5
<1> QED BY <1>4, <1>5, <1>6

(* The first loop finds the words in their order, one in each turn.        *)
Found1(text, n, found) ==
    \A a \in 1..Len(found) : found[a] \in Starts(text, n) /\ Cardinality(Before(text, n, found[a])) = a - 1
FindsTo(text, n, h) ==
    /\ h.at <= n /\ (h.at = 0 \/ text[h.at] \in {NUL, Space})
    /\ Cardinality(Before(text, n, h.at)) = Len(h.found)
    /\ Found1(text, n, h.found)
FindsAll(text, n, h) == Starts(text, n) = Before(text, n, h.at)

Finds == [at : Nat, found : Seq(Nat)]

LEMMA ArgsTurnIs ==
    ASSUME NEW buf \in Buffers, NEW h \in Finds
    PROVE  ArgsTurn(buf, h) \in Finds
<1>1. PICK k \in Nat, found \in Seq(Nat) : k = h.at /\ found = h.found
  BY DEF Finds
<1>2. PICK from \in Nat : from = SkipSpaces(buf, k)
  BY SkipSpacesIs DEF SpacesEndAt
<1>3. PICK e \in Nat : e = SkipWord(buf, from)
  BY SkipWordIs DEF WordEndsAt
<1>4. PICK more \in Seq(Nat) : more = Append(found, from)
  <2>1. Append(found, from) \in Seq(Nat)
    OBVIOUS
  <2> QED BY <2>1
<1>5. PICK t : t = [at |-> e, found |-> more]
  OBVIOUS
<1>6. t \in Finds
  BY <1>5 DEF Finds
<1>7. ArgsTurn(buf, h) = h \/ ArgsTurn(buf, h) = t
  BY <1>1, <1>2, <1>3, <1>4, <1>5 DEF ArgsTurn
<1> QED BY <1>6, <1>7

LEMMA TurnFinds ==
    ASSUME NEW text \in Buffers, NEW n \in Nat, TailIs(text, n, 0), NEW h \in Finds,
           FindsTo(text, n, h)
    PROVE  \E t \in Finds :
             /\ t = ArgsTurn(text, h) /\ FindsTo(text, n, t)
             /\ FindsAll(text, n, t) \/ t.at > h.at
             /\ FindsAll(text, n, h) => FindsAll(text, n, t)
<1>1. PICK k \in Nat, found \in Seq(Nat) : k = h.at /\ found = h.found
  BY DEF Finds
<1>2. /\ k <= n /\ (k = 0 \/ text[k] \in {NUL, Space})
      /\ Cardinality(Before(text, n, k)) = Len(found) /\ Found1(text, n, found)
  BY <1>1 DEF FindsTo
<1>3. TailIs(text, n, k)
  BY <1>2 DEF TailIs
<1>4. PICK from \in Nat : SpacesEnd(text, n, k, from)
  BY <1>3, SpacesEndIs
<1>5. from = SkipSpaces(text, h.at) /\ At(text, from) = text[from] /\ k <= from /\ from <= n
  BY <1>1, <1>4 DEF SpacesEnd
<1>6. CASE text[from] = NUL
  <2>1. ArgsTurn(text, h) = h
    BY <1>5, <1>6 DEF ArgsTurn
  <2>2. Starts(text, n) = Before(text, n, k)
    BY <1>2, <1>4, <1>6, NextStart
  <2> QED BY <1>1, <2>1, <2>2 DEF FindsAll
<1>7. CASE text[from] # NUL
  <2>1. TailIs(text, n, from)
    BY <1>3, <1>5 DEF TailIs
  <2>2. PICK e \in Nat : WordEnd(text, n, from, e)
    BY <2>1, WordEndIs
  <2>3. /\ Before(text, n, from) = Before(text, n, k)
        /\ from \in Starts(text, n) /\ from \notin Before(text, n, k)
        /\ from < e /\ Before(text, n, e) = Before(text, n, k) \cup {from}
    BY <1>2, <1>4, <1>7, <2>2, NextStart
  <2>4. PICK more \in Seq(Nat) : more = Append(found, from)
    <3>1. Append(found, from) \in Seq(Nat)
      OBVIOUS
    <3> QED BY <3>1
  <2>5. PICK t : t = [at |-> e, found |-> more]
    OBVIOUS
  <2>6. t \in Finds /\ t.at = e /\ t.found = more
    BY <2>5 DEF Finds
  <2>7. ArgsTurn(text, h) = t
    BY <1>1, <1>5, <1>7, <2>2, <2>4, <2>5 DEF ArgsTurn, WordEnd
  <2>8. PICK m \in Nat : m = Len(found) /\ Len(more) = m + 1 /\ more[m + 1] = from
                         /\ \A a \in 1..m : more[a] = found[a]
    BY <2>4
  <2>9. Cardinality(Before(text, n, e)) = m + 1
    <3>1. IsFiniteSet(Before(text, n, k))
      BY StartsFinite
    <3>2. PICK X : X = Before(text, n, k)
      OBVIOUS
    <3>3. Cardinality(X \cup {from}) = Cardinality(X) + 1
      BY <2>3, <3>1, <3>2, FS_AddElement
    <3> QED BY <1>2, <2>3, <2>8, <3>2, <3>3
  <2>10. Found1(text, n, more)
    <3>1. ASSUME NEW a \in 1..m + 1
          PROVE  more[a] \in Starts(text, n) /\ Cardinality(Before(text, n, more[a])) = a - 1
      <4>1. CASE a = m + 1
        <5>1. a - 1 = m
          BY <4>1
        <5> QED BY <1>2, <2>3, <2>8, <4>1, <5>1
      <4>2. CASE a # m + 1
        <5>1. a \in 1..m
          BY <4>2
        <5> QED BY <1>2, <2>8, <5>1 DEF Found1
      <4> QED BY <4>1, <4>2
    <3> QED BY <2>8, <3>1 DEF Found1
  <2>11. FindsTo(text, n, t)
    <3>1. e <= n /\ text[e] \in {NUL, Space}
      BY <2>2 DEF WordEnd
    <3> QED BY <2>6, <2>8, <2>9, <2>10, <3>1 DEF FindsTo
  <2>12. t.at > h.at
    BY <1>1, <1>5, <2>3, <2>6
  <2>13. ~FindsAll(text, n, h)
    BY <1>1, <2>3 DEF FindsAll
  <2> QED BY <2>6, <2>7, <2>11, <2>12, <2>13
<1> QED BY <1>6, <1>7

LEMMA ArgsFromIs ==
    ASSUME NEW buf \in Buffers, NEW k \in Nat
    PROVE  \E g \in [0..BufSize -> Finds] :
             /\ g[0] = [at |-> k, found |-> <<>>]
             /\ \A n \in 1..BufSize : n - 1 \in 0..BufSize /\ g[n] = ArgsTurn(buf, g[n - 1])
             /\ ArgsFrom(buf, k) = g[BufSize].found
<1> DEFINE V == Finds
           E(h) == ArgsTurn(buf, h)
           v == [at |-> k, found |-> <<>>]
<1>1. BufSize \in Nat
  BY PlacesAre
<1>2. PICK m \in Nat : m = BufSize
  BY <1>1
<1>3. \A h \in V : E(h) \in V
  BY ArgsTurnIs
<1>4. PICK step \in [1..m -> [V -> V]] : step = [n \in 1..m |-> [h \in V |-> E(h)]]
  <2> HIDE DEF V, E
  <2> QED BY <1>3
<1>5. PICK g \in [0..m -> V] : Iterates(g, m, v, step)
  <2>1. v \in V
    BY DEF Finds
  <2> HIDE DEF V, E, v
  <2> QED BY <2>1, Iterated
<1>6. g[0] = v /\ \A n \in 1..m : n \in 0..m /\ n - 1 \in 0..m /\ g[n] = E(g[n - 1])
  <2> HIDE DEF V, E, v
  <2>1. ASSUME NEW n \in 1..m PROVE n \in 0..m /\ n - 1 \in 0..m /\ g[n] = E(g[n - 1])
    <3>1. n \in 0..m /\ n - 1 \in 0..m
      OBVIOUS
    <3>2. g[n - 1] \in V
      BY <3>1
    <3>3. step[n][g[n - 1]] = E(g[n - 1])
      BY <1>4, <3>2
    <3> QED BY <1>5, <3>1, <3>3 DEF Iterates
  <2> QED BY <1>5, <2>1 DEF Iterates
<1> DEFINE Is(a) == a = [n \in 0..m |-> IF n = 0 THEN v ELSE E(a[n - 1])]
           c == CHOOSE a : Is(a)
<1>7. ArgsFrom(buf, k) = c[m].found
  BY <1>2 DEF ArgsFrom
<1> HIDE DEF V, E, v
<1>8. Is(g)
  <2>1. \A n \in 0..m : g[n] = IF n = 0 THEN v ELSE E(g[n - 1])
    <3>1. \A n \in 0..m : n = 0 \/ n \in 1..m
      OBVIOUS
    <3> QED BY <1>6, <3>1
  <2>2. g = [n \in 0..m |-> g[n]]
    OBVIOUS
  <2> QED BY <2>1, <2>2
<1>9. Is(c)
  BY <1>8
<1> HIDE DEF c
<1>10. Copies(c, g, m)
  <2>1. 0 \in 0..m
    OBVIOUS
  <2>2. c[0] = v
    BY <1>9, <2>1
  <2>3. ASSUME NEW n \in 1..m, c[n - 1] = g[n - 1] PROVE c[n] = g[n]
    <3>1. n \in 0..m /\ n # 0
      OBVIOUS
    <3>2. c[n] = E(c[n - 1])
      BY <1>9, <3>1
    <3> QED BY <1>6, <2>3, <3>2
  <2> QED BY <1>6, <2>2, <2>3 DEF Copies
<1>11. c[m] = g[m]
  BY <1>10, Copied
<1> QED BY <1>2, <1>6, <1>7, <1>11 DEF V, E, v

(* The arguments: the words of the line, in their order.                   *)
LEMMA ArgsAre ==
    ASSUME NEW text \in Buffers, NEW n \in Nat, TailIs(text, n, 0)
    PROVE  \E words \in Seq(Nat) :
             /\ words = ArgsFrom(text, 0) /\ Found1(text, n, words)
             /\ Len(words) = Cardinality(Starts(text, n))
<1>1. BufSize \in Nat /\ n < BufSize
  BY PlacesAre DEF TailIs
<1>2. PICK k \in Nat : k = 0
  OBVIOUS
<1>3. PICK g \in [0..BufSize -> Finds] :
             /\ g[0] = [at |-> k, found |-> <<>>]
             /\ \A m \in 1..BufSize : m - 1 \in 0..BufSize /\ g[m] = ArgsTurn(text, g[m - 1])
             /\ ArgsFrom(text, k) = g[BufSize].found
  BY ArgsFromIs
<1> DEFINE P == {m \in 0..BufSize : FindsTo(text, n, g[m]) /\ (FindsAll(text, n, g[m]) \/ g[m].at >= m)}
<1>4. 0 \in P
  <2>1. 0 \in 0..BufSize
    BY <1>1
  <2>2. PICK none \in Seq(Nat) : none = <<>> /\ Len(none) = 0
    <3>1. <<>> \in Seq(Nat) /\ Len(<<>>) = 0
      OBVIOUS
    <3> QED BY <3>1
  <2>3. g[0].at = 0 /\ g[0].found = none
    BY <1>2, <1>3, <2>2
  <2>4. Before(text, n, 0) = {}
    <3>1. \A b \in Starts(text, n) : ~(b < 0)
      BY DEF Starts
    <3> QED BY <3>1 DEF Before
  <2>5. Cardinality({}) = 0
    BY FS_EmptySet
  <2>7. Found1(text, n, none)
    BY <2>2 DEF Found1
  <2>8. Cardinality(Before(text, n, 0)) = Len(none)
    BY <2>2, <2>4, <2>5
  <2>9. g[0].at <= n
    BY <2>3
  <2>6. FindsTo(text, n, g[0])
    BY <2>3, <2>7, <2>8, <2>9 DEF FindsTo
  <2> QED BY <2>1, <2>3, <2>6
<1>5. ASSUME NEW m \in 1..BufSize, m - 1 \in P PROVE m \in P
  <2>1. PICK h \in Finds : h = g[m - 1] /\ g[m] = ArgsTurn(text, h)
    BY <1>3
  <2>2. FindsTo(text, n, h) /\ (FindsAll(text, n, h) \/ h.at >= m - 1)
    BY <1>5, <2>1
  <2>3. PICK t \in Finds :
             /\ t = ArgsTurn(text, h) /\ FindsTo(text, n, t)
             /\ FindsAll(text, n, t) \/ t.at > h.at
             /\ FindsAll(text, n, h) => FindsAll(text, n, t)
    BY <2>2, TurnFinds
  <2>4. h.at \in Nat /\ t.at \in Nat
    BY DEF Finds
  <2>5. FindsAll(text, n, t) \/ t.at >= m
    BY <2>2, <2>3, <2>4
  <2>6. m \in 0..BufSize
    OBVIOUS
  <2> QED BY <2>1, <2>3, <2>5, <2>6
<1> HIDE DEF P
<1>6. Climbs(P, BufSize)
  BY <1>4, <1>5 DEF Climbs
<1>7. BufSize \in P
  BY <1>1, <1>6, Reaches
<1>8. PICK h \in Finds : h = g[BufSize]
  BY <1>1
<1>9. FindsTo(text, n, h) /\ (FindsAll(text, n, h) \/ h.at >= BufSize)
  BY <1>7, <1>8 DEF P
<1>10. FindsAll(text, n, h)
  <2>1. h.at \in Nat /\ h.at <= n
    BY <1>9 DEF FindsTo, Finds
  <2> QED BY <1>1, <1>9, <2>1
<1>11. PICK words \in Seq(Nat) : words = h.found
  BY DEF Finds
<1>12. Found1(text, n, words) /\ Len(words) = Cardinality(Starts(text, n))
  BY <1>9, <1>10, <1>11 DEF FindsTo, FindsAll
<1> QED BY <1>2, <1>3, <1>8, <1>11, <1>12

(* The second loop puts a NUL behind each word and changes no letter of    *)
(* one.                                                                    *)
CutsTo(text, n, h) ==
    /\ h.at <= n
    /\ \A j \in Nat : h.at <= j /\ j <= n => h.text[j] = text[j]
    /\ \A j \in Nat : j <= n /\ text[j] # Space => h.text[j] = text[j]
    /\ \A b \in Before(text, n, h.at) : \A e \in Nat : WordEnd(text, n, b, e) => h.text[e] = NUL
CutsAll(text, n, h) == \A b \in Starts(text, n) : \A e \in Nat : WordEnd(text, n, b, e) => h.text[e] = NUL

LEMMA TurnCuts ==
    ASSUME NEW text \in Buffers, NEW n \in Nat, TailIs(text, n, 0), NEW h \in Splits,
           CutsTo(text, n, h)
    PROVE  \E t \in Splits :
             /\ t = SplitTurn(h) /\ CutsTo(text, n, t)
             /\ CutsAll(text, n, t) \/ t.at > h.at
             /\ CutsAll(text, n, h) => CutsAll(text, n, t)
<1>1. PICK k \in Nat, now \in Buffers : k = h.at /\ now = h.text
  BY DEF Splits
<1>2. /\ k <= n
      /\ \A j \in Nat : k <= j /\ j <= n => now[j] = text[j]
      /\ \A j \in Nat : j <= n /\ text[j] # Space => now[j] = text[j]
      /\ \A b \in Before(text, n, k) : \A e \in Nat : WordEnd(text, n, b, e) => now[e] = NUL
  BY <1>1 DEF CutsTo
<1>15. n < BufSize /\ text[n] = NUL /\ \A j \in Nat : j < n => text[j] # NUL
  BY DEF TailIs
<1>3. TailIs(now, n, k)
  BY <1>2, <1>15 DEF TailIs
<1>4. PICK space \in Nat : WordEnd(now, n, k, space)
  BY <1>3, WordEndIs
<1>5. /\ space = SkipWord(now, k) /\ At(now, space) = now[space] /\ k <= space /\ space <= n
      /\ now[space] = text[space] /\ text[space] \in {NUL, Space}
      /\ (text[space] = NUL => space = n)
  BY <1>2, <1>4 DEF WordEnd
<1>6. \A j \in Nat : k <= j /\ j < space => text[j] \notin {NUL, Space}
  BY <1>2, <1>4, <1>5 DEF WordEnd
<1>13. \A b \in Starts(text, n) : b \in Nat /\ b < n /\ text[b] # Space
  BY DEF Starts, IsStart
(* The word that begins between k and the place found ends there.          *)
<1>14. ASSUME NEW b \in Starts(text, n), k <= b, b < space, NEW e \in Nat, WordEnd(text, n, b, e)
       PROVE  e = space
  <2>1. b <= e /\ text[e] \in {NUL, Space} /\ \A j \in Nat : b <= j /\ j < e => text[j] \notin {NUL, Space}
    BY <1>14 DEF WordEnd
  <2>2. ~(space < e)
    BY <1>5, <1>13, <1>14, <2>1
  <2>3. ~(e < space)
    BY <1>6, <1>13, <1>14, <2>1
  <2> QED BY <2>2, <2>3
<1>7. CASE text[space] = NUL
  <2>1. SplitTurn(h) = h
    BY <1>1, <1>5, <1>7 DEF SplitTurn
  <2>2. ASSUME NEW b \in Starts(text, n), NEW e \in Nat, WordEnd(text, n, b, e) PROVE now[e] = NUL
    <3>1. CASE b < k
      BY <1>2, <2>2, <3>1 DEF Before
    <3>2. CASE ~(b < k)
      <4>1. b < space
        BY <1>5, <1>7, <1>13
      <4>2. e = space
        BY <1>13, <1>14, <2>2, <3>2, <4>1
      <4> QED BY <1>5, <1>7, <4>2
    <3> QED BY <3>1, <3>2
  <2>3. CutsAll(text, n, h)
    BY <1>1, <2>2 DEF CutsAll
  <2> QED BY <2>1, <2>3
<1>8. CASE text[space] # NUL
  <2>1. text[space] = Space /\ space < n
    BY <1>5, <1>8, <1>15
  <2>2. PICK next \in Nat : next = space + 1
    OBVIOUS
  <2>3. TailIs(now, n, next)
    <3>1. next <= n /\ k <= next
      BY <1>5, <2>1, <2>2
    <3> QED BY <1>3, <3>1 DEF TailIs
  <2>4. PICK from \in Nat : SpacesEnd(now, n, next, from)
    BY <2>3, SpacesEndIs
  <2>5. PICK cut : cut = [now EXCEPT ![space] = NUL]
    OBVIOUS
  <2>6. cut \in Buffers /\ \A j \in Nat : j <= n => cut[j] = IF j = space THEN NUL ELSE now[j]
    <3>1. NUL \in Letters
      BY DEF Letters
    <3>2. BufSize \in Nat /\ DOMAIN now = 0..BufSize - 1
      BY PlacesAre DEF Buffers
    <3>3. \A j \in Nat : j <= n => j \in DOMAIN now
      BY <1>15, <3>2
    <3> QED BY <2>5, <3>1, <3>3 DEF Buffers
  <2>7. PICK t : t = [at |-> from, text |-> cut]
    OBVIOUS
  <2>8. t \in Splits /\ t.at = from /\ t.text = cut
    BY <2>6, <2>7 DEF Splits
  <2>9. SplitTurn(h) = t
    BY <1>1, <1>5, <1>8, <2>2, <2>4, <2>5, <2>7 DEF SplitTurn, SpacesEnd
  <2>10. space < from /\ from <= n
    BY <2>2, <2>4 DEF SpacesEnd
  <2>11. ASSUME NEW j \in Nat, from <= j, j <= n PROVE cut[j] = text[j]
    <3>1. j # space /\ k <= j
      BY <1>5, <2>10, <2>11
    <3> QED BY <1>2, <2>6, <2>11, <3>1
  <2>12. ASSUME NEW j \in Nat, j <= n, text[j] # Space PROVE cut[j] = text[j]
    <3>1. j # space
      BY <2>1, <2>12
    <3> QED BY <1>2, <2>6, <2>12, <3>1
  <2>13. ASSUME NEW e \in Nat, e <= n, now[e] = NUL PROVE cut[e] = NUL
    BY <2>6, <2>13
  <2>14. ASSUME NEW b \in Before(text, n, from), NEW e \in Nat, WordEnd(text, n, b, e) PROVE cut[e] = NUL
    <3>1. b \in Starts(text, n) /\ b < from /\ e <= n
      BY <2>14 DEF Before, WordEnd
    <3>2. CASE b < k
      <4>1. b \in Before(text, n, k)
        BY <3>1, <3>2 DEF Before
      <4>2. now[e] = NUL
        BY <1>2, <2>14, <4>1
      <4> QED BY <2>13, <3>1, <4>2
    <3>3. CASE ~(b < k)
      <4>1. b # space
        BY <1>13, <2>1, <3>1
      <4>2. ~(space < b)
        <5>1. SUFFICES ASSUME space < b PROVE FALSE
          OBVIOUS
        <5>2. b \in Nat /\ b <= n /\ k <= b /\ next <= b /\ text[b] # Space
          BY <1>5, <1>13, <2>2, <3>1, <5>1
        <5>3. now[b] = Space
          BY <2>4, <3>1, <5>2 DEF SpacesEnd
        <5> QED BY <1>2, <5>2, <5>3
      <4>3. e = space
        BY <1>13, <1>14, <2>14, <3>1, <3>3, <4>1, <4>2
      <4>4. space <= n
        BY <1>5
      <4> QED BY <2>6, <4>3, <4>4
    <3> QED BY <3>2, <3>3
  <2>15. CutsTo(text, n, t)
    BY <2>8, <2>10, <2>11, <2>12, <2>14 DEF CutsTo
  <2>16. CutsAll(text, n, h) => CutsAll(text, n, t)
    <3>1. SUFFICES ASSUME CutsAll(text, n, h), NEW b \in Starts(text, n), NEW e \in Nat, WordEnd(text, n, b, e)
                   PROVE  cut[e] = NUL
      BY <2>8 DEF CutsAll
    <3>2. now[e] = NUL /\ e <= n
      BY <1>1, <3>1 DEF CutsAll, WordEnd
    <3> QED BY <2>13, <3>2
  <2>17. t.at > h.at
    BY <1>1, <1>5, <2>8, <2>10
  <2> QED BY <2>8, <2>9, <2>15, <2>16, <2>17
<1> QED BY <1>7, <1>8

LettersStay(cut, text, n) == \A j \in Nat : j <= n /\ text[j] # Space => cut[j] = text[j]
WordsEnd(cut, text, n) == \A b \in Starts(text, n) : \A e \in Nat : WordEnd(text, n, b, e) => cut[e] = NUL

LEMMA SplitCuts ==
    ASSUME NEW text \in Buffers, NEW n \in Nat, TailIs(text, n, 0)
    PROVE  \E cut \in Buffers :
             /\ cut = Split(text, 0)
             /\ LettersStay(cut, text, n) /\ WordsEnd(cut, text, n)
<1>1. BufSize \in Nat /\ n < BufSize
  BY PlacesAre DEF TailIs
<1>2. PICK k \in Nat : k = 0
  OBVIOUS
<1>3. PICK g \in [0..BufSize -> Splits] :
        /\ g[0] = [at |-> k, text |-> text]
        /\ \A m \in 1..BufSize : m - 1 \in 0..BufSize /\ g[m] = SplitTurn(g[m - 1])
        /\ Split(text, k) = g[BufSize].text
  BY SplitIs
<1> DEFINE P == {m \in 0..BufSize : CutsTo(text, n, g[m]) /\ (CutsAll(text, n, g[m]) \/ g[m].at >= m)}
<1>4. 0 \in P
  <2>1. 0 \in 0..BufSize
    BY <1>1
  <2>2. g[0].at = 0 /\ g[0].text = text
    BY <1>2, <1>3
  <2>3. Before(text, n, 0) = {}
    <3>1. \A b \in Starts(text, n) : ~(b < 0)
      BY DEF Starts
    <3> QED BY <3>1 DEF Before
  <2>4. CutsTo(text, n, g[0])
    BY <2>2, <2>3 DEF CutsTo
  <2> QED BY <2>1, <2>2, <2>4
<1>5. ASSUME NEW m \in 1..BufSize, m - 1 \in P PROVE m \in P
  <2>1. PICK h \in Splits : h = g[m - 1] /\ g[m] = SplitTurn(h)
    BY <1>3
  <2>2. CutsTo(text, n, h) /\ (CutsAll(text, n, h) \/ h.at >= m - 1)
    BY <1>5, <2>1
  <2>3. PICK t \in Splits :
             /\ t = SplitTurn(h) /\ CutsTo(text, n, t)
             /\ CutsAll(text, n, t) \/ t.at > h.at
             /\ CutsAll(text, n, h) => CutsAll(text, n, t)
    BY <2>2, TurnCuts
  <2>4. h.at \in Nat /\ t.at \in Nat
    BY DEF Splits
  <2>5. CutsAll(text, n, t) \/ t.at >= m
    BY <2>2, <2>3, <2>4
  <2>6. m \in 0..BufSize
    OBVIOUS
  <2> QED BY <2>1, <2>3, <2>5, <2>6
<1> HIDE DEF P
<1>6. Climbs(P, BufSize)
  BY <1>4, <1>5 DEF Climbs
<1>7. BufSize \in P
  BY <1>1, <1>6, Reaches
<1>8. PICK h \in Splits : h = g[BufSize]
  BY <1>1
<1>9. CutsTo(text, n, h) /\ (CutsAll(text, n, h) \/ h.at >= BufSize)
  BY <1>7, <1>8 DEF P
<1>10. CutsAll(text, n, h)
  <2>1. h.at \in Nat /\ h.at <= n
    BY <1>9 DEF CutsTo, Splits
  <2> QED BY <1>1, <1>9, <2>1
<1>11. PICK cut \in Buffers : cut = h.text
  BY DEF Splits
<1> QED BY <1>2, <1>3, <1>8, <1>9, <1>10, <1>11 DEF CutsTo, CutsAll, LettersStay, WordsEnd

(* The words of what was typed are those of the line.                      *)
TypedIn(s, text, n) == n = Len(s) /\ \A j \in 1..n : text[j - 1] = s[j]
Ends(s, u, v) ==
    /\ u <= v /\ (\A j \in u..v : s[j] # Space)
    /\ (u = 1 \/ s[u - 1] = Space) /\ (v = Len(s) \/ s[v + 1] = Space)

LEMMA WordBegins ==
    ASSUME NEW s \in Seq(Letters \ {NUL}), NEW text \in Buffers, NEW n \in Nat, TailIs(text, n, 0),
           TypedIn(s, text, n), NEW b \in Starts(text, n)
    PROVE  \E e \in 1..n : WordEnd(text, n, b, e) /\ b < e /\ Ends(s, b + 1, e)
<1>1. b \in Nat /\ b < n /\ text[b] # Space /\ (b = 0 \/ text[b - 1] = Space)
  BY DEF Starts, IsStart
<1>2. \A j \in Nat : j < n => text[j] # NUL
  BY DEF TailIs
<1>3. TailIs(text, n, b)
  BY <1>1 DEF TailIs
<1>4. PICK e \in Nat : WordEnd(text, n, b, e)
  BY <1>1, <1>3, WordEndIs
<1>5. /\ b <= e /\ e <= n /\ text[e] \in {NUL, Space} /\ (text[e] = NUL => e = n)
      /\ \A j \in Nat : b <= j /\ j < e => text[j] \notin {NUL, Space}
  BY <1>4 DEF WordEnd
<1>6. b < e
  BY <1>1, <1>2, <1>5
<1>7. n = Len(s) /\ \A j \in 1..n : text[j - 1] = s[j]
  BY DEF TypedIn
<1>8. ASSUME NEW j \in b + 1..e PROVE s[j] # Space
  <2>1. PICK l \in Nat : l = j - 1 /\ b <= l /\ l < e /\ j \in 1..n
    BY <1>1, <1>5
  <2> QED BY <1>5, <1>7, <2>1
<1>9. b = 0 \/ s[b] = Space
  <2>1. CASE b # 0
    <3>1. b \in 1..n
      BY <1>1, <2>1
    <3> QED BY <1>1, <1>7, <2>1, <3>1
  <2> QED BY <2>1
<1>10. e = Len(s) \/ s[e + 1] = Space
  <2>1. CASE e # n
    <3>1. e + 1 \in 1..n /\ e + 1 - 1 = e
      BY <1>5, <2>1
    <3> QED BY <1>5, <1>7, <2>1, <3>1
  <2> QED BY <1>7, <2>1
<1>11. b + 1 <= e /\ e \in 1..n
  BY <1>1, <1>5, <1>6
<1>13. PICK u \in Nat : u = b + 1
  BY <1>1
<1>12. Ends(s, u, e)
  <2>1. \A j \in u..e : s[j] # Space
    BY <1>8, <1>13
  <2>4. u - 1 = b /\ (b = 0 => u = 1)
    BY <1>1, <1>13
  <2>2. u = 1 \/ s[u - 1] = Space
    BY <1>9, <2>4
  <2>3. u <= e
    BY <1>11, <1>13
  <2> QED BY <1>10, <2>1, <2>2, <2>3 DEF Ends
<1> QED BY <1>4, <1>6, <1>11, <1>12, <1>13

LEMMA WordIs ==
    ASSUME NEW s \in Seq(Letters \ {NUL}), NEW text \in Buffers, NEW n \in Nat, TailIs(text, n, 0),
           TypedIn(s, text, n), NEW u \in 1..n, NEW v \in 1..n, Ends(s, u, v)
    PROVE  u - 1 \in Starts(text, n) /\ WordEnd(text, n, u - 1, v)
<1>1. n = Len(s) /\ \A j \in 1..n : text[j - 1] = s[j]
  BY DEF TypedIn
<1>2. u <= v /\ (\A j \in u..v : s[j] # Space) /\ (u = 1 \/ s[u - 1] = Space) /\ (v = n \/ s[v + 1] = Space)
  BY <1>1 DEF Ends
<1>3. PICK b \in Nat : b = u - 1 /\ b < n /\ b < v
  BY <1>2
<1>4. text[b] # Space
  BY <1>1, <1>2, <1>3
<1>5. b = 0 \/ text[b - 1] = Space
  <2>1. CASE b # 0
    <3>1. u - 1 \in 1..n /\ u - 1 - 1 = b - 1 /\ u # 1
      BY <1>3, <2>1
    <3> QED BY <1>1, <1>2, <3>1
  <2> QED BY <2>1
<1>6. b \in Starts(text, n)
  BY <1>3, <1>4, <1>5 DEF Starts, IsStart
<1>7. PICK e \in 1..n : WordEnd(text, n, b, e)
  BY <1>6, WordBegins
<1>8. /\ b <= e /\ e <= n /\ text[e] \in {NUL, Space} /\ (text[e] = NUL => e = n)
      /\ \A j \in Nat : b <= j /\ j < e => text[j] \notin {NUL, Space}
  BY <1>7 DEF WordEnd
<1>9. ~(e < v)
  <2>1. SUFFICES ASSUME e < v PROVE FALSE
    OBVIOUS
  <2>2. b < e
    BY <1>3, <1>4, <1>8, <2>1 DEF TailIs
  <2>3. e + 1 \in u..v /\ e + 1 \in 1..n /\ e + 1 - 1 = e
    BY <1>3, <1>8, <2>1, <2>2
  <2>4. text[e] # Space
    BY <1>1, <1>2, <2>3
  <2>5. text[e] = NUL
    BY <1>8, <2>4
  <2> QED BY <1>8, <2>1, <2>5
<1>10. ~(v < e)
  <2>1. SUFFICES ASSUME v < e PROVE FALSE
    OBVIOUS
  <2>2. text[v] \notin {NUL, Space}
    BY <1>3, <1>8, <2>1
  <2>3. v + 1 \in 1..n /\ v + 1 - 1 = v /\ v # n
    BY <1>8, <2>1
  <2> QED BY <1>1, <1>2, <2>2, <2>3
<1>11. e = v
  BY <1>9, <1>10
<1> QED BY <1>3, <1>6, <1>7, <1>11

WordsOf(s) == {w \in (1..Len(s)) \X (1..Len(s)) : Ends(s, w[1], w[2])}
WordsAt(s, D) == {w \in WordsOf(s) : w[1] - 1 \in D}

LEMMA CountWords ==
    ASSUME NEW s \in Seq(Letters \ {NUL}), NEW text \in Buffers, NEW n \in Nat, TailIs(text, n, 0),
           TypedIn(s, text, n), NEW D, D \subseteq Starts(text, n)
    PROVE  Cardinality(WordsAt(s, D)) = Cardinality(D)
<1> DEFINE W == WordsAt(s, D)
<1>1. n = Len(s)
  BY DEF TypedIn
<1>2. IsFiniteSet(D)
  <2>1. IsFiniteSet(Starts(text, n))
    BY StartsFinite
  <2> QED BY <2>1, FS_Subset
<1>3. PICK f : f = [b \in D |-> <<b + 1, SkipWord(text, b)>>]
  OBVIOUS
<1>4. ASSUME NEW b \in D
      PROVE  \E e \in 1..n : /\ f[b] = <<b + 1, e>> /\ f[b][1] = b + 1
                             /\ b + 1 - 1 = b /\ f[b] \in W
  <2>1. b \in Starts(text, n) /\ b \in Nat /\ b < n
    BY DEF Starts
  <2>2. PICK e \in 1..n : WordEnd(text, n, b, e) /\ Ends(s, b + 1, e)
    BY <2>1, WordBegins
  <2>3. PICK u \in 1..n : u = b + 1 /\ u - 1 = b
    BY <2>1
  <2>4. f[b] = <<u, e>> /\ f[b][1] = u
    BY <1>3, <2>2, <2>3 DEF WordEnd
  <2>5. <<u, e>> \in WordsOf(s)
    BY <1>1, <2>2, <2>3 DEF WordsOf
  <2>6. <<u, e>> \in W
    BY <2>3, <2>5 DEF WordsAt
  <2> QED BY <2>3, <2>4, <2>6
<1>5. f \in [D -> W]
  BY <1>3, <1>4
<1>6. ASSUME NEW b \in D, NEW c \in D, f[b] = f[c] PROVE b = c
  <2>1. f[b][1] = b + 1 /\ b + 1 - 1 = b
    BY <1>4
  <2>2. f[c][1] = c + 1 /\ c + 1 - 1 = c
    BY <1>4
  <2>3. b + 1 = c + 1
    BY <1>6, <2>1, <2>2
  <2>4. b \in Nat /\ c \in Nat
    BY DEF Starts
  <2> QED BY <2>3, <2>4
<1>7. ASSUME NEW w \in W PROVE \E b \in D : f[b] = w
  <2>1. PICK u \in 1..n, v \in 1..n : w = <<u, v>> /\ Ends(s, u, v) /\ u - 1 \in D
    BY <1>1 DEF WordsAt, WordsOf
  <2>2. WordEnd(text, n, u - 1, v)
    BY <2>1, WordIs
  <2>3. f[u - 1] = <<u - 1 + 1, v>> /\ u - 1 + 1 = u
    BY <1>3, <2>1, <2>2 DEF WordEnd
  <2> QED BY <2>1, <2>3
<1> HIDE DEF W
<1>8. f \in Surjection(D, W)
  BY <1>5, <1>7 DEF Surjection
<1>9. f \in Injection(D, W)
  BY <1>5, <1>6 DEF Injection, IsInjective
<1> QED BY <1>2, <1>8, <1>9, FS_Surjection DEF W

LEMMA AllWords ==
    ASSUME NEW s \in Seq(Letters \ {NUL}), NEW text \in Buffers, NEW n \in Nat, TailIs(text, n, 0),
           TypedIn(s, text, n)
    PROVE  Cardinality(WordsOf(s)) = Cardinality(Starts(text, n))
<1>1. PICK D : D = Starts(text, n)
  OBVIOUS
<1>2. ASSUME NEW w \in WordsOf(s) PROVE w[1] - 1 \in D
  <2>1. n = Len(s)
    BY DEF TypedIn
  <2>2. PICK u \in 1..n, v \in 1..n : w = <<u, v>> /\ Ends(s, u, v)
    BY <2>1 DEF WordsOf
  <2>3. u - 1 \in Starts(text, n)
    BY <2>2, WordIs
  <2> QED BY <1>1, <2>2, <2>3
<1>3. WordsAt(s, D) = WordsOf(s)
  BY <1>2 DEF WordsAt
<1>4. Cardinality(WordsAt(s, D)) = Cardinality(D)
  BY <1>1, CountWords
<1> QED BY <1>1, <1>3, <1>4

CountsBefore(s, text, n, b) ==
    Cardinality({v \in WordsOf(s) : v[1] < b + 1}) = Cardinality(Before(text, n, b))

LEMMA WordsBefore ==
    ASSUME NEW s \in Seq(Letters \ {NUL}), NEW text \in Buffers, NEW n \in Nat, TailIs(text, n, 0),
           TypedIn(s, text, n), NEW b \in Nat
    PROVE  CountsBefore(s, text, n, b)
<1>1. PICK D : D = Before(text, n, b)
  OBVIOUS
<1>2. ASSUME NEW w \in WordsOf(s) PROVE w[1] - 1 \in D <=> w[1] < b + 1
  <2>1. n = Len(s)
    BY DEF TypedIn
  <2>2. PICK u \in 1..n, v \in 1..n : w = <<u, v>> /\ Ends(s, u, v)
    BY <2>1 DEF WordsOf
  <2>3. u - 1 \in Starts(text, n)
    BY <2>2, WordIs
  <2>4. u - 1 < b <=> u < b + 1
    OBVIOUS
  <2> QED BY <1>1, <2>2, <2>3, <2>4 DEF Before
<1>3. WordsAt(s, D) = {v \in WordsOf(s) : v[1] < b + 1}
  BY <1>2 DEF WordsAt
<1>4. D \subseteq Starts(text, n)
  BY <1>1 DEF Before
<1>5. Cardinality(WordsAt(s, D)) = Cardinality(D)
  BY <1>4, CountWords
<1> QED BY <1>1, <1>3, <1>5 DEF CountsBefore

(* What is read at b is the word that ends at e. *)
ReadsWord(cut, text, s, b, e) ==
    /\ CString(cut, b) = SubSeq(s, b + 1, e)
    /\ CString(cut, b) = [x \in 1..e - b |-> text[b + x - 1]]

(* A word can be read at its place in the buffer. *)
LEMMA WordRead ==
    ASSUME NEW s \in Seq(Letters \ {NUL}), NEW text \in Buffers, NEW n \in Nat, TailIs(text, n, 0),
           TypedIn(s, text, n), NEW cut \in Buffers,
           LettersStay(cut, text, n),
           NEW b \in Nat, NEW e \in 1..n, b < e, WordEnd(text, n, b, e), cut[e] = NUL
    PROVE  ReadsWord(cut, text, s, b, e)
<1>1. /\ n < BufSize /\ BufSize \in Nat
      /\ \A j \in Nat : j < n => text[j] # NUL
  BY PlacesAre DEF TailIs
<1>2. PICK m \in Nat : EndsAt(cut, b, m)
  BY EndOfIs
<1>3. \A j \in Nat : b <= j /\ j < e => text[j] \notin {NUL, Space}
  BY DEF WordEnd
<1>4. \A j \in Nat : b <= j /\ j < e => cut[j] = text[j] /\ At(cut, j) = cut[j]
  <2>1. \A j \in Nat : b <= j /\ j < e => cut[j] = text[j]
    BY <1>3 DEF LettersStay
  <2>2. \A j \in Nat : b <= j /\ j < e => At(cut, j) = cut[j]
    BY <1>1, PlacesAre
  <2> QED BY <2>1, <2>2
<1>5. At(cut, e) = NUL
  <2>1. At(cut, e) = cut[e]
    BY <1>1, PlacesAre
  <2> QED BY <2>1
<1>6. m = e
  <2>1. m = EndOf(cut, b) /\ m >= b /\ At(cut, m) = NUL /\ \A j \in Nat : b <= j /\ j < m => At(cut, j) # NUL
    BY <1>2 DEF EndsAt
  <2>2. ~(m < e)
    BY <1>3, <1>4, <2>1
  <2>3. ~(e < m)
    BY <1>5, <2>1
  <2> QED BY <2>2, <2>3
<1>7. PICK l \in Nat : l = e - b
  OBVIOUS
<1>8. ASSUME NEW x \in 1..l PROVE cut[b + x - 1] = text[b + x - 1] /\ text[b + x - 1] = s[b + 1 + x - 1]
  <2>1. PICK j \in Nat : j = b + x - 1 /\ b <= j /\ j < e
    BY <1>7
  <2>2. b + 1 + x - 1 \in 1..n /\ b + 1 + x - 1 - 1 = j
    BY <2>1
  <2> QED BY <1>4, <2>1, <2>2 DEF TypedIn
<1>9. CString(cut, b) = [x \in 1..l |-> cut[b + x - 1]]
  BY <1>2, <1>6, <1>7 DEF CString, EndsAt
<1>10. CString(cut, b) = [x \in 1..l |-> text[b + x - 1]]
  BY <1>8, <1>9
<1>11. SubSeq(s, b + 1, e) = [x \in 1..l |-> s[b + 1 + x - 1]]
  <2>1. PICK a \in Nat : a = b + 1
    OBVIOUS
  <2>2. n = Len(s)
    BY DEF TypedIn
  <2>3. PICK T : T = Letters \ {NUL}
    OBVIOUS
  <2>4. PICK t \in Seq(T) : t = SubSeq(s, a, e) /\ Len(t) = l /\ \A x \in 1..l : t[x] = s[a + x - 1]
    <3>1. SubSeq(s, a, e) \in Seq(T)
      BY <2>1, <2>2, <2>3
    <3>2. Len(SubSeq(s, a, e)) = l /\ \A x \in 1..l : SubSeq(s, a, e)[x] = s[a + x - 1]
      BY <1>7, <2>1, <2>2, <2>3
    <3> QED BY <3>1, <3>2
  <2>5. t = [x \in 1..l |-> t[x]]
    <3>1. t \in Seq(T) /\ Len(t) = l
      BY <2>4
    <3>2. DOMAIN t = 1..l
      BY <3>1
    <3> QED BY <3>1, <3>2
  <2> QED BY <2>1, <2>4, <2>5
<1>12. [x \in 1..l |-> text[b + x - 1]] = [x \in 1..l |-> s[b + 1 + x - 1]]
  BY <1>8
<1> QED BY <1>7, <1>10, <1>11, <1>12 DEF ReadsWord

(* The name is the first word. *)
NameFirst(text, cut, words) ==
    CommandName(text) = IF words = <<>> THEN <<>> ELSE CString(cut, words[1])
NoFewer(text, n, words) == Len(words) = Cardinality(Starts(text, n))

LEMMA NameIs ==
    ASSUME NEW s \in Seq(Letters \ {NUL}), NEW text \in Buffers, NEW n \in Nat, TailIs(text, n, 0),
           TypedIn(s, text, n), NEW cut \in Buffers,
           LettersStay(cut, text, n), WordsEnd(cut, text, n),
           NEW words \in Seq(Nat), Found1(text, n, words), NoFewer(text, n, words)
    PROVE  NameFirst(text, cut, words)
<1> USE DEF NoFewer
<1>1. PICK k \in Nat : k = 0 /\ TailIs(text, n, k) /\ k <= n
  OBVIOUS
<1>2. PICK from \in Nat : SpacesEnd(text, n, k, from)
  BY <1>1, SpacesEndIs
<1>3. /\ from <= n /\ from = SkipSpaces(text, 0) /\ (text[from] = NUL => from = n) /\ k <= from
  BY <1>1, <1>2 DEF SpacesEnd
<1>4. TailIs(text, n, from)
  BY <1>1, <1>3 DEF TailIs
<1>5. PICK e \in Nat : WordEnd(text, n, from, e)
  BY <1>4, WordEndIs
<1>6. e = SkipWord(text, from) /\ from <= e /\ e <= n
  BY <1>5 DEF WordEnd
<1>7. CommandName(text) = [x \in 1..e - from |-> text[from + x - 1]]
  BY <1>3, <1>6 DEF CommandName
<1>8. Before(text, n, k) = {}
  <2>1. \A b \in Starts(text, n) : ~(b < k)
    BY <1>1 DEF Starts
  <2> QED BY <2>1 DEF Before
<1>15. IsFiniteSet(Starts(text, n))
  BY StartsFinite
<1>9. CASE text[from] = NUL
  <2>1. e = n /\ from = n
    BY <1>3, <1>6, <1>9
  <2>2. Starts(text, n) = {}
    BY <1>1, <1>2, <1>8, <1>9, NextStart
  <2>3. Len(words) = 0
    BY <2>2, FS_EmptySet
  <2>4. words = <<>>
    BY <2>3
  <2>5. e - from = 0
    BY <2>1
  <2>6. [x \in 1..0 |-> text[from + x - 1]] = <<>>
    OBVIOUS
  <2> QED BY <1>7, <2>4, <2>5, <2>6 DEF NameFirst
<1>10. CASE text[from] # NUL
  <2>1. Before(text, n, from) = {} /\ from \in Starts(text, n) /\ from < e
    BY <1>1, <1>2, <1>5, <1>8, <1>10, NextStart
  <2>2. Cardinality(Starts(text, n)) # 0
    BY <1>15, <2>1, FS_EmptySet
  <2>3. Len(words) > 0
    BY <2>2
  <2>4. PICK b \in Nat : b = words[1] /\ b \in Starts(text, n) /\ Cardinality(Before(text, n, b)) = 0
    <3>1. 1 \in 1..Len(words) /\ words[1] \in Nat /\ 1 - 1 = 0
      BY <2>3
    <3> QED BY <3>1 DEF Found1
  <2>5. Before(text, n, b) = {}
    <3>1. IsFiniteSet(Before(text, n, b))
      BY StartsFinite
    <3> QED BY <2>4, <3>1, FS_EmptySet
  <2>6. b = from
    BY <2>1, <2>4, <2>5 DEF Before
  <2>7. WordEnd(text, n, b, e) /\ cut[e] = NUL /\ b < e /\ e \in 1..n
    BY <1>5, <1>6, <2>1, <2>4, <2>6 DEF WordsEnd
  <2>8. CString(cut, b) = [x \in 1..e - b |-> text[b + x - 1]]
    BY <2>7, WordRead DEF ReadsWord
  <2>9. words # <<>>
    BY <2>3
  <2> QED BY <1>7, <2>4, <2>6, <2>8, <2>9 DEF NameFirst
<1> QED BY <1>9, <1>10

----------------------------------------------------------------------------
(* While nothing has come between, the buffer holds what was typed.        *)
TypedInv ==
    /\ typed \in Seq(Letters \ {NUL})
    /\ (clean /\ (stage \in {"swap", "key"} \/ (stage = "print" /\ then = "swap")))
         => TypedIn(typed, buffer, i)
WordsInv == ShellInv /\ TypedInv /\ WordsRun

LEMMA NoneTyped ==
    ASSUME NEW buf
    PROVE  <<>> \in Seq(Letters \ {NUL}) /\ TypedIn(<<>>, buf, 0)
<1>1. <<>> \in Seq(Letters \ {NUL}) /\ Len(<<>>) = 0
  OBVIOUS
<1>2. \A j \in 1..0 : buf[j - 1] = <<>>[j]
  OBVIOUS
<1> QED BY <1>1, <1>2 DEF TypedIn

LEMMA BackspaceTypes ==
    ASSUME WordsInv, BackspaceKey
    PROVE  TypedInv'
<1>1. /\ stage = "key" /\ stage' = "swap" /\ clean' = clean
  BY DEF BackspaceKey, Key
<1>2. PICK T : T = Letters \ {NUL}
  OBVIOUS
<1>3. typed \in Seq(T) /\ (clean => TypedIn(typed, buffer, i)) /\ buffer \in Buffers /\ i \in Nat
  BY <1>1, <1>2 DEF WordsInv, TypedInv, ShellInv, ShellType
<1>4. CASE i = 0
  <2>1. i' = i /\ buffer' = buffer /\ typed' = typed
    BY <1>4 DEF BackspaceKey, line
  <2> QED BY <1>1, <1>2, <1>3, <2>1 DEF TypedInv
<1>5. CASE i # 0
  <2>1. /\ i' = i - 1
        /\ buffer' = IF i - 1 < BufSize THEN [buffer EXCEPT ![i - 1] = NUL] ELSE buffer
        /\ typed' = IF typed = <<>> THEN typed ELSE SubSeq(typed, 1, Len(typed) - 1)
    BY <1>5 DEF BackspaceKey
  <2>2. CASE typed = <<>>
    <3>1. ~clean
      <4>1. Len(<<>>) = 0
        OBVIOUS
      <4> QED BY <1>3, <1>5, <2>2, <4>1 DEF TypedIn
    <3> QED BY <1>1, <1>2, <1>3, <2>1, <2>2, <3>1 DEF TypedInv
  <2>3. CASE typed # <<>>
    <3>1. PICK m \in Nat : m = Len(typed) /\ m > 0
      BY <1>3, <2>3
    <3>2. PICK t \in Seq(T) : t = SubSeq(typed, 1, m - 1) /\ Len(t) = m - 1 /\ \A j \in 1..m - 1 : t[j] = typed[j]
      <4>1. SubSeq(typed, 1, m - 1) \in Seq(T)
        BY <1>3, <3>1
      <4>2. Len(SubSeq(typed, 1, m - 1)) = m - 1 /\ \A j \in 1..m - 1 : SubSeq(typed, 1, m - 1)[j] = typed[j]
        BY <1>3, <3>1
      <4> QED BY <4>1, <4>2
    <3>3. typed' = t
      BY <2>1, <2>3, <3>1, <3>2
    <3>4. ASSUME clean PROVE TypedIn(t, buffer', i')
      <4>1. m = i /\ \A j \in 1..i : buffer[j - 1] = typed[j]
        BY <1>3, <3>1, <3>4 DEF TypedIn
      <4>2. i < BufSize /\ BufSize \in Nat
        BY <1>1, <3>4, ShellAssumption DEF WordsInv, ShellInv, EditInv, Edited, LineAt
      <4>3. buffer' = [buffer EXCEPT ![i - 1] = NUL]
        BY <1>3, <2>1, <4>2
      <4>4. ASSUME NEW j \in 1..i - 1 PROVE buffer'[j - 1] = t[j]
        <5>1. j - 1 # i - 1 /\ j \in 1..i /\ j \in 1..m - 1 /\ j - 1 \in 0..BufSize - 1
          BY <1>3, <4>1, <4>2
        <5>2. buffer'[j - 1] = buffer[j - 1]
          BY <1>3, <4>3, <5>1 DEF Buffers
        <5> QED BY <3>2, <4>1, <5>1, <5>2
      <4> QED BY <2>1, <3>2, <4>1, <4>4 DEF TypedIn
    <3> QED BY <1>1, <1>2, <3>3, <3>4 DEF TypedInv
  <2> QED BY <2>2, <2>3
<1> QED BY <1>4, <1>5

LEMMA CharTypes ==
    ASSUME WordsInv, NEW c \in Chars \cup {"\n"}, CharKey(c)
    PROVE  TypedInv'
<1>1. /\ stage = "key" /\ stage' = "swap" /\ c # NUL
  BY DEF CharKey, Key
<1>2. PICK T : T = Letters \ {NUL}
  OBVIOUS
<1>3. typed \in Seq(T) /\ (clean => TypedIn(typed, buffer, i)) /\ buffer \in Buffers /\ i \in Nat
  BY <1>1, <1>2 DEF WordsInv, TypedInv, ShellInv, ShellType
<1>4. CASE i >= BufSize - 1
  <2>1. i' = i /\ buffer' = buffer /\ typed' = typed /\ clean' = clean
    BY <1>4 DEF CharKey, line
  <2> QED BY <1>1, <1>2, <1>3, <2>1 DEF TypedInv
<1>5. CASE ~(i >= BufSize - 1)
  <2>1. /\ buffer' = [buffer EXCEPT ![i] = c]
        /\ i' = IF c = "\t" THEN i + TabSize ELSE i + 1
        /\ typed' = Append(typed, c)
        /\ clean' = (clean /\ c \notin {"\t", "\n"})
    BY <1>5 DEF CharKey
  <2>2. PICK d \in T : d = c
    BY <1>1, <1>2 DEF Letters
  <2>3. PICK t \in Seq(T) : /\ t = Append(typed, d) /\ Len(t) = Len(typed) + 1 /\ t[Len(typed) + 1] = d
                           /\ \A j \in 1..Len(typed) : t[j] = typed[j]
    <3>1. typed \in Seq(T)
      BY <1>3
    <3>2. PICK t \in Seq(T) : t = Append(typed, d)
      <4>1. Append(typed, d) \in Seq(T)
        BY <3>1
      <4> QED BY <4>1
    <3>3. Len(t) = Len(typed) + 1
      BY <3>1, <3>2
    <3>4. t[Len(typed) + 1] = d
      BY <3>1, <3>2
    <3>5. \A j \in 1..Len(typed) : t[j] = typed[j]
      BY <3>1, <3>2
    <3> QED BY <3>2, <3>3, <3>4, <3>5
  <2>4. ASSUME clean' PROVE TypedIn(t, buffer', i')
    <3>1. clean /\ i' = i + 1
      BY <2>1, <2>4
    <3>2. Len(typed) = i /\ \A j \in 1..i : buffer[j - 1] = typed[j]
      BY <1>3, <3>1 DEF TypedIn
    <3>3. i < BufSize /\ BufSize \in Nat
      BY <1>3, <1>5, ShellAssumption
    <3>4. ASSUME NEW j \in 1..i + 1 PROVE buffer'[j - 1] = t[j]
      <4>1. i \in DOMAIN buffer
        BY <1>3, <3>3 DEF Buffers
      <4>2. CASE j = i + 1
        <5>1. j - 1 = i
          BY <1>3, <4>2
        <5> QED BY <2>1, <2>2, <2>3, <3>2, <4>1, <4>2, <5>1
      <4>3. CASE j # i + 1
        <5>1. j \in 1..i /\ j - 1 # i
          BY <1>3, <4>3
        <5>2. buffer'[j - 1] = buffer[j - 1]
          <6>1. j - 1 \in DOMAIN buffer
            BY <1>3, <3>3, <5>1 DEF Buffers
          <6> QED BY <2>1, <5>1, <6>1
        <5> QED BY <2>3, <3>2, <5>1, <5>2
      <4> QED BY <4>2, <4>3
    <3> QED BY <2>3, <3>1, <3>2, <3>4 DEF TypedIn
  <2> QED BY <1>1, <1>2, <2>1, <2>2, <2>3, <2>4 DEF TypedInv
<1> QED BY <1>4, <1>5

Runs(s, text, given, called) ==
    /\ Len(given) = Cardinality(WordsOf(s))
    /\ \A k \in DOMAIN given : \E w \in WordsOf(s) :
         /\ CString(text, given[k]) = SubSeq(s, w[1], w[2])
         /\ Cardinality({v \in WordsOf(s) : v[1] < w[1]}) = k - 1
    /\ called = IF given = <<>> THEN <<>> ELSE CString(text, given[1])

LEMMA TypedWordsAre ==
    ASSUME NEW s
    PROVE  TypedWords(s) = WordsOf(s)
<1>1. ASSUME NEW u, NEW v PROVE IsWord(s, u, v) <=> Ends(s, u, v)
  BY DEF IsWord, Ends, Space
<1> HIDE DEF IsWord, Ends
<1> QED BY <1>1, Zenon DEF TypedWords, WordsOf

LEMMA WordsRuns ==
    /\ WordsRun <=> (stage = "run" /\ clean => Runs(typed, buffer, args, name))
    /\ WordsRun' <=> (stage' = "run" /\ clean' => Runs(typed', buffer', args', name'))
<1>1. TypedWords(typed) = WordsOf(typed) /\ TypedWords(typed') = WordsOf(typed')
  BY TypedWordsAre
<1> HIDE DEF TypedWords, WordsOf, CString
<1>2. WordsRun <=> (stage = "run" /\ clean => Runs(typed, buffer, args, name))
  BY <1>1, Zenon DEF WordsRun, Word, Runs
<1>3. WordsRun' <=> (stage' = "run" /\ clean' => Runs(typed', buffer', args', name'))
  BY <1>1, Zenon DEF WordsRun, Word, Runs
<1> QED BY <1>2, <1>3

LEMMA EnterRuns ==
    ASSUME WordsInv, EnterKey
    PROVE  WordsRun'
<1>1. SUFFICES ASSUME stage' = "run", clean' PROVE Runs(typed', buffer', args', name')
  BY WordsRuns
<1>0. typed' = typed
  BY DEF EnterKey
<1>2. PICK text : text = [buffer EXCEPT ![i] = NUL]
  OBVIOUS
<1>3. /\ stage = "key" /\ clean /\ i < BufSize
      /\ name' = CommandName(text) /\ args' = ArgsFrom(text, 0) /\ buffer' = Split(text, 0)
  BY <1>1, <1>2, ShellAssumption DEF EnterKey, Key, WordsInv, ShellInv, ShellType
<1>4. PICK n \in Nat, s \in Seq(Letters \ {NUL}) : n = i /\ s = typed
  BY DEF WordsInv, ShellInv, ShellType, TypedInv
<1>5. buffer \in Buffers /\ BufSize \in Nat /\ n = Len(s) /\ \A j \in 1..n : buffer[j - 1] = s[j]
  BY <1>3, <1>4, ShellAssumption DEF WordsInv, ShellInv, ShellType, TypedInv, TypedIn
<1>6. /\ text \in Buffers /\ text[n] = NUL
      /\ \A j \in Nat : j < n => text[j] = buffer[j]
  <2>1. NUL \in Letters
    BY DEF Letters
  <2>2. n \in DOMAIN buffer
    BY <1>3, <1>4, <1>5 DEF Buffers
  <2>3. text \in Buffers
    BY <1>2, <1>5, <2>1 DEF Buffers
  <2>4. \A j \in Nat : j < n => j \in DOMAIN buffer
    BY <1>3, <1>4, <1>5 DEF Buffers
  <2> QED BY <1>2, <1>4, <2>2, <2>3, <2>4
<1>7. TypedIn(s, text, n)
  <2>1. ASSUME NEW j \in 1..n PROVE text[j - 1] = s[j]
    <3>1. j - 1 \in Nat /\ j - 1 < n
      OBVIOUS
    <3> QED BY <1>5, <1>6, <3>1
  <2> QED BY <1>5, <2>1 DEF TypedIn
<1>8. TailIs(text, n, 0)
  <2>1. ASSUME NEW j \in Nat, j < n PROVE text[j] # NUL
    <3>1. PICK l \in 1..n : l = j + 1 /\ l - 1 = j
      BY <2>1
    <3>2. s[l] \in Letters \ {NUL}
      <4> HIDE DEF Letters
      <4> QED BY <1>5
    <3> QED BY <1>7, <3>1, <3>2 DEF TypedIn
  <2> QED BY <1>3, <1>4, <1>6, <2>1 DEF TailIs
<1>9. PICK words \in Seq(Nat) :
        /\ words = ArgsFrom(text, 0) /\ Found1(text, n, words)
        /\ Len(words) = Cardinality(Starts(text, n))
  BY <1>6, <1>8, ArgsAre
<1>10. PICK cut \in Buffers :
         /\ cut = Split(text, 0)
         /\ LettersStay(cut, text, n) /\ WordsEnd(cut, text, n)
  BY <1>6, <1>8, SplitCuts
<1>11. args' = words /\ buffer' = cut
  BY <1>3, <1>9, <1>10
<1>13. Len(words) = Cardinality(WordsOf(s))
  BY <1>6, <1>7, <1>8, <1>9, AllWords
<1>14. ASSUME NEW k \in DOMAIN words
       PROVE  \E w \in WordsOf(s) : /\ CString(cut, words[k]) = SubSeq(s, w[1], w[2])
                                     /\ Cardinality({v \in WordsOf(s) : v[1] < w[1]}) = k - 1
  <2>1. PICK b \in Nat : /\ b = words[k] /\ b \in Starts(text, n)
                         /\ Cardinality(Before(text, n, b)) = k - 1
    <3>1. k \in 1..Len(words) /\ words[k] \in Nat
      OBVIOUS
    <3> QED BY <1>9, <3>1 DEF Found1
  <2>2. PICK e \in 1..n : WordEnd(text, n, b, e) /\ b < e /\ Ends(s, b + 1, e)
    BY <1>6, <1>7, <1>8, <2>1, WordBegins
  <2>3. CString(cut, b) = SubSeq(s, b + 1, e)
    <3>1. cut[e] = NUL
      BY <1>10, <2>1, <2>2 DEF WordsEnd
    <3>2. text \in Buffers /\ LettersStay(cut, text, n)
      BY <1>6, <1>10
    <3>3. WordEnd(text, n, b, e) /\ b < e
      BY <2>2
    <3>4. ReadsWord(cut, text, s, b, e)
      BY <1>7, <1>8, <3>1, <3>2, <3>3, WordRead
    <3> QED BY <3>4 DEF ReadsWord
  <2>4. Cardinality({v \in WordsOf(s) : v[1] < b + 1}) = k - 1
    <3>1. CountsBefore(s, text, n, b)
      <4>1. text \in Buffers
        BY <1>6
      <4> QED BY <1>7, <1>8, <4>1, WordsBefore
    <3> QED BY <2>1, <3>1 DEF CountsBefore
  <2>5. PICK u \in 1..n : u = b + 1
    BY <2>2
  <2>6. PICK w : w = <<u, e>> /\ w[1] = u /\ w[2] = e
    <3>1. <<u, e>>[1] = u /\ <<u, e>>[2] = e
      OBVIOUS
    <3> QED BY <3>1
  <2>7. w \in WordsOf(s)
    BY <1>5, <2>2, <2>5, <2>6 DEF WordsOf
  <2> QED BY <2>1, <2>3, <2>4, <2>5, <2>6, <2>7
<1>15. name' = IF words = <<>> THEN <<>> ELSE CString(cut, words[1])
  <2>1. NameFirst(text, cut, words)
    <3>1. Found1(text, n, words) /\ NoFewer(text, n, words)
      BY <1>9 DEF NoFewer
    <3>2. LettersStay(cut, text, n) /\ WordsEnd(cut, text, n)
      BY <1>10
    <3>3. text \in Buffers
      BY <1>6
    <3> QED BY <1>7, <1>8, <3>1, <3>2, <3>3, NameIs
  <2> QED BY <1>3, <2>1 DEF NameFirst
<1> QED BY <1>0, <1>4, <1>11, <1>13, <1>14, <1>15 DEF Runs

LEMMA InitTyped == ShellInit => TypedInv /\ WordsRun
<1>1. SUFFICES ASSUME ShellInit PROVE TypedInv /\ WordsRun
  OBVIOUS
<1>2. typed = <<>> /\ i = 0 /\ stage = "print"
  BY <1>1 DEF ShellInit
<1> QED BY <1>2, NoneTyped DEF TypedInv, WordsRun

LEMMA NextWords == WordsInv /\ [ShellNext]_shellVars => WordsInv'
<1>1. SUFFICES ASSUME WordsInv, [ShellNext]_shellVars PROVE WordsInv'
  OBVIOUS
<1>2. ShellInv'
  BY <1>1, ShellNextInv DEF WordsInv
<1>3. then \in {"swap", "prompt", "sleep", "stopped"}
  BY <1>1 DEF WordsInv, ShellInv, ShellType
<1>4. CASE Keyboard
  <2>1. CASE EnterKey
    <3>1. stage' \in {"run", "corrupt"} /\ typed' = typed
      BY <2>1 DEF EnterKey
    <3>2. TypedInv'
      BY <1>1, <3>1 DEF WordsInv, TypedInv
    <3> QED BY <1>1, <1>2, <2>1, <3>2, EnterRuns DEF WordsInv
  <2>2. CASE BackspaceKey
    <3>1. stage' = "swap"
      BY <2>2 DEF BackspaceKey
    <3> QED BY <1>1, <1>2, <2>2, <3>1, BackspaceTypes DEF WordsInv, WordsRun
  <2>3. CASE \E key \in DOMAIN build_ascii_map \ {"backspace", "enter"} : CharKey(to_char(key))
    <3>1. PICK key \in DOMAIN build_ascii_map \ {"backspace", "enter"} : CharKey(to_char(key))
      BY <2>3
    <3>2. TypedInv' /\ stage' = "swap"
      BY <1>1, <3>1, KeyChars, CharTypes DEF CharKey
    <3> QED BY <1>2, <3>2 DEF WordsInv, WordsRun
  <2>4. CASE UpKey
    <3>1. typed' = typed /\ ~clean'
      BY <2>4 DEF UpKey
    <3> QED BY <1>1, <1>2, <3>1 DEF WordsInv, TypedInv, WordsRun
  <2>5. CASE OtherKey
    <3>1. /\ stage = "key" /\ stage' = "swap" /\ clean' = clean /\ typed' = typed /\ i' = i /\ buffer' = buffer
      BY <2>5 DEF OtherKey, Key, line
    <3> QED BY <1>1, <1>2, <3>1 DEF WordsInv, TypedInv, WordsRun
  <2> QED BY <1>4, <2>1, <2>2, <2>3, <2>4, <2>5 DEF Keyboard
<1>5. CASE PrintChar \/ Printed \/ SwapFramebuffer \/ WaitSwap
  <2>1. /\ typed' = typed /\ i' = i /\ buffer' = buffer /\ clean' = clean /\ then' = then
        /\ \/ stage = "print" /\ stage' \in {"print", then}
           \/ stage \in {"swap", "key"} /\ stage' = "key"
    BY <1>5 DEF PrintChar, Printed, SwapFramebuffer, WaitSwap, line, printing
  <2>2. stage' # "run"
    BY <1>3, <2>1
  <2>3. TypedInv'
    BY <1>1, <1>3, <2>1 DEF WordsInv, TypedInv
  <2> QED BY <1>2, <2>2, <2>3 DEF WordsInv, WordsRun
<1>6. CASE RunCommand \/ Chess \/ SleepBegin \/ SleepEnd
  <2>1. /\ typed' = typed
        /\ \/ stage' = "print" /\ then' # "swap"
           \/ stage' \in {"prompt", "stopped", "chess", "asleep", "forever"}
    BY <1>6 DEF RunCommand, PrintCommand, NothingCommand, KernelCommand, ListCommand, ClearCommand,
         PoweroffCommand, SleepCommand, ChessCommand, UnknownCommand, Running, Printf, Chess, SleepBegin, SleepEnd
  <2> QED BY <1>1, <1>2, <2>1 DEF WordsInv, TypedInv, WordsRun
<1>7. CASE Prompt
  <2>1. typed' = <<>> /\ i' = 0 /\ stage' = "print"
    BY <1>7 DEF Prompt, Printf
  <2> QED BY <1>2, <2>1, NoneTyped DEF WordsInv, TypedInv, WordsRun
<1>8. CASE InterruptLogs
  <2>1. typed' = typed /\ ~clean'
    BY <1>8 DEF InterruptLogs
  <2> QED BY <1>1, <1>2, <2>1 DEF WordsInv, TypedInv, WordsRun
<1>9. CASE UNCHANGED shellVars
  <2>1. /\ typed' = typed /\ i' = i /\ buffer' = buffer /\ clean' = clean /\ then' = then
        /\ stage' = stage /\ args' = args /\ name' = name
    BY <1>9 DEF shellVars, printing, line, command
  <2>2. stage = "run" /\ clean => Runs(typed, buffer, args, name)
    BY <1>1, WordsRuns DEF WordsInv
  <2>3. stage' = "run" /\ clean' => Runs(typed', buffer', args', name')
    BY <2>1, <2>2
  <2>4. WordsRun'
    BY <2>3, WordsRuns
  <2>5. TypedInv'
    BY <1>1, <2>1 DEF WordsInv, TypedInv
  <2> QED BY <1>2, <2>4, <2>5 DEF WordsInv
<1> QED BY <1>1, <1>4, <1>5, <1>6, <1>7, <1>8, <1>9 DEF ShellNext, ShellStep

(* What a command gets is what was typed, for a line of any length and any *)
(* number of words: their number, their order, their letters and the name  *)
(* that is looked up (the loops of user_space_main over the buffer).       *)
THEOREM WordsRunTheorem == ShellSpec => []WordsRun
<1>1. ShellInit => WordsInv
  BY ShellInitInv, InitTyped DEF WordsInv
<1> QED BY <1>1, NextWords, PTL DEF ShellSpec, WordsInv
============================================================================
