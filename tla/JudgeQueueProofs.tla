-------------------------- MODULE JudgeQueueProofs --------------------------
(***************************************************************************)
(* The judge queue never loses a wakeup, for any set of consumers, any     *)
(* tasks and a deque of any length.                                        *)
(***************************************************************************)
EXTENDS JudgeQueue, FiniteSetTheorems, SequenceTheorems, TLAPS

\* Init and every step keep the queue's variables within their types.
THEOREM TypeInvariant == Spec => []TypeOK
<1>1. Init => TypeOK
  BY EmptySeq DEF Init, TypeOK
<1>2. TypeOK /\ [Next]_vars => TypeOK'
  <2> SUFFICES ASSUME TypeOK, [Next]_vars PROVE TypeOK'
    OBVIOUS
  <2> USE DEF TypeOK, Sleeping
  <2>1. ASSUME NEW t \in Tasks, Push(t) PROVE TypeOK'
    BY <2>1, AppendProperties DEF Push, NotifyOne
  <2>2. CASE Shutdown
    BY <2>2 DEF Shutdown, NotifyAll
  <2>3. ASSUME NEW c \in Consumers, EnterPop(c) PROVE TypeOK'
    BY <2>3 DEF EnterPop
  <2>4. ASSUME NEW c \in Consumers, NEW t \in Tasks, PopTake(c, t) PROVE TypeOK'
    BY <2>4, HeadTailProperties DEF PopTake
  <2>5. ASSUME NEW c \in Consumers, PopClosed(c) \/ PopWait(c) PROVE TypeOK'
    BY <2>5 DEF PopClosed, PopWait
  <2>6. ASSUME NEW c \in Consumers, SpuriousWake(c) PROVE TypeOK'
    BY <2>6 DEF SpuriousWake
  <2>7. CASE UNCHANGED vars
    BY <2>7 DEF vars
  <2> QED
    BY <2>1, <2>2, <2>3, <2>4, <2>5, <2>6, <2>7 DEF Next, CheckPop
<1> QED
  BY <1>1, <1>2, PTL DEF Spec

\* The set of awake consumers is finite, so its size is a number, and it grows
\* by one when one consumer starts checking.
LEMMA CheckingFinite ==
  /\ IsFiniteSet(Checking)
  /\ Cardinality(Checking) \in Nat
  /\ Checking = {} <=> Cardinality(Checking) = 0
<1>1. Checking \in SUBSET Consumers
  BY DEF Checking
<1>2. IsFiniteSet(Checking)
  BY <1>1, ConsumersAssumption, FS_Subset
<1> QED
  BY <1>2, FS_CardinalityType, FS_EmptySet

LEMMA CheckingGrows ==
  ASSUME TypeOK, NEW c \in Consumers, phase[c] # "check",
         phase' = [phase EXCEPT ![c] = "check"]
  PROVE  Cardinality(Checking') = Cardinality(Checking) + 1
<1>1. Checking' = Checking \cup {c}
  BY DEF Checking, TypeOK
<1>2. c \notin Checking
  BY DEF Checking
<1> QED
  BY <1>1, <1>2, CheckingFinite, FS_AddElement

LEMMA CheckingShrinks ==
  ASSUME TypeOK, NEW c \in Consumers, phase[c] = "check",
         NEW p \in {"out", "wait"}, phase' = [phase EXCEPT ![c] = p]
  PROVE  Cardinality(Checking') = Cardinality(Checking) - 1
<1>1. Checking' = Checking \ {c}
  BY DEF Checking, TypeOK
<1>2. c \in Checking
  BY DEF Checking
<1> QED
  BY <1>1, <1>2, CheckingFinite, FS_RemoveElement

\* NoSleepAfterStop is inductive: shutdown wakes everybody, and a consumer only
\* goes to sleep after seeing stop_ false under the same mutex.
THEOREM StopLeavesNoSleeper == Spec => []NoSleepAfterStop
<1>1. Init => NoSleepAfterStop
  BY DEF Init, NoSleepAfterStop
<1>2. TypeOK /\ NoSleepAfterStop /\ [Next]_vars => NoSleepAfterStop'
  <2> SUFFICES ASSUME TypeOK, NoSleepAfterStop, [Next]_vars
               PROVE  NoSleepAfterStop'
    OBVIOUS
  <2> USE DEF TypeOK, NoSleepAfterStop, Sleeping
  <2>1. ASSUME NEW t \in Tasks, Push(t) PROVE NoSleepAfterStop'
    BY <2>1 DEF Push, NotifyOne
  <2>2. CASE Shutdown
    BY <2>2 DEF Shutdown, NotifyAll
  <2>3. ASSUME NEW c \in Consumers, EnterPop(c) PROVE NoSleepAfterStop'
    BY <2>3 DEF EnterPop
  <2>4. ASSUME NEW c \in Consumers, NEW t \in Tasks, PopTake(c, t)
        PROVE  NoSleepAfterStop'
    BY <2>4 DEF PopTake
  <2>5. ASSUME NEW c \in Consumers, PopClosed(c) \/ PopWait(c)
        PROVE  NoSleepAfterStop'
    BY <2>5 DEF PopClosed, PopWait
  <2>6. ASSUME NEW c \in Consumers, SpuriousWake(c) PROVE NoSleepAfterStop'
    BY <2>6 DEF SpuriousWake
  <2>7. CASE UNCHANGED vars
    BY <2>7 DEF vars
  <2> QED
    BY <2>1, <2>2, <2>3, <2>4, <2>5, <2>6, <2>7 DEF Next, CheckPop
<1> QED
  BY <1>1, <1>2, TypeInvariant, PTL DEF Spec

\* NoLostWakeup is inductive given NoSleepAfterStop: a push that finds a
\* sleeper adds one task and one awake consumer, a pop removes one of each,
\* and a consumer falls asleep only when the deque is empty.
THEOREM NoWakeupIsLost == Spec => []NoLostWakeup
<1>1. Init => NoLostWakeup
  BY DEF Init, NoLostWakeup, Sleeping
<1>2. TypeOK /\ NoLostWakeup /\ [Next]_vars => NoLostWakeup'
  <2> SUFFICES ASSUME TypeOK, NoLostWakeup, [Next]_vars, Sleeping' # {}
               PROVE  (Len(items) <= Cardinality(Checking))'
    BY DEF NoLostWakeup
  <2>0. Len(items) \in Nat /\ Cardinality(Checking) \in Nat
    BY CheckingFinite, LenProperties DEF TypeOK
  <2>1. ASSUME NEW t \in Tasks, Push(t)
        PROVE  (Len(items) <= Cardinality(Checking))'
    <3>1. Len(items') = Len(items) + 1
      BY <2>1, AppendProperties DEF Push, TypeOK
    <3>2. Sleeping # {}
      BY <2>1 DEF Push, NotifyOne, Sleeping
    <3>3. PICK c \in Sleeping : phase' = [phase EXCEPT ![c] = "check"]
      BY <2>1, <3>2 DEF Push, NotifyOne
    <3>4. Cardinality(Checking') = Cardinality(Checking) + 1
      BY <3>3, CheckingGrows DEF Sleeping
    <3> QED
      BY <2>0, <3>1, <3>2, <3>4 DEF NoLostWakeup
  <2>2. CASE Shutdown
    <3>1. Sleeping' = {}
      BY <2>2 DEF Shutdown, NotifyAll, Sleeping
    <3> QED
      BY <3>1
  <2>3. ASSUME NEW c \in Consumers, EnterPop(c)
        PROVE  (Len(items) <= Cardinality(Checking))'
    <3>1. Cardinality(Checking') = Cardinality(Checking) + 1
      BY <2>3, CheckingGrows DEF EnterPop
    <3>2. Sleeping # {}
      BY <2>3 DEF EnterPop, Sleeping, TypeOK
    <3> QED
      BY <2>0, <2>3, <3>1, <3>2 DEF EnterPop, NoLostWakeup
  <2>4. ASSUME NEW c \in Consumers, NEW t \in Tasks, PopTake(c, t)
        PROVE  (Len(items) <= Cardinality(Checking))'
    <3>1. Len(items') = Len(items) - 1
      BY <2>4, HeadTailProperties DEF PopTake, TypeOK
    <3>2. Cardinality(Checking') = Cardinality(Checking) - 1
      BY <2>4, CheckingShrinks DEF PopTake
    <3>3. Sleeping # {}
      BY <2>4 DEF PopTake, Sleeping, TypeOK
    <3> QED
      BY <2>0, <3>1, <3>2, <3>3 DEF NoLostWakeup
  <2>5. ASSUME NEW c \in Consumers, PopClosed(c) \/ PopWait(c)
        PROVE  (Len(items) <= Cardinality(Checking))'
    <3>1. items' = <<>>
      BY <2>5 DEF PopClosed, PopWait
    <3>2. Len(items') = 0
      BY <3>1
    <3>3. Checking' \in SUBSET Consumers
      BY DEF Checking
    <3>4. Cardinality(Checking') \in Nat
      BY <3>3, ConsumersAssumption, FS_Subset, FS_CardinalityType
    <3> QED
      BY <3>2, <3>4
  <2>6. ASSUME NEW c \in Consumers, SpuriousWake(c)
        PROVE  (Len(items) <= Cardinality(Checking))'
    <3>1. Cardinality(Checking') = Cardinality(Checking) + 1
      BY <2>6, CheckingGrows DEF SpuriousWake
    <3>2. Sleeping # {}
      BY <2>6 DEF SpuriousWake, Sleeping
    <3> QED
      BY <2>0, <2>6, <3>1, <3>2 DEF SpuriousWake, NoLostWakeup
  <2>7. CASE UNCHANGED vars
    BY <2>7 DEF vars, NoLostWakeup, Sleeping, Checking
  <2> QED
    BY <2>1, <2>2, <2>3, <2>4, <2>5, <2>6, <2>7 DEF Next, CheckPop
<1> QED
  BY <1>1, <1>2, TypeInvariant, PTL DEF Spec
=============================================================================
