----------------------------- MODULE PhyProofs -----------------------------
(***************************************************************************)
(* The order of transmission in PhyPipeline, for any number of workers.    *)
(***************************************************************************)
EXTENDS PhyPipeline, ModArith, SequenceTheorems, FiniteSetTheorems, TLAPS

LEMMA RemoveAtProperties ==
  ASSUME NEW S, NEW s \in Seq(S), NEW i \in 1 .. Len(s)
  PROVE  /\ RemoveAt(s, i) \in Seq(S) /\ Len(RemoveAt(s, i)) = Len(s) - 1
         /\ \A j \in 1 .. Len(s) - 1 : RemoveAt(s, i)[j] = s[IF j < i THEN j ELSE j + 1]
  <1>1. Len(s) \in Nat /\ i \in Nat /\ \A j \in 1 .. Len(s) : s[j] \in S
    BY LenProperties
  <1> DEFINE a == SubSeq(s, 1, i - 1)
             b == SubSeq(s, i + 1, Len(s))
  <1>2. /\ a \in Seq(S) /\ Len(a) = i - 1
        /\ \A j \in 1 .. i - 1 : a[j] = s[j]
    BY <1>1, SubSeqProperties
  <1>3. /\ b \in Seq(S) /\ Len(b) = Len(s) - i
        /\ \A j \in 1 .. Len(s) - i : b[j] = s[j + i]
    BY <1>1, SubSeqProperties
  <1>4. RemoveAt(s, i) = a \o b
    BY DEF RemoveAt
  <1> HIDE DEF a, b
  <1>5. RemoveAt(s, i) \in Seq(S) /\ Len(RemoveAt(s, i)) = Len(s) - 1
    BY <1>1, <1>2, <1>3, <1>4, ConcatProperties
  <1>6. ASSUME NEW j \in 1 .. Len(s) - 1
        PROVE  RemoveAt(s, i)[j] = s[IF j < i THEN j ELSE j + 1]
    <2>1. (a \o b)[j] = IF j <= Len(a) THEN a[j] ELSE b[j - Len(a)]
      BY <1>1, <1>2, <1>3, <1>6, ConcatProperties
    <2>2. CASE j < i
      BY <1>1, <1>2, <1>4, <2>1, <2>2
    <2>3. CASE ~(j < i)
      <3>1. j - (i - 1) \in 1 .. Len(s) - i /\ (j - (i - 1)) + i = j + 1 /\ ~(j <= i - 1)
        BY <1>1, <2>3
      <3>2. b[j - (i - 1)] = s[j + 1]
        BY <1>3, <3>1
      <3>3. QED
        BY <1>2, <1>4, <2>1, <2>3, <3>1, <3>2
    <2>4. QED
      BY <2>2, <2>3
  <1>7. QED
    BY <1>5, <1>6

-----------------------------------------------------------------------------
(* The semaphores in their circle.                                         *)

\* The semaphore d places after p.
After(p, d) == (p + d) % NofWorkers

LEMMA Circle ==
  ASSUME NEW p \in Workers
  PROVE  /\ After(p, 0) = p /\ (p + 1) % NofWorkers = After(p, 1)
         /\ \A d \in Nat : After(p, d) \in Workers
         /\ \A c, d \in Nat : After(After(p, c), d) = After(p, c + d)
         /\ \A d \in 1 .. NofWorkers - 1 : After(p, d) # p
  <1>1. NofWorkers \in Nat \ {0} /\ p \in Nat /\ p \in 0 .. NofWorkers - 1
    BY PoolOK DEF PoolOK, Workers
  <1>2. p % NofWorkers = p /\ After(p, 0) = p
    <2>1. (NofWorkers * 0 + p) % NofWorkers = p
      BY <1>1, Remainder
    <2>2. QED
      BY <1>1, <2>1 DEF After
  <1>3. \A d \in Nat : After(p, d) \in Workers
    <2>1. \A d \in Nat : p + d \in Nat
      BY <1>1
    <2>2. QED
      BY <1>1, <2>1, ModRange DEF After, Workers
  <1>4. ASSUME NEW c \in Nat, NEW d \in Nat
        PROVE  After(After(p, c), d) = After(p, c + d)
    <2>1. p + c \in Nat /\ (p + c) + d = p + (c + d)
      BY <1>1
    <2>2. (((p + c) % NofWorkers) + d) % NofWorkers = ((p + c) + d) % NofWorkers
      BY <1>1, <2>1, ModAdd
    <2>3. QED
      BY <2>1, <2>2 DEF After
  <1>5. \A d \in 1 .. NofWorkers - 1 : After(p, d) # p
    BY <1>1, <1>2, ModDistinct DEF After
  <1>6. QED
    BY <1>2, <1>3, <1>4, <1>5 DEF After

-----------------------------------------------------------------------------
(***************************************************************************)
(* As in the run: subframes are received once MAC and RRC are initialised, *)
(* and the first of them is the first to reach worker_end.                 *)
(***************************************************************************)

Started == ~EarlyRadio /\ Spaced

\* Until the radio thread is joined every subframe in work is in the order; after that none
\* is added, and a worker that finds its flag cleared leaves a gap.
Receiving == phase \in {"run", "join"}

PoolInv ==
    /\ \A i, j \in DOMAIN inflight : inflight[i].w = inflight[j].w => i = j
    /\ Receiving => halted = {}
    /\ ~Receiving => txrx = "done"
    /\ inflight # << >> => ready

\* The turn is at semaphore p: the subframes s in work have the semaphores o[i] places ahead
\* of it, in their order, and the next subframe, of semaphore c, the one l places ahead. While
\* subframes are received (r) they leave no gap.
Ordered(p, l, o, s, c, r) ==
    /\ p \in Workers /\ l \in 0 .. NofWorkers /\ o \in [DOMAIN s -> 0 .. NofWorkers - 1]
    /\ c = After(p, l)
    /\ \A i \in DOMAIN s : o[i] < l /\ s[i].k = After(p, o[i])
    /\ \A i, j \in DOMAIN s : i < j => o[i] < o[j]
    /\ r => l = Len(s) /\ \A i \in DOMAIN s : o[i] = i - 1

\* One permit: of the worker whose turn it is when it transmits, else of semaphore p; none
\* until the first worker has announced itself.
Turn(p, o, s, m, f) ==
    /\ \A i \in DOMAIN s : s[i].pc = "tx" => o[i] = 0
    /\ f => /\ \A k \in Workers : m[k] = 0
            /\ \A i \in DOMAIN s : /\ s[i].pc \notin {"wait", "tx"}
                                   /\ s[i].pc = "clear" => i = 1
    /\ ~f => /\ \A i \in DOMAIN s : s[i].pc # "clear"
             /\ \A k \in Workers : m[k] > 0 =>
                  /\ k = p /\ m[k] = 1
                  /\ \A i \in DOMAIN s : s[i].pc # "tx"
             /\ m[p] > 0 \/ \E i \in DOMAIN s : s[i].pc = "tx"

Chained(p, l, o, s, c, r, m, f) == Ordered(p, l, o, s, c, r) /\ Turn(p, o, s, m, f)

\* Until phy::stop posts every semaphore.
Live == phase \notin {"pool", "done"}

Chain == Live => \E p, l, o : Chained(p, l, o, inflight, cnt, Receiving, sem, isFirst)

-----------------------------------------------------------------------------
(* What the steps do to the workers in use.                                *)

LEMMA InFlight ==
  ASSUME TypeOK
  PROVE  /\ inflight \in Seq(Entry) /\ Len(inflight) \in Nat /\ Len(inflight) <= NofWorkers
         /\ DOMAIN inflight = 1 .. Len(inflight)
         /\ \A i \in DOMAIN inflight : /\ inflight[i] \in Entry /\ i \in Nat
                                       /\ inflight[i].w \in Workers /\ inflight[i].k \in Workers
         /\ NofWorkers \in Nat \ {0} /\ IsFiniteSet(Workers) /\ Cardinality(Workers) = NofWorkers
  <1>1. NofWorkers \in Nat \ {0}
    BY PoolOK DEF PoolOK
  <1>2. IsFiniteSet(Workers) /\ Cardinality(Workers) = NofWorkers
    BY <1>1, FS_Interval DEF Workers
  <1>3. inflight \in Seq(Entry) /\ Len(inflight) <= NofWorkers
    BY DEF TypeOK
  <1>4. /\ Len(inflight) \in Nat /\ DOMAIN inflight = 1 .. Len(inflight)
        /\ \A i \in DOMAIN inflight : inflight[i] \in Entry
    BY <1>3, LenProperties
  <1>5. QED
    BY <1>1, <1>2, <1>3, <1>4 DEF Entry

\* A worker goes on.
LEMMA Moved ==
  ASSUME TypeOK, NEW i \in DOMAIN inflight, NEW pc \in Pcs, Goto(i, pc)
  PROVE  /\ inflight' \in Seq(Entry) /\ Len(inflight') = Len(inflight)
         /\ DOMAIN inflight' = DOMAIN inflight
         /\ \A j \in DOMAIN inflight :
              /\ inflight'[j].w = inflight[j].w /\ inflight'[j].k = inflight[j].k
              /\ inflight'[j].pc = IF j = i THEN pc ELSE inflight[j].pc
  <1>1. /\ inflight \in Seq(Entry) /\ inflight[i] \in Entry
        /\ \A j \in DOMAIN inflight : inflight[j] \in Entry
    BY InFlight
  <1>2. [inflight[i] EXCEPT !.pc = pc] \in Entry
    BY <1>1 DEF Entry
  <1>3. inflight' = [inflight EXCEPT ![i] = [inflight[i] EXCEPT !.pc = pc]]
    BY DEF Goto
  <1>4. inflight' \in Seq(Entry) /\ Len(inflight') = Len(inflight)
    BY <1>1, <1>2, <1>3, ExceptSeq, LenProperties
  <1>5. QED
    BY <1>1, <1>3, <1>4 DEF Entry

\* The place before the removal of the i-th of what is at j after it.
Was(i, j) == IF j < i THEN j ELSE j + 1

\* A worker leaves.
LEMMA Left ==
  ASSUME TypeOK, NEW i \in DOMAIN inflight, inflight' = RemoveAt(inflight, i)
  PROVE  /\ inflight' \in Seq(Entry) /\ Len(inflight') = Len(inflight) - 1
         /\ DOMAIN inflight' = 1 .. Len(inflight) - 1
         /\ \A j \in DOMAIN inflight' :
              /\ j \in Nat /\ Was(i, j) \in DOMAIN inflight /\ Was(i, j) # i
              /\ inflight'[j] = inflight[Was(i, j)]
         /\ \A j, m \in DOMAIN inflight' : j < m => Was(i, j) < Was(i, m)
  <1>1. /\ inflight \in Seq(Entry) /\ Len(inflight) \in Nat /\ DOMAIN inflight = 1 .. Len(inflight)
    BY InFlight
  <1>2. /\ inflight' \in Seq(Entry) /\ Len(inflight') = Len(inflight) - 1
        /\ \A j \in 1 .. Len(inflight) - 1 : inflight'[j] = inflight[Was(i, j)]
    BY <1>1, RemoveAtProperties DEF Was
  <1>3. DOMAIN inflight' = 1 .. Len(inflight) - 1
    BY <1>2, LenProperties
  <1>4. QED
    BY <1>1, <1>2, <1>3 DEF Was

\* A subframe is given to an idle worker: there is room for it.
LEMMA Added ==
  ASSUME TypeOK, PoolInv, Dispatch
  PROVE  \E w \in Workers \ InUse :
           /\ inflight' = Append(inflight, [w |-> w, k |-> cnt, pc |-> "start"])
           /\ inflight' \in Seq(Entry) /\ Len(inflight') = Len(inflight) + 1
           /\ DOMAIN inflight' = 1 .. Len(inflight) + 1
           /\ \A j \in DOMAIN inflight : inflight'[j] = inflight[j]
           /\ inflight'[Len(inflight) + 1] = [w |-> w, k |-> cnt, pc |-> "start"]
           /\ Len(inflight) < NofWorkers
  <1>1. PICK w \in Workers \ InUse :
          inflight' = Append(inflight, [w |-> w, k |-> cnt, pc |-> "start"])
    BY DEF Dispatch
  <1> DEFINE e == [w |-> w, k |-> cnt, pc |-> "start"]
             n == Len(inflight)
  <1>2. e \in Entry
    BY DEF Entry, Pcs, TypeOK
  <1>3. /\ inflight \in Seq(Entry) /\ n \in Nat /\ DOMAIN inflight = 1 .. n
        /\ NofWorkers \in Nat \ {0} /\ n <= NofWorkers
        /\ IsFiniteSet(Workers) /\ Cardinality(Workers) = NofWorkers
    BY InFlight
  <1> HIDE DEF e
  <1>4. /\ inflight' \in Seq(Entry) /\ Len(inflight') = n + 1
        /\ \A j \in 1 .. n : inflight'[j] = inflight[j]
        /\ inflight'[n + 1] = e
    BY <1>1, <1>2, <1>3, AppendProperties DEF e
  <1>5. DOMAIN inflight' = 1 .. n + 1
    BY <1>3, <1>4, LenProperties
  <1>6. n < NofWorkers
    <2>0. n \in Nat /\ NofWorkers \in Nat /\ n <= NofWorkers
      BY <1>3
    <2> HIDE DEF n
    <2> SUFFICES ASSUME n = NofWorkers PROVE FALSE
      BY <2>0
    <2> USE DEF n
    <2> DEFINE T == Workers \ {w}
               f == [j \in 1 .. n |-> inflight[j].w]
    <2>1. IsFiniteSet(T) /\ Cardinality(T) = NofWorkers - 1
      BY <1>3, FS_RemoveElement
    <2>2. IsFiniteSet(1 .. n) /\ Cardinality(1 .. n) = n
      BY <1>3, FS_Interval
    <2>3. f \in [1 .. n -> T]
      BY <1>3, InFlight DEF InUse
    <2>4. Cardinality(T) < Cardinality(1 .. n)
      BY <1>3, <2>1, <2>2
    <2> HIDE DEF T, f
    <2>5. PICK i, j \in 1 .. n : i # j /\ f[i] = f[j]
      BY <2>1, <2>2, <2>3, <2>4, FS_PigeonHole
    <2>6. inflight[i].w = inflight[j].w
      BY <2>5 DEF f
    <2>7. QED
      BY <1>3, <2>5, <2>6 DEF PoolInv
  <1>7. QED
    BY <1>1, <1>3, <1>4, <1>5, <1>6 DEF e

-----------------------------------------------------------------------------
(* Types, and who is in use.                                               *)

LEMMA DispatchPool ==
  ASSUME TypeOK, PoolInv, Started, Dispatch
  PROVE  TypeOK' /\ PoolInv'
  <1>1. PICK w \in Workers \ InUse :
           /\ inflight' \in Seq(Entry) /\ Len(inflight') = Len(inflight) + 1
           /\ DOMAIN inflight' = 1 .. Len(inflight) + 1
           /\ \A j \in DOMAIN inflight : inflight'[j] = inflight[j]
           /\ inflight'[Len(inflight) + 1] = [w |-> w, k |-> cnt, pc |-> "start"]
           /\ Len(inflight) < NofWorkers
    BY Added
  <1>2. /\ Len(inflight) \in Nat /\ DOMAIN inflight = 1 .. Len(inflight)
        /\ NofWorkers \in Nat \ {0}
    BY InFlight
  <1>3. cnt' \in Workers
    BY Circle DEF Dispatch, TypeOK
  <1>4. TypeOK'
    BY <1>1, <1>2, <1>3 DEF TypeOK, Dispatch, stop
  <1>5. \A i, j \in DOMAIN inflight' : inflight'[i].w = inflight'[j].w => i = j
    <2>1. \A i \in DOMAIN inflight : inflight[i].w # w
      BY <1>1 DEF InUse
    <2>2. \A i \in DOMAIN inflight' : i \in DOMAIN inflight \/ i = Len(inflight) + 1
      BY <1>1, <1>2
    <2>3. inflight'[Len(inflight) + 1].w = w
      BY <1>1
    <2>4. \A i, j \in DOMAIN inflight : inflight[i].w = inflight[j].w => i = j
      BY DEF PoolInv
    <2>5. QED
      BY <1>1, <2>1, <2>2, <2>3, <2>4
  <1>6. ready /\ ready' = ready /\ phase' = phase /\ halted' = halted
    BY DEF Dispatch, Started, stop
  <1>7. Receiving
    BY DEF Dispatch, PoolInv
  <1>8. QED
    BY <1>4, <1>5, <1>6, <1>7 DEF PoolInv, Receiving

\* The step of a worker: on, or out of the pool.
Steps(i) == \/ \E pc \in Pcs : Goto(i, pc)
            \/ inflight' = RemoveAt(inflight, i)

LEMMA WorkSteps ==
  ASSUME TypeOK, NEW i, Work(i)
  PROVE  /\ i \in DOMAIN inflight /\ Steps(i)
         /\ sem' \in [Workers -> Nat] /\ isFirst' \in BOOLEAN
         /\ UNCHANGED <<cnt, ready, txrx, stop>>
  <1>1. i \in DOMAIN inflight
    BY DEF Work, Begin, Lock, Process, TestFirst, ClearFirst, WaitTurn, Transmit, At
  <1>2. Steps(i)
    BY DEF Work, Begin, Lock, Process, TestFirst, ClearFirst, WaitTurn, Transmit, Steps, Pcs
  <1>3. UNCHANGED <<cnt, ready, txrx, stop>> /\ isFirst' \in BOOLEAN
    BY DEF Work, Begin, Lock, Process, TestFirst, ClearFirst, WaitTurn, Transmit, chain, TypeOK
  <1>4. inflight[i].k \in Workers /\ (inflight[i].k + 1) % NofWorkers \in Workers
    BY <1>1, InFlight, Circle
  <1>5. sem' \in [Workers -> Nat]
    <2>1. CASE UNCHANGED sem
      BY <2>1 DEF TypeOK
    <2>2. CASE ClearFirst(i)
      BY <1>4, <2>2 DEF ClearFirst, TypeOK
    <2>3. CASE WaitTurn(i)
      <3>1. sem[inflight[i].k] \in Nat /\ sem[inflight[i].k] > 0
        BY <1>4, <2>3 DEF WaitTurn, TypeOK
      <3>2. sem[inflight[i].k] - 1 \in Nat
        BY <3>1
      <3>3. QED
        BY <1>4, <2>3, <3>2 DEF WaitTurn, TypeOK
    <2>4. CASE Transmit(i)
      BY <1>4, <2>4 DEF Transmit, TypeOK
    <2>5. QED
      BY <2>1, <2>2, <2>3, <2>4
      DEF Work, Begin, Lock, Process, TestFirst, chain
  <1>6. QED
    BY <1>1, <1>2, <1>3, <1>5

LEMMA WorkPool ==
  ASSUME TypeOK, PoolInv, NEW i, Work(i)
  PROVE  TypeOK' /\ PoolInv'
  <1>1. /\ i \in DOMAIN inflight /\ Steps(i)
        /\ sem' \in [Workers -> Nat] /\ isFirst' \in BOOLEAN
        /\ UNCHANGED <<cnt, ready, txrx, running, halted, freed, phase, victim>>
    BY WorkSteps DEF stop
  <1>2. /\ Len(inflight) \in Nat /\ Len(inflight) <= NofWorkers /\ NofWorkers \in Nat
        /\ DOMAIN inflight = 1 .. Len(inflight)
    BY InFlight
  <1>3. inflight # << >> /\ ready
    BY <1>1 DEF PoolInv
  <1>4. \A j, m \in DOMAIN inflight : inflight[j].w = inflight[m].w => j = m
    BY DEF PoolInv
  <1>5. /\ inflight' \in Seq(Entry) /\ Len(inflight') <= NofWorkers
        /\ \A j, m \in DOMAIN inflight' : inflight'[j].w = inflight'[m].w => j = m
    <2>1. CASE \E pc \in Pcs : Goto(i, pc)
      BY <1>1, <1>2, <1>4, <2>1, Moved
    <2>2. CASE inflight' = RemoveAt(inflight, i)
      <3>1. /\ inflight' \in Seq(Entry) /\ Len(inflight') = Len(inflight) - 1
            /\ \A j \in DOMAIN inflight' :
                 /\ j \in Nat /\ Was(i, j) \in DOMAIN inflight
                 /\ inflight'[j] = inflight[Was(i, j)]
        BY <1>1, <2>2, Left
      <3>2. i \in Nat
        BY <1>1, <1>2
      <3>3. \A j, m \in Nat : Was(i, j) = Was(i, m) => j = m
        BY <3>2 DEF Was
      <3>4. QED
        BY <1>2, <1>4, <3>1, <3>3
    <2>3. QED
      BY <1>1, <2>1, <2>2 DEF Steps
  <1>6. TypeOK'
    BY <1>1, <1>5 DEF TypeOK
  <1>7. QED
    BY <1>1, <1>3, <1>5, <1>6 DEF PoolInv, Receiving

LEMMA OthersPool ==
  ASSUME TypeOK, PoolInv, LoopTop \/ InitUpper \/ StopTxrx \/ Stop \/ UNCHANGED vars
  PROVE  TypeOK' /\ PoolInv'
  <1>1. CASE LoopTop \/ InitUpper \/ StopTxrx \/ UNCHANGED vars
    BY <1>1 DEF LoopTop, InitUpper, StopTxrx, vars, chain, stop, TypeOK, PoolInv, Receiving, Phases
  <1>2. CASE JoinTxrx \/ HaltWorker \/ StopPool
    BY <1>2 DEF JoinTxrx, HaltWorker, StopPool, chain, TypeOK, PoolInv, Receiving, Phases
  <1>3. CASE FreeWorker
    BY <1>3 DEF FreeWorker, NextVictim, chain, TypeOK, PoolInv, Receiving, Phases
  <1>4. CASE StopCommon
    <2>1. sem' \in [Workers -> Nat]
      BY <1>4 DEF StopCommon, TypeOK
    <2>2. QED
      BY <1>4, <2>1 DEF StopCommon, TypeOK, PoolInv, Receiving, Phases
  <1>5. QED
    BY <1>1, <1>2, <1>3, <1>4 DEF Stop

LEMMA PoolIsInvariant ==
  ASSUME Started
  PROVE  Spec => [](TypeOK /\ PoolInv)
  <1>1. Init => TypeOK /\ PoolInv
    <2> SUFFICES ASSUME Init PROVE TypeOK /\ PoolInv
      OBVIOUS
    <2>1. 0 \in Workers /\ NofWorkers \in Nat
      BY PoolOK DEF PoolOK, Workers
    <2>2. inflight \in Seq(Entry) /\ Len(inflight) = 0 /\ DOMAIN inflight = {}
      BY EmptySeq DEF Init
    <2>3. TypeOK
      BY <2>1, <2>2 DEF Init, TypeOK, Phases
    <2>4. PoolInv
      BY <2>2 DEF Init, PoolInv, Receiving
    <2>5. QED
      BY <2>3, <2>4
  <1>2. TypeOK /\ PoolInv /\ [Next]_vars => TypeOK' /\ PoolInv'
    BY DispatchPool, WorkPool, OthersPool DEF Next
  <1>3. QED
    BY <1>1, <1>2, PTL DEF Spec

-----------------------------------------------------------------------------
(* The chain of semaphores.                                                *)

\* The turn now, and after a step.
Here(p, l, o)  == Chained(p, l, o, inflight, cnt, Receiving, sem, isFirst)
There(p, l, o) == Chained(p, l, o, inflight', cnt', Receiving', sem', isFirst')

\* Two workers do not have the same place, and the oldest is first.
LEMMA PlacesDiffer ==
  ASSUME TypeOK, NEW p, NEW l, NEW o, Here(p, l, o)
  PROVE  /\ \A i \in DOMAIN inflight : o[i] \in Nat /\ o[i] < NofWorkers /\ o[i] < l
         /\ \A i \in DOMAIN inflight : inflight[i].k = p => o[i] = 0
         /\ \A i \in DOMAIN inflight : o[i] = 0 => i = 1 /\ inflight[i].k = p
         /\ p \in Workers /\ l \in Nat /\ l <= NofWorkers
  <1>1. p \in Workers /\ l \in Nat /\ l <= NofWorkers /\ NofWorkers \in Nat \ {0}
    <2>1. p \in Workers /\ l \in 0 .. NofWorkers
      BY DEF Here, Chained, Ordered
    <2>2. QED
      BY <2>1, InFlight
  <1>2. \A i \in DOMAIN inflight : o[i] \in 0 .. NofWorkers - 1 /\ o[i] < l
    BY DEF Here, Chained, Ordered
  <1>3. ASSUME NEW i \in DOMAIN inflight, inflight[i].k = p
        PROVE  o[i] = 0
    <2>1. inflight[i].k = After(p, o[i])
      BY DEF Here, Chained, Ordered
    <2>2. ~(o[i] \in 1 .. NofWorkers - 1)
      BY <1>1, <1>3, <2>1, Circle
    <2>3. QED
      BY <1>1, <1>2, <2>2
  <1>4. ASSUME NEW i \in DOMAIN inflight, o[i] = 0
        PROVE  i = 1 /\ inflight[i].k = p
    <2>1. inflight[i].k = p
      BY <1>1, <1>4, Circle DEF Here, Chained, Ordered
    <2>2. DOMAIN inflight = 1 .. Len(inflight) /\ Len(inflight) \in Nat
      BY InFlight
    <2>3. 1 \in DOMAIN inflight /\ o[1] \in Nat
      BY <1>2, <2>2
    <2>4. 1 < i => o[1] < o[i]
      BY <2>3 DEF Here, Chained, Ordered
    <2>5. QED
      BY <1>4, <2>1, <2>2, <2>3, <2>4
  <1>5. QED
    BY <1>1, <1>2, <1>3, <1>4

LEMMA DispatchChain ==
  ASSUME TypeOK, PoolInv, Started, Dispatch, NEW p, NEW l, NEW o, Here(p, l, o)
  PROVE  \E u : There(p, l + 1, u)
  <1>1. PICK w \in Workers \ InUse :
           /\ inflight' \in Seq(Entry) /\ Len(inflight') = Len(inflight) + 1
           /\ DOMAIN inflight' = 1 .. Len(inflight) + 1
           /\ \A j \in DOMAIN inflight : inflight'[j] = inflight[j]
           /\ inflight'[Len(inflight) + 1] = [w |-> w, k |-> cnt, pc |-> "start"]
           /\ Len(inflight) < NofWorkers
    BY Added
  <1>2. /\ DOMAIN inflight = 1 .. Len(inflight) /\ NofWorkers \in Nat \ {0}
        /\ p \in Workers
    BY InFlight DEF Here, Chained, Ordered
  <1>3. Receiving /\ Receiving' /\ UNCHANGED <<sem, isFirst>>
    BY DEF Dispatch, PoolInv, stop, Receiving
  <1>4. /\ l = Len(inflight) /\ l \in Nat
        /\ \A i \in DOMAIN inflight : o[i] = i - 1 /\ inflight[i].k = After(p, i - 1)
        /\ cnt = After(p, l)
    BY <1>3, InFlight DEF Here, Chained, Ordered
  <1> DEFINE u == [j \in 1 .. l + 1 |-> j - 1]
  <1>5. cnt' = After(p, l + 1)
    <2>1. cnt' = After(cnt, 1)
      BY Circle DEF Dispatch, TypeOK
    <2>2. After(After(p, l), 1) = After(p, l + 1)
      <3>1. \A c, d \in Nat : After(After(p, c), d) = After(p, c + d)
        BY <1>2, Circle
      <3>2. QED
        BY <1>4, <3>1
    <2>3. QED
      BY <1>4, <2>1, <2>2
  <1>6. /\ u \in [1 .. l + 1 -> 0 .. NofWorkers - 1] /\ l + 1 \in 0 .. NofWorkers
        /\ \A i \in 1 .. l + 1 : u[i] = i - 1
    BY <1>1, <1>2, <1>4
  <1> HIDE DEF u
  <1>7. \A i \in 1 .. l + 1 : i \in DOMAIN inflight \/ i = l + 1
    BY <1>2, <1>4
  <1>8. Ordered(p, l + 1, u, inflight', cnt', Receiving')
    <2>1. inflight'[l + 1].k = After(p, (l + 1) - 1)
      BY <1>1, <1>4
    <2>2. \A i \in 1 .. l + 1 : u[i] < l + 1 /\ inflight'[i].k = After(p, u[i])
      BY <1>1, <1>4, <1>6, <1>7, <2>1
    <2>3. \A i, j \in 1 .. l + 1 : i < j => u[i] < u[j]
      BY <1>4, <1>6
    <2>4. QED
      BY <1>1, <1>2, <1>4, <1>5, <1>6, <2>2, <2>3 DEF Ordered
  <1>9. Turn(p, u, inflight', sem', isFirst')
    <2>1. \A i \in DOMAIN inflight' :
            /\ \/ inflight'[i].pc = "start"
               \/ i \in DOMAIN inflight /\ inflight'[i] = inflight[i] /\ u[i] = o[i]
      BY <1>1, <1>4, <1>6, <1>7
    <2>2. Turn(p, o, inflight, sem, isFirst)
      BY DEF Here, Chained
    <2>3. \A i \in DOMAIN inflight : i \in DOMAIN inflight' /\ inflight'[i] = inflight[i]
      BY <1>1, <1>2, <1>4
    <2>4. QED
      BY <1>3, <2>1, <2>2, <2>3 DEF Turn
  <1>10. QED
    BY <1>8, <1>9 DEF There, Chained

\* A worker that goes on keeps its place.
LEMMA MovedOrder ==
  ASSUME TypeOK, NEW i \in DOMAIN inflight, NEW pc \in Pcs, Goto(i, pc),
         NEW p, NEW l, NEW o, Here(p, l, o), UNCHANGED <<cnt, phase>>
  PROVE  Ordered(p, l, o, inflight', cnt', Receiving')
  <1>1. /\ DOMAIN inflight' = DOMAIN inflight /\ Len(inflight') = Len(inflight)
        /\ \A j \in DOMAIN inflight : inflight'[j].k = inflight[j].k
    BY Moved
  <1>2. Ordered(p, l, o, inflight, cnt, Receiving) /\ cnt' = cnt /\ (Receiving' <=> Receiving)
    BY DEF Here, Chained, Receiving
  <1>3. QED
    BY <1>1, <1>2 DEF Ordered

LEMMA MovedTurn ==
  ASSUME TypeOK, NEW i \in DOMAIN inflight, NEW pc \in Pcs, Goto(i, pc),
         NEW p, NEW l, NEW o, Here(p, l, o), UNCHANGED <<sem, isFirst>>,
         inflight[i].pc # "tx", pc # "tx", pc = "clear" => isFirst /\ i = 1, pc = "wait" => ~isFirst
  PROVE  Turn(p, o, inflight', sem', isFirst')
  <1>1. /\ DOMAIN inflight' = DOMAIN inflight
        /\ \A j \in DOMAIN inflight : inflight'[j].pc = IF j = i THEN pc ELSE inflight[j].pc
    BY Moved
  <1>2. Turn(p, o, inflight, sem, isFirst) /\ sem' = sem /\ isFirst' = isFirst
    BY DEF Here, Chained
  <1>3. QED
    BY <1>1, <1>2 DEF Turn

\* A worker that ends before worker_end, once the radio thread is joined, leaves a gap.
LEMMA GapChain ==
  ASSUME TypeOK, NEW i \in DOMAIN inflight, inflight' = RemoveAt(inflight, i),
         inflight[i].pc # "tx", ~Receiving,
         NEW p, NEW l, NEW o, Here(p, l, o), UNCHANGED <<cnt, phase, sem, isFirst>>
  PROVE  \E u : There(p, l, u)
  <1> DEFINE u == [j \in 1 .. Len(inflight) - 1 |-> o[Was(i, j)]]
  <1>1. /\ DOMAIN inflight' = 1 .. Len(inflight) - 1
        /\ \A j \in DOMAIN inflight' :
             /\ j \in Nat /\ Was(i, j) \in DOMAIN inflight
             /\ inflight'[j] = inflight[Was(i, j)]
        /\ \A j, m \in DOMAIN inflight' : j < m => Was(i, j) < Was(i, m)
    BY Left
  <1>2. /\ Ordered(p, l, o, inflight, cnt, Receiving) /\ Turn(p, o, inflight, sem, isFirst)
        /\ cnt' = cnt /\ sem' = sem /\ isFirst' = isFirst /\ ~Receiving'
    BY DEF Here, Chained, Receiving
  <1>3. \A j \in DOMAIN inflight' : u[j] = o[Was(i, j)]
    BY <1>1
  <1>4. u \in [DOMAIN inflight' -> 0 .. NofWorkers - 1]
    BY <1>1, <1>2 DEF Ordered
  <1> HIDE DEF u
  <1>5. Ordered(p, l, u, inflight', cnt', Receiving')
    BY <1>1, <1>2, <1>3, <1>4 DEF Ordered
  <1>6. Turn(p, u, inflight', sem', isFirst')
    <2>1. \A j \in DOMAIN inflight' : Was(i, j) = 1 => j = 1
      <3>1. i \in Nat /\ i >= 1
        BY InFlight
      <3>2. QED
        BY <1>1, <3>1 DEF Was
    <2>2. \A m \in DOMAIN inflight : inflight[m].pc = "tx" =>
            \E j \in DOMAIN inflight' : inflight'[j].pc = "tx"
      <3>1. ASSUME NEW m \in DOMAIN inflight, inflight[m].pc = "tx"
            PROVE  \E j \in DOMAIN inflight' : inflight'[j] = inflight[m]
        <4>1. DOMAIN inflight = 1 .. Len(inflight) /\ Len(inflight) \in Nat /\ m # i
          BY <3>1, InFlight
        <4>2. CASE m < i
          <5>1. m \in DOMAIN inflight' /\ Was(i, m) = m
            BY <1>1, <4>1, <4>2 DEF Was
          <5>2. QED
            BY <1>1, <5>1
        <4>3. CASE ~(m < i)
          <5>1. m - 1 \in DOMAIN inflight' /\ Was(i, m - 1) = m
            BY <1>1, <4>1, <4>3 DEF Was
          <5>2. QED
            BY <1>1, <5>1
        <4>4. QED
          BY <4>2, <4>3
      <3>2. QED
        BY <3>1
    <2>3. QED
      BY <1>1, <1>2, <1>3, <2>1, <2>2 DEF Turn
  <1>7. QED
    BY <1>5, <1>6 DEF There, Chained

\* Up to the wait: the semaphores stay as they are.
LEMMA QuietChain ==
  ASSUME TypeOK, PoolInv, Started, NEW i,
         Begin(i) \/ Lock(i) \/ Process(i) \/ TestFirst(i),
         NEW p, NEW l, NEW o, Here(p, l, o)
  PROVE  \E u : There(p, l, u)
  <1>1. /\ i \in DOMAIN inflight /\ inflight[i].pc # "tx"
        /\ UNCHANGED <<cnt, phase, sem, isFirst>>
    BY DEF Begin, Lock, Process, TestFirst, At, chain, stop
  <1>2. CASE \E pc \in {"lock", "work", "first"} : Goto(i, pc)
    <2>1. PICK pc \in {"lock", "work", "first"} : Goto(i, pc)
      BY <1>2
    <2>2. pc \in Pcs
      BY DEF Pcs
    <2>3. Ordered(p, l, o, inflight', cnt', Receiving')
      BY <1>1, <2>1, <2>2, MovedOrder
    <2>4. Turn(p, o, inflight', sem', isFirst')
      BY <1>1, <2>1, <2>2, MovedTurn
    <2>5. QED
      BY <2>3, <2>4 DEF There, Chained
  <1>3. CASE TestFirst(i)
    <2>1. PICK pc \in {"clear", "wait"} :
            /\ Goto(i, pc) /\ (pc = "clear" => isFirst /\ i = 1) /\ (pc = "wait" => ~isFirst)
      BY <1>3 DEF TestFirst, Started, TypeOK
    <2>2. pc \in Pcs
      BY DEF Pcs
    <2>3. Ordered(p, l, o, inflight', cnt', Receiving')
      BY <1>1, <2>1, <2>2, MovedOrder
    <2>4. Turn(p, o, inflight', sem', isFirst')
      BY <1>1, <2>1, <2>2, MovedTurn
    <2>5. QED
      BY <2>3, <2>4 DEF There, Chained
  <1>4. CASE inflight' = RemoveAt(inflight, i) /\ halted # {}
    <2>1. ~Receiving
      BY <1>4 DEF PoolInv
    <2>2. QED
      BY <1>1, <1>4, <2>1, GapChain
  <1>5. ready
    BY <1>1, InFlight, EmptySeq DEF PoolInv
  <1>6. QED
    BY <1>2, <1>3, <1>4, <1>5 DEF Begin, Lock, Process

\* The first to arrive makes its own semaphore the one whose turn it is.
LEMMA ClearFirstChain ==
  ASSUME TypeOK, PoolInv, NEW i, ClearFirst(i), NEW p, NEW l, NEW o, Here(p, l, o)
  PROVE  \E q, m, u : There(q, m, u)
  <1>1. /\ i \in DOMAIN inflight /\ inflight[i].pc = "clear" /\ Goto(i, "wait")
        /\ isFirst' = FALSE /\ sem' = [sem EXCEPT ![inflight[i].k] = @ + 1]
        /\ cnt' = cnt /\ phase' = phase
    BY DEF ClearFirst, At, stop
  <1>2. Ordered(p, l, o, inflight, cnt, Receiving) /\ Turn(p, o, inflight, sem, isFirst)
    BY DEF Here, Chained
  <1>3. /\ isFirst /\ i = 1 /\ \A k \in Workers : sem[k] = 0
        /\ \A j \in DOMAIN inflight : /\ inflight[j].pc # "tx"
                                      /\ inflight[j].pc = "clear" => j = 1
    BY <1>1, <1>2 DEF Turn, TypeOK
  <1>4. /\ DOMAIN inflight' = DOMAIN inflight /\ Len(inflight') = Len(inflight)
        /\ \A j \in DOMAIN inflight :
             /\ inflight'[j].k = inflight[j].k
             /\ inflight'[j].pc = IF j = i THEN "wait" ELSE inflight[j].pc
    BY <1>1, Moved DEF Pcs
  <1>5. /\ \A j \in DOMAIN inflight : o[j] \in Nat /\ o[j] < NofWorkers /\ o[j] < l /\ j \in Nat
        /\ DOMAIN inflight = 1 .. Len(inflight) /\ NofWorkers \in Nat
        /\ p \in Workers /\ l \in Nat /\ l <= NofWorkers
    BY PlacesDiffer, InFlight
  <1>6. \A j \in DOMAIN inflight : o[1] <= o[j]
    <2>1. \A j \in DOMAIN inflight : 1 < j => o[1] < o[j]
      BY <1>1, <1>2, <1>3 DEF Ordered
    <2>2. QED
      BY <1>1, <1>3, <1>5, <2>1
  <1> DEFINE u == [j \in DOMAIN inflight |-> o[j] - o[1]]
  <1>7. PICK q \in Workers : q = After(p, o[1]) /\ q = inflight[1].k
    <2>1. inflight[1].k = After(p, o[1])
      BY <1>1, <1>2, <1>3 DEF Ordered
    <2>2. QED
      BY <1>1, <1>3, <2>1, InFlight
  <1>8. \A d \in Nat : d >= o[1] => After(p, d) = After(q, d - o[1])
    <2>1. \A c, d \in Nat : After(After(p, c), d) = After(p, c + d)
      BY <1>5, Circle
    <2>2. TAKE d \in Nat
    <2>3. HAVE d >= o[1]
    <2>4. o[1] \in Nat /\ d - o[1] \in Nat /\ o[1] + (d - o[1]) = d
      BY <1>1, <1>3, <1>5, <2>3
    <2>5. QED
      BY <1>7, <2>1, <2>4
  <1>9. /\ u \in [DOMAIN inflight -> 0 .. NofWorkers - 1]
        /\ \A j \in DOMAIN inflight : u[j] = o[j] - o[1]
        /\ o[1] \in Nat /\ o[1] < l /\ l - o[1] \in 0 .. NofWorkers
    BY <1>1, <1>3, <1>5, <1>6
  <1> HIDE DEF u
  <1>10. Ordered(q, l - o[1], u, inflight', cnt', Receiving')
    <2>1. cnt' = After(q, l - o[1])
      <3>1. cnt' = After(p, l)
        BY <1>1, <1>2 DEF Ordered
      <3>2. l >= o[1]
        BY <1>5, <1>9
      <3>3. QED
        BY <1>5, <1>8, <3>1, <3>2
    <2>2. \A j \in DOMAIN inflight : inflight[j].k = After(q, u[j])
      BY <1>2, <1>5, <1>6, <1>8, <1>9 DEF Ordered
    <2>3. \A j \in DOMAIN inflight : u[j] < l - o[1]
      BY <1>5, <1>9
    <2>4. \A j, m \in DOMAIN inflight : j < m => u[j] < u[m]
      <3>1. \A j, m \in DOMAIN inflight : j < m => o[j] < o[m]
        BY <1>2 DEF Ordered
      <3>2. \A j, m \in DOMAIN inflight :
              o[j] \in Nat /\ o[m] \in Nat /\ u[j] = o[j] - o[1] /\ u[m] = o[m] - o[1]
        BY <1>5, <1>9
      <3>3. \A j, m \in DOMAIN inflight : j < m => o[j] - o[1] < o[m] - o[1]
        BY <1>9, <3>1, <3>2
      <3>4. QED
        BY <3>2, <3>3
    <2>5. Receiving' => l - o[1] = Len(inflight') /\ \A j \in DOMAIN inflight : u[j] = j - 1
      <3>1. Receiving' => Receiving
        BY <1>1 DEF Receiving
      <3>2. Receiving => l = Len(inflight) /\ \A j \in DOMAIN inflight : o[j] = j - 1
        BY <1>2 DEF Ordered
      <3>3. QED
        BY <1>1, <1>3, <1>4, <1>5, <1>9, <3>1, <3>2
    <2>6. QED
      BY <1>4, <1>7, <1>9, <2>1, <2>2, <2>3, <2>4, <2>5 DEF Ordered
  <1>11. Turn(q, u, inflight', sem', isFirst')
    <2>1. \A k \in Workers : sem'[k] = IF k = q THEN 1 ELSE 0
      BY <1>1, <1>3, <1>7 DEF TypeOK
    <2>2. \A j \in DOMAIN inflight' : inflight'[j].pc \notin {"tx", "clear"}
      <3>1. ASSUME NEW j \in DOMAIN inflight, j # i
            PROVE  inflight[j].pc # "clear" /\ inflight[j].pc # "tx"
        <4>1. inflight[j].pc # "tx" /\ (inflight[j].pc = "clear" => j = 1)
          BY <1>3, Zenon
        <4>2. QED
          BY <1>3, <3>1, <4>1
      <3>2. \A j \in DOMAIN inflight : inflight'[j].pc # "clear" /\ inflight'[j].pc # "tx"
        BY <1>4, <3>1
      <3>3. QED
        BY <1>4, <3>2
    <2>3. QED
      BY <1>1, <2>1, <2>2 DEF Turn
  <1>12. QED
    BY <1>10, <1>11 DEF There, Chained

\* The worker that finds a permit is the one whose turn it is.
LEMMA WaitTurnChain ==
  ASSUME TypeOK, PoolInv, NEW i, WaitTurn(i), NEW p, NEW l, NEW o, Here(p, l, o)
  PROVE  There(p, l, o)
  <1>1. /\ i \in DOMAIN inflight /\ Goto(i, "tx") /\ sem[inflight[i].k] > 0
        /\ isFirst' = isFirst /\ sem' = [sem EXCEPT ![inflight[i].k] = @ - 1]
        /\ cnt' = cnt /\ phase' = phase
    BY DEF WaitTurn, At, stop
  <1>2. Turn(p, o, inflight, sem, isFirst) /\ inflight[i].k \in Workers
    BY <1>1, InFlight DEF Here, Chained
  <1>3. ~isFirst
    BY <1>1, <1>2 DEF Turn
  <1>4. /\ inflight[i].k = p /\ sem[p] = 1 /\ p \in Workers
        /\ \A k \in Workers : sem[k] > 0 => k = p
        /\ \A j \in DOMAIN inflight : inflight[j].pc \notin {"tx", "clear"}
    BY <1>1, <1>2, <1>3 DEF Turn
  <1>5. o[i] = 0
    BY <1>1, <1>4, PlacesDiffer
  <1>6. \A k \in Workers : ~(sem'[k] > 0)
    BY <1>1, <1>4 DEF TypeOK
  <1>7. /\ DOMAIN inflight' = DOMAIN inflight
        /\ \A j \in DOMAIN inflight : inflight'[j].pc = IF j = i THEN "tx" ELSE inflight[j].pc
    BY <1>1, Moved DEF Pcs
  <1>8. Turn(p, o, inflight', sem', isFirst')
    BY <1>1, <1>3, <1>4, <1>5, <1>6, <1>7 DEF Turn
  <1>9. Ordered(p, l, o, inflight', cnt', Receiving')
    BY <1>1, MovedOrder DEF Pcs
  <1>10. QED
    BY <1>8, <1>9 DEF There, Chained

\* The oldest leaves, and the turn is its neighbour's.
LEMMA TransmitChain ==
  ASSUME TypeOK, PoolInv, NEW i, Transmit(i), NEW p, NEW l, NEW o, Here(p, l, o)
  PROVE  \E q, m, u : There(q, m, u)
  <1>1. /\ i \in DOMAIN inflight /\ inflight[i].pc = "tx" /\ inflight' = RemoveAt(inflight, i)
        /\ sem' = [sem EXCEPT ![(inflight[i].k + 1) % NofWorkers] = @ + 1]
        /\ isFirst' = isFirst /\ cnt' = cnt /\ phase' = phase
    BY DEF Transmit, At, stop
  <1>2. Ordered(p, l, o, inflight, cnt, Receiving) /\ Turn(p, o, inflight, sem, isFirst)
    BY DEF Here, Chained
  <1>3. /\ o[i] = 0 /\ ~isFirst
        /\ \A k \in Workers : ~(sem[k] > 0)
        /\ \A j \in DOMAIN inflight : /\ inflight[j].pc # "clear"
                                      /\ inflight[j].pc = "tx" => o[j] = 0
    BY <1>1, <1>2 DEF Turn, TypeOK
  <1>4. /\ i = 1 /\ inflight[1].k = p
        /\ \A j \in DOMAIN inflight : o[j] = 0 => j = 1
        /\ \A j \in DOMAIN inflight : o[j] \in Nat /\ o[j] < NofWorkers /\ o[j] < l
        /\ p \in Workers /\ l \in Nat /\ l <= NofWorkers
    BY <1>1, <1>3, PlacesDiffer
  <1>5. /\ Len(inflight) \in Nat /\ DOMAIN inflight = 1 .. Len(inflight)
        /\ NofWorkers \in Nat
    BY InFlight
  <1>6. /\ DOMAIN inflight' = 1 .. Len(inflight) - 1 /\ Len(inflight') = Len(inflight) - 1
        /\ \A j \in DOMAIN inflight' : inflight'[j] = inflight[j + 1]
    <2>1. /\ DOMAIN inflight' = 1 .. Len(inflight) - 1 /\ Len(inflight') = Len(inflight) - 1
          /\ \A j \in DOMAIN inflight' : inflight'[j] = inflight[Was(i, j)]
      BY <1>1, Left
    <2>2. \A j \in 1 .. Len(inflight) - 1 : Was(i, j) = j + 1
      BY <1>4, <1>5 DEF Was
    <2>3. QED
      BY <2>1, <2>2
  <1>7. \A j \in DOMAIN inflight' : j + 1 \in DOMAIN inflight /\ o[j + 1] > 0 /\ j \in Nat
    BY <1>4, <1>5, <1>6
  <1> DEFINE u == [j \in 1 .. Len(inflight) - 1 |-> o[j + 1] - 1]
  <1>8. PICK q \in Workers : q = After(p, 1) /\ q = (p + 1) % NofWorkers
    BY <1>4, Circle
  <1>9. \A d \in Nat : d >= 1 => After(p, d) = After(q, d - 1)
    <2>1. \A c, d \in Nat : After(After(p, c), d) = After(p, c + d)
      BY <1>4, Circle
    <2>2. TAKE d \in Nat
    <2>3. HAVE d >= 1
    <2>4. d - 1 \in Nat /\ 1 + (d - 1) = d
      BY <2>3
    <2>5. QED
      BY <1>8, <2>1, <2>4
  <1>10. /\ u \in [DOMAIN inflight' -> 0 .. NofWorkers - 1]
         /\ \A j \in DOMAIN inflight' : u[j] = o[j + 1] - 1
         /\ l >= 1 /\ l - 1 \in 0 .. NofWorkers
    BY <1>1, <1>3, <1>4, <1>5, <1>6, <1>7
  <1> HIDE DEF u
  <1>11. Ordered(q, l - 1, u, inflight', cnt', Receiving')
    <2>1. cnt' = After(q, l - 1)
      BY <1>1, <1>2, <1>4, <1>9, <1>10 DEF Ordered
    <2>2. \A j \in DOMAIN inflight' : inflight'[j].k = After(q, u[j])
      <3>1. \A j \in DOMAIN inflight' : inflight'[j].k = After(p, o[j + 1])
        BY <1>2, <1>6, <1>7 DEF Ordered
      <3>2. QED
        BY <1>4, <1>7, <1>9, <1>10, <3>1
    <2>3. \A j \in DOMAIN inflight' : u[j] < l - 1
      BY <1>4, <1>7, <1>10
    <2>4. \A j, m \in DOMAIN inflight' : j < m => u[j] < u[m]
      <3>1. \A j, m \in DOMAIN inflight : j < m => o[j] < o[m]
        BY <1>2 DEF Ordered
      <3>2. \A j, m \in DOMAIN inflight' : j < m => o[j + 1] < o[m + 1]
        BY <1>7, <3>1
      <3>3. QED
        BY <1>4, <1>7, <1>10, <3>2
    <2>5. Receiving' => l - 1 = Len(inflight') /\ \A j \in DOMAIN inflight' : u[j] = j - 1
      <3>1. Receiving' => Receiving
        BY <1>1 DEF Receiving
      <3>2. Receiving => l = Len(inflight) /\ \A j \in DOMAIN inflight : o[j] = j - 1
        BY <1>2 DEF Ordered
      <3>3. ASSUME Receiving', NEW j \in DOMAIN inflight'
            PROVE  u[j] = j - 1
        <4>1. o[j + 1] = (j + 1) - 1 /\ j \in Nat /\ u[j] = o[j + 1] - 1
          BY <1>7, <1>10, <3>1, <3>2, <3>3
        <4>2. QED
          BY <4>1
      <3>4. QED
        BY <1>5, <1>6, <3>1, <3>2, <3>3
    <2>6. QED
      BY <1>8, <1>10, <2>1, <2>2, <2>3, <2>4, <2>5 DEF Ordered
  <1>12. Turn(q, u, inflight', sem', isFirst')
    <2>1. sem'[q] = 1 /\ \A k \in Workers : sem'[k] > 0 => k = q /\ sem'[k] = 1
      BY <1>1, <1>3, <1>4, <1>8 DEF TypeOK
    <2>2. \A j \in DOMAIN inflight' : inflight'[j].pc \notin {"tx", "clear"}
      <3>1. ASSUME NEW j \in DOMAIN inflight'
            PROVE  inflight[j + 1].pc \notin {"tx", "clear"}
        <4>1. j + 1 \in DOMAIN inflight /\ o[j + 1] # 0
          BY <1>7
        <4>2. inflight[j + 1].pc # "clear" /\ (inflight[j + 1].pc = "tx" => o[j + 1] = 0)
          BY <1>3, <4>1, Zenon
        <4>3. QED
          BY <4>1, <4>2
      <3>2. QED
        BY <1>6, <3>1
    <2>3. QED
      BY <1>1, <1>3, <2>1, <2>2 DEF Turn
  <1>13. QED
    BY <1>11, <1>12 DEF There, Chained

-----------------------------------------------------------------------------
(* The order of transmission.                                              *)

LEMMA OthersChain ==
  ASSUME TypeOK, PoolInv, Started, NEW p, NEW l, NEW o, Here(p, l, o),
         LoopTop \/ InitUpper \/ StopTxrx \/ Stop \/ UNCHANGED vars, Live'
  PROVE  There(p, l, o)
  <1>1. UNCHANGED <<inflight, cnt, sem, isFirst>> /\ (Receiving' => Receiving)
    <2>1. CASE LoopTop \/ InitUpper \/ StopTxrx \/ UNCHANGED vars
      BY <2>1 DEF LoopTop, InitUpper, StopTxrx, vars, chain, stop, Receiving
    <2>2. CASE JoinTxrx \/ HaltWorker \/ FreeWorker
      BY <2>2 DEF JoinTxrx, HaltWorker, FreeWorker, NextVictim, chain, Receiving
    <2>3. CASE StopCommon \/ StopPool
      BY <2>3 DEF StopCommon, StopPool, Live
    <2>4. QED
      BY <2>1, <2>2, <2>3 DEF Stop
  <1>2. QED
    BY <1>1 DEF Here, There, Chained, Ordered

\* phy::stop does not return to where the chain holds.
LEMMA LiveBefore ==
  ASSUME [Next]_vars, Live'
  PROVE  Live
  <1>1. \A i : Work(i) => phase' = phase
    BY DEF Work, Begin, Lock, Process, TestFirst, ClearFirst, WaitTurn, Transmit, stop
  <1>2. LoopTop \/ Dispatch \/ InitUpper \/ UNCHANGED vars => phase' = phase
    BY DEF LoopTop, Dispatch, InitUpper, vars, stop
  <1>3. StopTxrx \/ Stop => Live
    BY DEF StopTxrx, Stop, JoinTxrx, HaltWorker, FreeWorker, NextVictim, StopCommon, StopPool, Live
  <1>4. QED
    BY <1>1, <1>2, <1>3 DEF Next, Live

LEMMA ChainNext ==
  ASSUME TypeOK, PoolInv, Started, Chain, [Next]_vars
  PROVE  Chain'
  <1> SUFFICES ASSUME Live' PROVE \E q, m, u : There(q, m, u)
    BY DEF Chain, There
  <1>1. PICK p, l, o : Here(p, l, o)
    BY LiveBefore DEF Chain, Here
  <1>2. CASE Dispatch
    BY <1>1, <1>2, DispatchChain
  <1>3. ASSUME NEW i, Work(i)
        PROVE  \E q, m, u : There(q, m, u)
    <2>1. CASE Begin(i) \/ Lock(i) \/ Process(i) \/ TestFirst(i)
      BY <1>1, <2>1, QuietChain
    <2>2. CASE ClearFirst(i)
      BY <1>1, <2>2, ClearFirstChain
    <2>3. CASE WaitTurn(i)
      BY <1>1, <2>3, WaitTurnChain
    <2>4. CASE Transmit(i)
      BY <1>1, <2>4, TransmitChain
    <2>5. QED
      BY <1>3, <2>1, <2>2, <2>3, <2>4 DEF Work
  <1>4. CASE LoopTop \/ InitUpper \/ StopTxrx \/ Stop \/ UNCHANGED vars
    BY <1>1, <1>4, OthersChain
  <1>5. QED
    BY <1>2, <1>3, <1>4 DEF Next

\* Types, with the pool and the chain they rest on.
THEOREM PhyTypeCorrect ==
  ASSUME Started
  PROVE  Spec => []TypeOK
BY PoolIsInvariant, PTL

\* The chain holds for any number of workers, once MAC and RRC are initialised before the first
\* subframe and that subframe reaches worker_end first.
LEMMA ChainIsInvariant ==
  ASSUME Started
  PROVE  Spec => [](TypeOK /\ Chain)
  <1>1. Init => Chain
    <2> SUFFICES ASSUME Init PROVE Chain
      OBVIOUS
    <2>1. 0 \in Workers /\ NofWorkers \in Nat \ {0}
      BY PoolOK DEF PoolOK, Workers
    <2>2. inflight = << >> /\ Len(inflight) = 0 /\ DOMAIN inflight = {}
      BY EmptySeq DEF Init
    <2>3. cnt = After(0, 0) /\ 0 \in 0 .. NofWorkers
      BY <2>1, Circle DEF Init
    <2> DEFINE o == [j \in {} |-> 0]
    <2>4. o \in [DOMAIN inflight -> 0 .. NofWorkers - 1]
      BY <2>2
    <2> HIDE DEF o
    <2>5. Ordered(0, 0, o, inflight, cnt, Receiving)
      BY <2>1, <2>2, <2>3, <2>4 DEF Ordered
    <2>6. Turn(0, o, inflight, sem, isFirst)
      BY <2>2 DEF Init, Turn
    <2>7. QED
      BY <2>5, <2>6 DEF Chain, Chained
  <1>2. TypeOK /\ PoolInv /\ Chain /\ [Next]_vars => Chain'
    BY ChainNext
  <1>3. QED
    BY <1>1, <1>2, PoolIsInvariant, PTL DEF Spec

\* The workers transmit in the order of their subframes until phy::stop posts the semaphores:
\* for any number of workers, once MAC and RRC are initialised before the first subframe and
\* that subframe reaches worker_end first.
THEOREM SubframesInOrder ==
  ASSUME Started
  PROVE  Spec => []TransmitInOrder
  <1>1. TypeOK /\ Chain => TransmitInOrder
    <2> SUFFICES ASSUME TypeOK, Chain, Live, NEW i \in DOMAIN inflight, At(i, "tx")
                 PROVE  i = 1
      BY DEF TransmitInOrder, Live
    <2>1. PICK p, l, o : Here(p, l, o)
      BY DEF Chain, Here
    <2>2. o[i] = 0
      BY <2>1 DEF Here, Chained, Turn, At
    <2>3. QED
      BY <2>1, <2>2, PlacesDiffer
  <1>2. QED
    BY <1>1, ChainIsInvariant, PTL

\* The chain of semaphores (phch_common.cc:100) neither loses its permit, which would stop every
\* worker in sem_wait, nor gains a second one, which would let two workers transmit at once:
\* none before the first worker has cleared is_first_tx, then one until phy::stop.
THEOREM PermitIsKept ==
  ASSUME Started
  PROVE  Spec => []OnePermit
  <1> DEFINE Sending == {i \in DOMAIN inflight : At(i, "tx")}
  <1>1. ASSUME TypeOK, Chain, Live
        PROVE  Permits = IF isFirst THEN 0 ELSE 1
    <2>1. PICK p, l, o : Here(p, l, o)
      BY <1>1 DEF Chain, Here
    <2>2. /\ Turn(p, o, inflight, sem, isFirst) /\ p \in Workers
          /\ \A i \in DOMAIN inflight : o[i] = 0 => i = 1
          /\ \A k \in Workers : sem[k] \in Nat
      BY <1>1, <2>1, PlacesDiffer DEF Here, Chained, TypeOK
    <2>3. \A i : i \in Sending <=> i \in DOMAIN inflight /\ inflight[i].pc = "tx"
      BY DEF At
    <2>4. \A x : x \in Posted <=> \E k \in Workers : \E n \in 1 .. sem[k] : x = <<k, n>>
      BY DEF Posted
    <2>5. /\ Cardinality({}) = 0 /\ \A x : Cardinality({x}) = 1
      BY FS_EmptySet, FS_Singleton
    <2> HIDE DEF Sending
    <2>6. Permits = Cardinality(Sending) + Cardinality(Posted)
      BY DEF Permits, Sending
    <2>7. CASE isFirst
      <3>1. Sending = {}
        BY <2>2, <2>3, <2>7 DEF Turn
      <3>2. \A k \in Workers : 1 .. sem[k] = {}
        BY <2>2, <2>7 DEF Turn
      <3>3. Posted = {}
        BY <2>4, <3>2
      <3>4. QED
        BY <2>5, <2>6, <2>7, <3>1, <3>3
    <2>8. CASE ~isFirst /\ sem[p] > 0
      <3>1. /\ sem[p] = 1 /\ \A k \in Workers : k # p => sem[k] = 0
            /\ \A i \in DOMAIN inflight : inflight[i].pc # "tx"
        BY <2>2, <2>8 DEF Turn
      <3>2. Sending = {}
        BY <2>3, <3>1
      <3>3. \A k \in Workers : k # p => 1 .. sem[k] = {}
        BY <3>1
      <3>4. 1 .. sem[p] = {1}
        BY <3>1
      <3>5. Posted = {<<p, 1>>}
        <4>1. ASSUME NEW x \in Posted
              PROVE  x = <<p, 1>>
          <5>1. PICK k \in Workers : \E n \in 1 .. sem[k] : x = <<k, n>>
            BY <2>4
          <5>2. k = p
            BY <3>3, <5>1
          <5>3. QED
            BY <3>4, <5>1, <5>2
        <4>2. <<p, 1>> \in Posted
          <5>1. 1 \in 1 .. sem[p]
            BY <3>4
          <5>2. QED
            BY <2>2, <2>4, <5>1, Zenon
        <4>3. QED
          BY <4>1, <4>2
      <3>6. Cardinality(Sending) = 0 /\ Cardinality(Posted) = 1
        BY <2>5, <3>2, <3>5, Zenon
      <3>7. QED
        BY <2>6, <2>8, <3>6
    <2>9. CASE ~isFirst /\ ~(sem[p] > 0)
      <3>1. \A k \in Workers : 1 .. sem[k] = {}
        BY <2>2, <2>9 DEF Turn
      <3>2. Posted = {}
        BY <2>4, <3>1
      <3>3. Sending = {1}
        <4>1. \A i \in Sending : i = 1
          BY <2>2, <2>3 DEF Turn
        <4>2. \E i : i \in Sending
          <5>1. \E i \in DOMAIN inflight : inflight[i].pc = "tx"
            BY <2>2, <2>9 DEF Turn
          <5>2. QED
            BY <2>3, <5>1, Zenon
        <4>3. QED
          BY <4>1, <4>2
      <3>4. Cardinality(Sending) = 1 /\ Cardinality(Posted) = 0
        BY <2>5, <3>2, <3>3, Zenon
      <3>5. QED
        BY <2>6, <2>9, <3>4
    <2>10. QED
      BY <2>7, <2>8, <2>9
  <1>2. TypeOK /\ Chain => OnePermit
    BY <1>1 DEF OnePermit, Live
  <1>3. QED
    BY <1>2, ChainIsInvariant, PTL
=============================================================================
