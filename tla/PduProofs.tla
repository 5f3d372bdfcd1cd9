----------------------------- MODULE PduProofs -----------------------------
(***************************************************************************)
(* The buffers of PduProcess and the grants that use them, for any number  *)
(* of users, buffers and workers and any round trip.                       *)
(***************************************************************************)
EXTENDS PduProcess, ModArith, SequenceTheorems, FiniteSetTheorems, TLAPS

Pids  == 0 .. NofHarq - 1
Slots == 0 .. RingSize - 1
Ttis  == 0 .. Period - 1

LEMMA Sizes ==
  /\ NofWorkers \in Nat \ {0} /\ HarqDelay \in Nat \ {0} /\ RingSize \in Nat \ {0}
  /\ Period \in Nat \ {0} /\ NofBufs \in Nat \ {0} /\ NofHarq \in Nat \ {0}
  /\ Period % RingSize = 0 /\ Period % NofHarq = 0
  /\ NofWorkers + 2 * HarqDelay <= RingSize /\ NofWorkers <= 2 * HarqDelay
  /\ RoundTrip \in Nat \ {0}
  /\ Users \subseteq Nat \ {0} /\ 0 \notin Users
  <1>1. /\ NofWorkers \in Nat \ {0} /\ HarqDelay \in Nat \ {0} /\ RingSize \in Nat \ {0}
        /\ Period \in Nat \ {0} /\ NofBufs \in Nat \ {0}
        /\ Period % RingSize = 0 /\ Period % NofHarq = 0
        /\ Users \subseteq Nat \ {0} /\ 0 \notin Users
    BY RingsOK DEF RingsOK
  <1>2. NofHarq \in Nat \ {0}
    BY <1>1 DEF NofHarq, MaxTb
  <1>3. NofWorkers + 2 * HarqDelay <= RingSize /\ NofWorkers <= 2 * HarqDelay
    BY <1>1, WorkersOK DEF WorkersOK
  <1>4. RoundTrip \in Nat \ {0}
    BY <1>1, <1>3 DEF RoundTrip
  <1>5. QED
    BY <1>1, <1>2, <1>3, <1>4

LEMMA Rings == /\ \A t \in Nat : Slot(t) \in Slots /\ Pid(t) \in Pids
               /\ \A t \in Nat : TtiTxUl(t) \in Ttis
               /\ Ttis \subseteq Nat
  <1>1. \A t \in Nat : Slot(t) \in Slots /\ Pid(t) \in Pids
    BY Sizes, ModRange DEF Slot, Pid, Slots, Pids
  <1>2. \A t \in Nat : t + 2 * HarqDelay \in Nat
    BY Sizes
  <1>3. \A t \in Nat : TtiTxUl(t) \in Ttis
    BY <1>2, Sizes, ModRange DEF TtiTxUl, Ttis
  <1>4. QED
    BY <1>1, <1>3, Sizes DEF Ttis

-----------------------------------------------------------------------------
(***************************************************************************)
(* The pool of one user: requested buffers pd, queued buffers q and free   *)
(* buffers fr.                                                             *)
(***************************************************************************)

Pools(pd, q, fr) == /\ pd \in [Pids -> Bufs \union {NoBuf}] /\ q \in Seq(Bufs)
                    /\ fr \in SUBSET Bufs

Owned(pd, q, fr) ==
    /\ \A p, r \in Pids : pd[p] # NoBuf /\ pd[p] = pd[r] => p = r
    /\ \A p \in Pids : pd[p] \notin fr
    /\ \A m, n \in 1 .. Len(q) : q[m] = q[n] => m = n
    /\ \A m \in 1 .. Len(q) : q[m] \notin fr
    /\ \A m \in 1 .. Len(q), p \in Pids : q[m] # pd[p]
    /\ \A b \in Bufs : b \in fr \/ (\E p \in Pids : pd[p] = b) \/ \E m \in 1 .. Len(q) : q[m] = b

LEMMA NoBufIsNone == NoBuf \notin Bufs
  BY Sizes DEF NoBuf, Bufs

\* push_pdu
LEMMA Pushed ==
  ASSUME NEW pd, NEW q, NEW fr, Pools(pd, q, fr), Owned(pd, q, fr),
         NEW p \in Pids, pd[p] # NoBuf
  PROVE  /\ Pools([pd EXCEPT ![p] = NoBuf], Append(q, pd[p]), fr)
         /\ Owned([pd EXCEPT ![p] = NoBuf], Append(q, pd[p]), fr)
  <1> DEFINE e == [pd EXCEPT ![p] = NoBuf]
             s == Append(q, pd[p])
  <1>1. pd[p] \in Bufs /\ q \in Seq(Bufs) /\ Len(q) \in Nat
    BY LenProperties DEF Pools
  <1>2. /\ s \in Seq(Bufs) /\ Len(s) = Len(q) + 1
        /\ \A m \in 1 .. Len(q) : s[m] = q[m]
        /\ s[Len(q) + 1] = pd[p]
    BY <1>1, AppendProperties
  <1>3. /\ e \in [Pids -> Bufs \union {NoBuf}] /\ e[p] = NoBuf
        /\ \A r \in Pids : r # p => e[r] = pd[r]
    BY DEF Pools
  <1>4. \A m \in 1 .. Len(s) : m \in 1 .. Len(q) \/ m = Len(q) + 1
    BY <1>1, <1>2
  <1>5. \A m \in 1 .. Len(q) : m \in 1 .. Len(s)
    BY <1>1, <1>2
  <1>6. Len(q) + 1 \in 1 .. Len(s)
    BY <1>1, <1>2
  <1> HIDE DEF e, s
  <1>7. Pools(e, s, fr)
    BY <1>2, <1>3 DEF Pools
  <1>8. Owned(e, s, fr)
    <2>1. \A r, t \in Pids : e[r] # NoBuf /\ e[r] = e[t] => r = t
      BY <1>3 DEF Owned
    <2>2. \A r \in Pids : e[r] \notin fr
      BY <1>3, NoBufIsNone DEF Owned, Pools
    <2>3. \A m, n \in 1 .. Len(s) : s[m] = s[n] => m = n
      <3>1. \A m \in 1 .. Len(q) : s[m] # s[Len(q) + 1]
        BY <1>2 DEF Owned
      <3>2. \A m, n \in 1 .. Len(q) : s[m] = s[n] => m = n
        BY <1>2 DEF Owned
      <3>3. QED
        BY <1>4, <3>1, <3>2
    <2>4. \A m \in 1 .. Len(s) : s[m] \notin fr
      BY <1>2, <1>4 DEF Owned
    <2>5. \A m \in 1 .. Len(s), r \in Pids : s[m] # e[r]
      <3>1. \A m \in 1 .. Len(s) : s[m] \in Bufs
        BY <1>2, ElementOfSeq
      <3>2. QED
        BY <1>2, <1>3, <1>4, <3>1, NoBufIsNone DEF Owned
    <2>6. ASSUME NEW b \in Bufs
          PROVE  b \in fr \/ (\E r \in Pids : e[r] = b) \/ \E m \in 1 .. Len(s) : s[m] = b
      <3>1. b \in fr \/ (\E r \in Pids : pd[r] = b) \/ \E m \in 1 .. Len(q) : q[m] = b
        BY DEF Owned
      <3>2. CASE \E r \in Pids : pd[r] = b
        BY <1>2, <1>3, <1>6, <3>2
      <3>3. CASE \E m \in 1 .. Len(q) : q[m] = b
        BY <1>2, <1>5, <3>3
      <3>4. QED
        BY <3>1, <3>2, <3>3
    <2>7. QED
      BY <2>1, <2>2, <2>3, <2>4, <2>5, <2>6 DEF Owned
  <1>9. QED
    BY <1>7, <1>8 DEF e, s

\* deallocate_pdu
LEMMA Deallocated ==
  ASSUME NEW pd, NEW q, NEW fr, Pools(pd, q, fr), Owned(pd, q, fr),
         NEW p \in Pids, pd[p] # NoBuf
  PROVE  /\ Pools([pd EXCEPT ![p] = NoBuf], q, fr \union {pd[p]})
         /\ Owned([pd EXCEPT ![p] = NoBuf], q, fr \union {pd[p]})
  <1> DEFINE e == [pd EXCEPT ![p] = NoBuf]
  <1>1. pd[p] \in Bufs
    BY DEF Pools
  <1>2. /\ e \in [Pids -> Bufs \union {NoBuf}] /\ e[p] = NoBuf
        /\ \A r \in Pids : r # p => e[r] = pd[r]
    BY DEF Pools
  <1> HIDE DEF e
  <1>3. Pools(e, q, fr \union {pd[p]})
    BY <1>1, <1>2 DEF Pools
  <1>4. Owned(e, q, fr \union {pd[p]})
    <2>1. \A r, t \in Pids : e[r] # NoBuf /\ e[r] = e[t] => r = t
      BY <1>2 DEF Owned
    <2>2. \A r \in Pids : e[r] \notin fr \union {pd[p]}
      BY <1>1, <1>2, NoBufIsNone DEF Owned, Pools
    <2>3. \A m, n \in 1 .. Len(q) : q[m] = q[n] => m = n
      BY DEF Owned
    <2>4. \A m \in 1 .. Len(q) : q[m] \notin fr \union {pd[p]}
      BY DEF Owned
    <2>5. \A m \in 1 .. Len(q), r \in Pids : q[m] # e[r]
      <3>1. \A m \in 1 .. Len(q) : q[m] \in Bufs
        BY ElementOfSeq DEF Pools
      <3>2. QED
        BY <1>2, <3>1, NoBufIsNone DEF Owned
    <2>6. \A b \in Bufs : \/ b \in fr \union {pd[p]}
                          \/ \E r \in Pids : e[r] = b
                          \/ \E m \in 1 .. Len(q) : q[m] = b
      BY <1>2 DEF Owned
    <2>7. QED
      BY <2>1, <2>2, <2>3, <2>4, <2>5, <2>6 DEF Owned
  <1>5. QED
    BY <1>3, <1>4 DEF e

\* The queue's first PDU is given back by process_pdu.
LEMMA Popped ==
  ASSUME NEW pd, NEW q, NEW fr, Pools(pd, q, fr), Owned(pd, q, fr), q # << >>
  PROVE  /\ Pools(pd, Tail(q), fr \union {Head(q)}) /\ Owned(pd, Tail(q), fr \union {Head(q)})
         /\ Head(q) \in Bufs
  <1> DEFINE s == Tail(q)
  <1>1. /\ Head(q) \in Bufs /\ s \in Seq(Bufs) /\ Len(s) = Len(q) - 1
        /\ \A m \in 1 .. Len(s) : s[m] = q[m + 1]
        /\ Len(q) \in Nat \ {0} /\ Head(q) = q[1]
    BY HeadTailProperties, EmptySeq, LenProperties DEF Pools
  <1>2. \A m \in 1 .. Len(s) : m + 1 \in 1 .. Len(q) /\ m + 1 # 1 /\ m \in Nat
    BY <1>1
  <1>3. \A m \in 1 .. Len(q) : m = 1 \/ (m - 1 \in 1 .. Len(s) /\ (m - 1) + 1 = m)
    BY <1>1
  <1>4. 1 \in 1 .. Len(q)
    BY <1>1
  <1> HIDE DEF s
  <1>5. Pools(pd, s, fr \union {Head(q)})
    BY <1>1 DEF Pools
  <1>6. Owned(pd, s, fr \union {Head(q)})
    <2>1. \A r \in Pids : pd[r] \notin fr \union {Head(q)}
      BY <1>1, <1>4 DEF Owned
    <2>2. \A m, n \in 1 .. Len(s) : s[m] = s[n] => m = n
      <3>1. \A m, n \in 1 .. Len(s) : s[m] = s[n] => m + 1 = n + 1
        BY <1>1, <1>2 DEF Owned
      <3>2. QED
        BY <1>2, <3>1
    <2>3. \A m \in 1 .. Len(s) : s[m] \notin fr \union {Head(q)}
      BY <1>1, <1>2, <1>4 DEF Owned
    <2>4. \A m \in 1 .. Len(s), r \in Pids : s[m] # pd[r]
      BY <1>1, <1>2 DEF Owned
    <2>5. ASSUME NEW b \in Bufs
          PROVE  \/ b \in fr \union {Head(q)}
                 \/ \E r \in Pids : pd[r] = b
                 \/ \E m \in 1 .. Len(s) : s[m] = b
      <3>1. b \in fr \/ (\E r \in Pids : pd[r] = b) \/ \E m \in 1 .. Len(q) : q[m] = b
        BY DEF Owned
      <3>2. ASSUME NEW m \in 1 .. Len(q), q[m] = b, m # 1
            PROVE  \E n \in 1 .. Len(s) : s[n] = b
        <4>1. m - 1 \in 1 .. Len(s) /\ (m - 1) + 1 = m
          BY <1>3, <3>2
        <4>2. s[m - 1] = b
          BY <1>1, <3>2, <4>1
        <4>3. QED
          BY <4>1, <4>2
      <3>3. QED
        BY <1>1, <3>1, <3>2
    <2>6. QED
      BY <2>1, <2>2, <2>3, <2>4, <2>5 DEF Owned
  <1>7. QED
    BY <1>1, <1>5, <1>6 DEF s

\* request_buffer
LEMMA Requested ==
  ASSUME NEW pd, NEW q, NEW fr, Pools(pd, q, fr), Owned(pd, q, fr),
         NEW p \in Pids, pd[p] = NoBuf, NEW b \in fr
  PROVE  /\ Pools([pd EXCEPT ![p] = b], q, fr \ {b})
         /\ Owned([pd EXCEPT ![p] = b], q, fr \ {b})
  <1> DEFINE e == [pd EXCEPT ![p] = b]
  <1>1. b \in Bufs
    BY DEF Pools
  <1>2. /\ e \in [Pids -> Bufs \union {NoBuf}] /\ e[p] = b
        /\ \A r \in Pids : r # p => e[r] = pd[r]
    BY <1>1 DEF Pools
  <1> HIDE DEF e
  <1>3. Pools(e, q, fr \ {b})
    BY <1>2 DEF Pools
  <1>4. Owned(e, q, fr \ {b})
    <2>1. \A r, t \in Pids : e[r] # NoBuf /\ e[r] = e[t] => r = t
      BY <1>2 DEF Owned
    <2>2. \A r \in Pids : e[r] \notin fr \ {b}
      BY <1>2 DEF Owned
    <2>3. /\ \A m, n \in 1 .. Len(q) : q[m] = q[n] => m = n
          /\ \A m \in 1 .. Len(q) : q[m] \notin fr \ {b}
      BY DEF Owned
    <2>4. \A m \in 1 .. Len(q), r \in Pids : q[m] # e[r]
      BY <1>2 DEF Owned
    <2>5. ASSUME NEW c \in Bufs
          PROVE  \/ c \in fr \ {b}
                 \/ \E r \in Pids : e[r] = c
                 \/ \E m \in 1 .. Len(q) : q[m] = c
      <3>1. c \in fr \/ (\E r \in Pids : pd[r] = c) \/ \E m \in 1 .. Len(q) : q[m] = c
        BY DEF Owned
      <3>2. ASSUME NEW r \in Pids, pd[r] = c
            PROVE  \E t \in Pids : e[t] = c
        BY <1>2, <3>2, NoBufIsNone
      <3>3. QED
        BY <1>2, <3>1, <3>2
    <2>6. QED
      BY <2>1, <2>2, <2>3, <2>4, <2>5 DEF Owned
  <1>5. QED
    BY <1>3, <1>4 DEF e

\* What the ownership says of numbers of buffers.
LEMMA OwnedCounts ==
  ASSUME NEW pd, NEW q, NEW fr, Pools(pd, q, fr), Owned(pd, q, fr),
         NEW P, P = {pd[p] : p \in DOMAIN pd} \ {NoBuf}
  PROVE  /\ Bufs = fr \union P \union ToSet(q)
         /\ Cardinality(fr) + Cardinality(P) + Len(q) = NofBufs
  <1> DEFINE Q == ToSet(q)
  <1>1. /\ IsFiniteSet(Bufs) /\ Cardinality(Bufs) = NofBufs
    BY FS_Interval, Sizes DEF Bufs
  <1>2. Len(q) \in Nat /\ DOMAIN q = 1 .. Len(q) /\ DOMAIN pd = Pids
    BY LenProperties DEF Pools
  <1>3. Q = {q[m] : m \in 1 .. Len(q)} /\ P = {pd[p] : p \in Pids} \ {NoBuf}
    BY <1>2 DEF ToSet
  <1> HIDE DEF Q
  <1>4. fr \subseteq Bufs /\ P \subseteq Bufs /\ Q \subseteq Bufs
    BY <1>3, ElementOfSeq DEF Pools
  <1>5. Bufs = fr \union P \union Q
    BY <1>3, <1>4, NoBufIsNone DEF Owned
  <1>6. fr \cap P = {} /\ (fr \union P) \cap Q = {}
    <2>1. \A b \in P : b \notin fr
      BY <1>3 DEF Owned
    <2>2. \A b \in Q : b \notin fr
      BY <1>3 DEF Owned
    <2>3. \A b \in P : b \notin Q
      BY <1>3 DEF Owned
    <2>4. QED
      BY <2>1, <2>2, <2>3
  <1>7. IsFiniteSet(fr) /\ IsFiniteSet(P) /\ IsFiniteSet(Q)
    BY <1>1, <1>4, FS_Subset
  <1>8. Cardinality(Q) = Len(q)
    <2> DEFINE f == [m \in 1 .. Len(q) |-> q[m]]
    <2>1. f \in Bijection(1 .. Len(q), Q)
      BY <1>3 DEF Owned, Bijection, Injection, Surjection, IsInjective
    <2>2. ExistsBijection(1 .. Len(q), Q)
      BY <2>1 DEF ExistsBijection
    <2>3. QED
      BY <1>2, <2>2, FS_CountingElements
  <1>9. /\ Cardinality(fr \union P) = Cardinality(fr) + Cardinality(P) - Cardinality(fr \cap P)
        /\ IsFiniteSet(fr \union P)
    BY <1>7, FS_Union
  <1>10. Cardinality((fr \union P) \union Q)
           = Cardinality(fr \union P) + Cardinality(Q) - Cardinality((fr \union P) \cap Q)
    BY <1>7, <1>9, FS_Union
  <1>11. Cardinality({}) = 0
    BY FS_EmptySet
  <1>12. Cardinality(fr) \in Nat /\ Cardinality(P) \in Nat
    BY <1>7, FS_CardinalityType
  <1>13. Cardinality(fr) + Cardinality(P) + Len(q) = NofBufs
    <2>1. Cardinality(fr \union P) = Cardinality(fr) + Cardinality(P) - 0
      BY <1>6, <1>9, <1>11
    <2>2. Cardinality((fr \union P) \union Q) = Cardinality(fr \union P) + Len(q) - 0
      BY <1>6, <1>8, <1>10, <1>11
    <2>3. NofBufs = Cardinality(fr \union P) + Len(q) - 0
      BY <1>1, <1>5, <2>2
    <2>4. QED
      BY <1>2, <1>12, <2>1, <2>3
  <1>14. QED
    BY <1>5, <1>13 DEF Q

-----------------------------------------------------------------------------
(***************************************************************************)
(* The workers fs in use when now is the next subframe: one each, with     *)
(* consecutive subframes, that of the last before now.                     *)
(***************************************************************************)

Line(fs, now) ==
    /\ \A i, k \in 1 .. Len(fs) : fs[i].w = fs[k].w => i = k
    /\ \A i \in 1 .. Len(fs) : now = (fs[i].t + (Len(fs) + 1 - i)) % Period
    /\ \A i, k \in 1 .. Len(fs) : i < k => fs[k].t = (fs[i].t + (k - i)) % Period

\* A worker that decodes has its grants where it found them, and the grant in its hands is a
\* user's.
Reads(fs, r) ==
    \A i \in 1 .. Len(fs) :
        /\ fs[i].j >= 1
        /\ fs[i].pc \in {"decode", "write"} => fs[i].nof <= Len(r[Slot(fs[i].t)])
        /\ fs[i].pc = "write" => fs[i].g.rnti \in Users

LEMMA EntryFields ==
  ASSUME NEW fs \in Seq(Entry)
  PROVE  /\ Len(fs) \in Nat /\ DOMAIN fs = 1 .. Len(fs)
         /\ \A i \in 1 .. Len(fs) :
              /\ fs[i] \in Entry /\ i \in Nat
              /\ fs[i].w \in Workers /\ fs[i].t \in Ttis /\ fs[i].t \in Nat
              /\ fs[i].j \in Nat /\ fs[i].nof \in Nat
              /\ Slot(fs[i].t) \in Slots /\ Pid(fs[i].t) \in Pids
              /\ TtiTxUl(fs[i].t) \in Ttis
              /\ Slot(TtiTxUl(fs[i].t)) \in Slots /\ Pid(TtiTxUl(fs[i].t)) \in Pids
  <1>1. /\ Len(fs) \in Nat /\ DOMAIN fs = 1 .. Len(fs)
        /\ \A i \in 1 .. Len(fs) : fs[i] \in Entry
    BY LenProperties
  <1>2. \A i \in 1 .. Len(fs) : /\ fs[i].w \in Workers /\ fs[i].t \in Ttis
                                /\ fs[i].j \in Nat /\ fs[i].nof \in Nat
    BY <1>1 DEF Entry, Ttis
  <1>3. ASSUME NEW i \in 1 .. Len(fs)
        PROVE  /\ fs[i].t \in Nat /\ TtiTxUl(fs[i].t) \in Ttis /\ TtiTxUl(fs[i].t) \in Nat
               /\ Slot(fs[i].t) \in Slots /\ Pid(fs[i].t) \in Pids
    BY <1>2, Rings
  <1>4. ASSUME NEW i \in 1 .. Len(fs)
        PROVE  Slot(TtiTxUl(fs[i].t)) \in Slots /\ Pid(TtiTxUl(fs[i].t)) \in Pids
    BY <1>3, Rings
  <1>5. \A i \in 1 .. Len(fs) : i \in Nat
    BY <1>1
  <1>6. QED
    BY <1>1, <1>2, <1>3, <1>4, <1>5

\* There are no more of them than workers.
LEMMA LineBound ==
  ASSUME NEW fs \in Seq(Entry), NEW now, Line(fs, now)
  PROVE  Len(fs) <= NofWorkers
  <1>1. /\ Len(fs) \in Nat /\ NofWorkers \in Nat
        /\ \A i \in 1 .. Len(fs) : fs[i].w \in Workers
    BY EntryFields, Sizes
  <1> SUFFICES ASSUME Len(fs) > NofWorkers PROVE FALSE
    BY <1>1
  <1> DEFINE f == [i \in 1 .. Len(fs) |-> fs[i].w]
  <1>2. /\ IsFiniteSet(Workers) /\ Cardinality(Workers) = NofWorkers
        /\ IsFiniteSet(1 .. Len(fs)) /\ Cardinality(1 .. Len(fs)) = Len(fs)
    <2>1. \A n \in Nat : IsFiniteSet(1 .. n) /\ Cardinality(1 .. n) = n
      <3>1. TAKE n \in Nat
      <3>2. 1 \in Int /\ n \in Int /\ (IF 1 > n THEN 0 ELSE n - 1 + 1) = n
        OBVIOUS
      <3>3. QED
        BY <3>2, FS_Interval
    <2>2. QED
      BY <1>1, <2>1 DEF Workers
  <1>3. f \in [1 .. Len(fs) -> Workers]
    BY <1>1
  <1>4. Cardinality(Workers) < Cardinality(1 .. Len(fs))
    BY <1>1, <1>2
  <1> HIDE DEF f
  <1>5. PICK i, k \in 1 .. Len(fs) : i # k /\ f[i] = f[k]
    BY <1>2, <1>3, <1>4, FS_PigeonHole
  <1>6. fs[i].w = fs[k].w
    BY <1>5 DEF f
  <1>7. QED
    BY <1>5, <1>6 DEF Line

\* Two residues that differ by less than the ring.
LEMMA Apart ==
  ASSUME NEW t \in Nat
  PROVE  \A a, b \in Nat :
           a < b /\ b < a + RingSize => (t + a) % RingSize # (t + b) % RingSize
  <1> SUFFICES ASSUME NEW a \in Nat, NEW b \in Nat, a < b, b < a + RingSize
               PROVE  (t + a) % RingSize # (t + b) % RingSize
    OBVIOUS
  <1>1. /\ t + a \in Nat /\ b - a \in 1 .. RingSize - 1 /\ (t + a) + (b - a) = t + b
        /\ RingSize \in Nat \ {0}
    BY Sizes
  <1>2. ((t + a) + (b - a)) % RingSize # (t + a) % RingSize
    BY <1>1, ModDistinct
  <1>3. QED
    BY <1>1, <1>2

\* The slot that a worker empties or writes is not one that another reads.
LEMMA SlotsDiffer ==
  ASSUME NEW fs \in Seq(Entry), NEW now, Line(fs, now),
         NEW i \in 1 .. Len(fs), NEW k \in 1 .. Len(fs), i # k
  PROVE  /\ Slot(fs[i].t) # Slot(fs[k].t)
         /\ Slot(TtiTxUl(fs[i].t)) # Slot(fs[k].t)
  <1>1. /\ Len(fs) \in Nat /\ Len(fs) <= NofWorkers /\ i \in Nat /\ k \in Nat
        /\ fs[i].t \in Nat /\ fs[k].t \in Nat
        /\ HarqDelay \in Nat \ {0} /\ NofWorkers \in Nat /\ RingSize \in Nat \ {0}
        /\ Period \in Nat \ {0} /\ Period % RingSize = 0
        /\ NofWorkers + 2 * HarqDelay <= RingSize /\ NofWorkers <= 2 * HarqDelay
    BY EntryFields, LineBound, Sizes
  <1>2. \A a \in Nat : (a % Period) % RingSize = a % RingSize
    BY <1>1, ModMod
  <1>3. \A t \in Nat : Slot(TtiTxUl(t)) = (t + 2 * HarqDelay) % RingSize
    <2>1. \A t \in Nat : t + 2 * HarqDelay \in Nat
      BY <1>1
    <2>2. QED
      BY <1>2, <2>1 DEF Slot, TtiTxUl
  <1>4. CASE i < k
    <2>1. fs[k].t = (fs[i].t + (k - i)) % Period
      BY <1>4 DEF Line
    <2>2. /\ k - i \in Nat /\ fs[i].t + (k - i) \in Nat /\ fs[i].t + 0 = fs[i].t
          /\ 0 < k - i /\ k - i < 2 * HarqDelay /\ k - i < RingSize
          /\ 2 * HarqDelay \in Nat /\ 2 * HarqDelay < (k - i) + RingSize
      <3>1. i \in 1 .. Len(fs) /\ k \in 1 .. Len(fs) /\ Len(fs) \in Nat
        BY <1>1
      <3>2. k - i \in Nat /\ 0 < k - i /\ k - i < Len(fs)
        BY <1>4, <3>1
      <3>3. PICK d \in Nat, h \in Nat : d = k - i /\ h = 2 * HarqDelay
        BY <1>1, <3>2
      <3>4. 0 < d /\ d < NofWorkers /\ NofWorkers + h <= RingSize /\ NofWorkers <= h
        BY <1>1, <3>2, <3>3
      <3>5. d < h /\ d < RingSize /\ h < d + RingSize
        BY <1>1, <3>3, <3>4
      <3>6. \A t \in Nat : t + d \in Nat /\ t + 0 = t
        BY <3>3
      <3>7. fs[i].t + d \in Nat /\ fs[i].t + 0 = fs[i].t
        BY <1>1, <3>6
      <3>8. QED
        BY <3>3, <3>4, <3>5, <3>7
    <2>3. Slot(fs[k].t) = (fs[i].t + (k - i)) % RingSize
      BY <1>2, <2>1, <2>2 DEF Slot
    <2>4. \A a, b \in Nat : a < b /\ b < a + RingSize
                              => (fs[i].t + a) % RingSize # (fs[i].t + b) % RingSize
      BY <1>1, Apart
    <2>5. (fs[i].t + 0) % RingSize # (fs[i].t + (k - i)) % RingSize
      <3>1. 0 \in Nat /\ k - i \in Nat /\ 0 < k - i /\ k - i < 0 + RingSize
        BY <1>1, <2>2
      <3>2. QED
        BY <2>4, <3>1
    <2>6. (fs[i].t + (k - i)) % RingSize # (fs[i].t + 2 * HarqDelay) % RingSize
      BY <2>2, <2>4
    <2>7. QED
      BY <1>1, <1>3, <2>2, <2>3, <2>5, <2>6 DEF Slot
  <1>5. CASE k < i
    <2>1. fs[i].t = (fs[k].t + (i - k)) % Period
      BY <1>5 DEF Line
    <2> DEFINE a == fs[k].t + (i - k)
    <2>2. /\ i - k \in Nat /\ a \in Nat /\ fs[k].t + 0 = fs[k].t
          /\ 0 < i - k /\ i - k < RingSize
          /\ (i - k) + 2 * HarqDelay \in Nat /\ (i - k) + 2 * HarqDelay < 0 + RingSize
          /\ 0 < (i - k) + 2 * HarqDelay
          /\ a + 2 * HarqDelay = fs[k].t + ((i - k) + 2 * HarqDelay)
          /\ 2 * HarqDelay \in Nat /\ a + 2 * HarqDelay \in Nat
      <3>1. /\ i - k \in Nat /\ 0 < i - k /\ i - k < RingSize
            /\ (i - k) + 2 * HarqDelay \in Nat /\ (i - k) + 2 * HarqDelay < 0 + RingSize
            /\ 0 < (i - k) + 2 * HarqDelay /\ 2 * HarqDelay \in Nat
        BY <1>1, <1>5
      <3>2. PICK x \in Nat : x = fs[k].t
        BY <1>1
      <3>3. PICK d \in Nat : d = i - k
        BY <3>1
      <3>4. PICK h \in Nat : h = 2 * HarqDelay
        BY <3>1
      <3>5. x + d \in Nat /\ (x + d) + h = x + (d + h) /\ (x + d) + h \in Nat /\ x + 0 = x
        OBVIOUS
      <3>6. QED
        BY <3>1, <3>2, <3>3, <3>4, <3>5
    <2>3. Slot(fs[i].t) = a % RingSize
      BY <1>2, <2>1, <2>2 DEF Slot
    <2>4. Slot(TtiTxUl(fs[i].t)) = (a + 2 * HarqDelay) % RingSize
      <3>1. TtiTxUl(fs[i].t) = (a + 2 * HarqDelay) % Period
        <4>1. ((a % Period) + 2 * HarqDelay) % Period = (a + 2 * HarqDelay) % Period
          <5>1. \A x, d \in Nat : ((x % Period) + d) % Period = (x + d) % Period
            BY <1>1, ModAdd
          <5>2. QED
            BY <2>2, <5>1
        <4>2. QED
          BY <2>1, <4>1 DEF TtiTxUl
      <3>2. QED
        BY <1>2, <2>2, <3>1 DEF Slot
    <2> \A c, d \in Nat : c < d /\ d < c + RingSize
                            => (fs[k].t + c) % RingSize # (fs[k].t + d) % RingSize
      BY <1>1, Apart
    <2>5. (fs[k].t + 0) % RingSize # (fs[k].t + (i - k)) % RingSize
      BY <1>1, <2>2
    <2>6. (fs[k].t + 0) % RingSize # (fs[k].t + ((i - k) + 2 * HarqDelay)) % RingSize
      BY <1>1, <2>2
    <2>7. QED
      BY <2>2, <2>3, <2>4, <2>5, <2>6 DEF Slot
  <1>6. QED
    BY <1>1, <1>4, <1>5

\* The same workers with the same subframes.
LEMMA LineKept ==
  ASSUME NEW fs, NEW gs, NEW now, Line(fs, now), Len(gs) = Len(fs),
         \A i \in 1 .. Len(fs) : gs[i].w = fs[i].w /\ gs[i].t = fs[i].t
  PROVE  Line(gs, now)
  BY DEF Line

\* The oldest n have left.
LEMMA LineDropped ==
  ASSUME NEW fs \in Seq(Entry), NEW now, Line(fs, now), NEW n \in 0 .. Len(fs)
  PROVE  /\ SubSeq(fs, n + 1, Len(fs)) \in Seq(Entry)
         /\ Line(SubSeq(fs, n + 1, Len(fs)), now)
         /\ Len(SubSeq(fs, n + 1, Len(fs))) = Len(fs) - n
         /\ \A i \in 1 .. Len(fs) - n : /\ n + i \in 1 .. Len(fs)
                                       /\ SubSeq(fs, n + 1, Len(fs))[i] = fs[n + i]
  <1> DEFINE gs == SubSeq(fs, n + 1, Len(fs))
  <1>1. Len(fs) \in Nat /\ n \in Nat /\ n <= Len(fs) /\ \A i \in 1 .. Len(fs) : fs[i] \in Entry
    BY EntryFields
  <1>2. /\ gs \in Seq(Entry) /\ Len(gs) = Len(fs) - n
        /\ \A i \in 1 .. Len(fs) - n : gs[i] = fs[n + i]
    <2>1. gs \in Seq(Entry) /\ Len(gs) = Len(fs) - n
      BY <1>1, SubSeqProperties
    <2>2. ASSUME NEW i \in 1 .. Len(fs) - n
          PROVE  gs[i] = fs[n + i]
      <3>1. n + i = (n + 1) + i - 1 /\ i \in 1 .. Len(fs) - (n + 1) + 1
        BY <1>1
      <3>2. gs[i] = fs[(n + 1) + i - 1]
        BY <1>1, <3>1, SubSeqProperties
      <3>3. QED
        BY <3>1, <3>2
    <2>3. QED
      BY <2>1, <2>2
  <1>3. \A i \in 1 .. Len(fs) - n : n + i \in 1 .. Len(fs) /\ i \in Nat
    BY <1>1
  <1> HIDE DEF gs
  <1>4. Line(gs, now)
    <2>1. \A i, k \in 1 .. Len(gs) : gs[i].w = gs[k].w => i = k
      <3>1. ASSUME NEW i \in 1 .. Len(gs), NEW k \in 1 .. Len(gs), gs[i].w = gs[k].w
            PROVE  n + i = n + k
        <4>1. /\ n + i \in 1 .. Len(fs) /\ n + k \in 1 .. Len(fs)
              /\ fs[n + i].w = fs[n + k].w
          BY <1>2, <1>3, <3>1
        <4>2. QED
          BY <4>1 DEF Line
      <3>2. \A i, k \in Nat : n + i = n + k => i = k
        BY <1>1
      <3>3. \A i \in 1 .. Len(gs) : i \in Nat
        OBVIOUS
      <3>4. QED
        BY <3>1, <3>2, <3>3
    <2>2. ASSUME NEW i \in 1 .. Len(gs)
          PROVE  now = (gs[i].t + (Len(gs) + 1 - i)) % Period
      <3>1. now = (fs[n + i].t + (Len(fs) + 1 - (n + i))) % Period
        BY <1>2, <1>3 DEF Line
      <3>2. Len(fs) + 1 - (n + i) = Len(gs) + 1 - i
        BY <1>1, <1>2, <1>3
      <3>3. QED
        BY <1>2, <3>1, <3>2
    <2>3. ASSUME NEW i \in 1 .. Len(gs), NEW k \in 1 .. Len(gs), i < k
          PROVE  gs[k].t = (gs[i].t + (k - i)) % Period
      <3>1. n + i < n + k /\ (n + k) - (n + i) = k - i
        BY <1>1, <1>2, <1>3, <2>3
      <3>2. fs[n + k].t = (fs[n + i].t + ((n + k) - (n + i))) % Period
        BY <1>2, <1>3, <3>1 DEF Line
      <3>3. QED
        BY <1>2, <3>1, <3>2
    <2>4. QED
      BY <2>1, <2>2, <2>3 DEF Line
  <1>5. QED
    BY <1>2, <1>3, <1>4 DEF gs

\* A subframe is received.
LEMMA LineAppended ==
  ASSUME NEW fs \in Seq(Entry), NEW now \in Ttis, Line(fs, now), NEW e \in Entry, e.t = now,
         \A i \in 1 .. Len(fs) : fs[i].w # e.w
  PROVE  Line(Append(fs, e), (now + 1) % Period)
  <1> DEFINE gs == Append(fs, e)
             n  == Len(fs)
  <1>1. /\ n \in Nat /\ Period \in Nat \ {0} /\ now \in Nat
        /\ \A i \in 1 .. n : fs[i].t \in Nat /\ i \in Nat
    BY EntryFields, Sizes, Rings
  <1>2. /\ Len(gs) = n + 1 /\ gs[n + 1] = e
        /\ \A i \in 1 .. n : gs[i] = fs[i]
    BY AppendProperties
  <1>3. \A i \in 1 .. n + 1 : (i \in 1 .. n /\ i # n + 1) \/ i = n + 1
    BY <1>1
  <1>4. \A x, d \in Nat : ((x % Period) + d) % Period = (x + d) % Period
    BY <1>1, ModAdd
  <1> HIDE DEF gs, n
  <1>5. \A i \in 1 .. n : now = (fs[i].t + (n + 1 - i)) % Period
    BY DEF Line, n
  <1>6. ASSUME NEW i \in 1 .. Len(gs)
        PROVE  (now + 1) % Period = (gs[i].t + (Len(gs) + 1 - i)) % Period
    <2>1. CASE i = n + 1
      <3>1. gs[i].t = now /\ Len(gs) + 1 - i = 1
        BY <1>1, <1>2, <2>1
      <3>2. QED
        BY <3>1
    <2>2. CASE i \in 1 .. n
      <3>1. /\ fs[i].t + (n + 1 - i) \in Nat
            /\ (fs[i].t + (n + 1 - i)) + 1 = fs[i].t + ((n + 1) + 1 - i)
        <4>1. \A x \in Nat : /\ x + (n + 1 - i) \in Nat
                             /\ (x + (n + 1 - i)) + 1 = x + ((n + 1) + 1 - i)
          BY <1>1, <2>2
        <4>2. fs[i].t \in Nat
          BY <1>1, <2>2
        <4>3. QED
          BY <4>1, <4>2
      <3>2. (((fs[i].t + (n + 1 - i)) % Period) + 1) % Period
              = ((fs[i].t + (n + 1 - i)) + 1) % Period
        BY <1>4, <3>1
      <3>3. (now + 1) % Period = (fs[i].t + ((n + 1) + 1 - i)) % Period
        BY <1>5, <2>2, <3>1, <3>2
      <3>4. QED
        BY <1>2, <2>2, <3>3
    <2>3. QED
      BY <1>2, <1>3, <2>1, <2>2
  <1>7. ASSUME NEW i \in 1 .. Len(gs), NEW k \in 1 .. Len(gs), i < k
        PROVE  gs[k].t = (gs[i].t + (k - i)) % Period
    <2>1. i \in 1 .. n
      BY <1>1, <1>2, <1>7
    <2>2. CASE k = n + 1
      <3>1. now = (fs[i].t + (n + 1 - i)) % Period
        BY <1>5, <2>1
      <3>2. gs[k].t = now /\ gs[i] = fs[i] /\ k - i = n + 1 - i
        <4>1. gs[k].t = now
          BY <1>2, <2>2
        <4>2. gs[i] = fs[i]
          BY <1>2, <2>1
        <4>3. QED
          BY <1>1, <2>1, <2>2, <4>1, <4>2
      <3>3. gs[k].t = (gs[i].t + (n + 1 - i)) % Period
        BY <3>1, <3>2
      <3>4. QED
        BY <3>2, <3>3
    <2>3. CASE k \in 1 .. n
      BY <1>2, <1>7, <2>1, <2>3 DEF Line, n
    <2>4. QED
      BY <1>2, <1>3, <2>2, <2>3
  <1>8. \A i, k \in 1 .. Len(gs) : gs[i].w = gs[k].w => i = k
    <2>1. \A i \in 1 .. n : gs[i].w # gs[n + 1].w
      BY <1>2 DEF n
    <2>2. \A i, k \in 1 .. n : gs[i].w = gs[k].w => i = k
      BY <1>2 DEF Line, n
    <2>3. QED
      BY <1>2, <1>3, <2>1, <2>2
  <1>9. Line(gs, (now + 1) % Period)
    BY <1>6, <1>7, <1>8 DEF Line
  <1>10. QED
    BY <1>9 DEF gs

-----------------------------------------------------------------------------
(* The invariant, and what the steps leave alone.                          *)

Owns == \A u \in Users : Pools(pending[u], queue[u], free[u]) /\ Owned(pending[u], queue[u], free[u])

PduInv == TypeOK /\ Line(inflight, tti) /\ Reads(inflight, ring) /\ Owns

\* A worker's record is replaced by one of the same worker and subframe.
LEMMA Replaced ==
  ASSUME NEW fs \in Seq(Entry), NEW i \in 1 .. Len(fs), NEW e \in Entry,
         e.w = fs[i].w, e.t = fs[i].t, NEW now, Line(fs, now),
         NEW gs, gs = [fs EXCEPT ![i] = e]
  PROVE  /\ gs \in Seq(Entry) /\ Len(gs) = Len(fs) /\ Line(gs, now)
         /\ \A k \in 1 .. Len(fs) : gs[k] = IF k = i THEN e ELSE fs[k]
  <1>1. /\ Len(fs) \in Nat /\ DOMAIN fs = 1 .. Len(fs)
        /\ \A k \in 1 .. Len(fs) : fs[k] \in Entry
    BY EntryFields
  <1>2. /\ gs \in Seq(Entry) /\ Len(gs) = Len(fs)
        /\ \A k \in 1 .. Len(fs) : gs[k] = IF k = i THEN e ELSE fs[k]
    BY <1>1, ExceptSeq, LenProperties
  <1>3. \A k \in 1 .. Len(fs) : gs[k].w = fs[k].w /\ gs[k].t = fs[k].t
    BY <1>2
  <1>4. Line(gs, now)
    BY <1>2, <1>3, LineKept
  <1>5. QED
    BY <1>2, <1>4

\* The values the steps write are of their types.
LEMMA ConstantsType ==
  /\ 0 \in Users \union {0} /\ NoBuf \in Bufs \union {NoBuf}
  /\ [rnti |-> 0, buf |-> NoBuf] \in Grant
  /\ Idle \in Read
  /\ \A age \in 0 .. RoundTrip : Later(age) \in 0 .. RoundTrip
  <1>1. /\ 0 \in Users \union {0} /\ NoBuf \in Bufs \union {NoBuf}
        /\ [rnti |-> 0, buf |-> NoBuf] \in Grant
    BY DEF NoBuf, Grant
  <1>2. RoundTrip \in Nat \ {0} /\ 0 \in 0 .. RoundTrip
    BY Sizes
  <1>3. Idle \in Read
    BY <1>1, <1>2 DEF Idle, Read
  <1>4. \A age \in 0 .. RoundTrip : Later(age) \in 0 .. RoundTrip
    BY <1>2 DEF Later
  <1>5. QED
    BY <1>1, <1>3, <1>4

LEMMA DispatchInv ==
  ASSUME PduInv, Dispatch
  PROVE  PduInv'
  <1>0. TypeOK /\ Line(inflight, tti) /\ Reads(inflight, ring) /\ Owns
    BY DEF PduInv
  <1>1. /\ inflight \in Seq(Entry) /\ Len(inflight) \in Nat /\ DOMAIN inflight = 1 .. Len(inflight)
        /\ tti \in Ttis /\ tti \in Nat /\ ring \in [Slots -> Seq(Grant)]
        /\ Slot(tti) \in Slots /\ ring[Slot(tti)] \in Seq(Grant)
    BY <1>0, EntryFields, Rings DEF TypeOK, Ttis, Slots
  <1>2. PICK w \in Workers \ InUse :
          inflight' = Append(inflight,
            [w |-> w, t |-> tti, pc |-> "decode", j |-> 1, nof |-> Len(ring[Slot(tti)]),
             g |-> [rnti |-> 0, buf |-> NoBuf], res |-> {}])
    BY DEF Dispatch
  <1> DEFINE e == [w |-> w, t |-> tti, pc |-> "decode", j |-> 1, nof |-> Len(ring[Slot(tti)]),
                   g |-> [rnti |-> 0, buf |-> NoBuf], res |-> {}]
  <1>3. Len(ring[Slot(tti)]) \in Nat
    BY <1>1, LenProperties
  <1>4. /\ e \in Entry /\ e.w = w /\ e.t = tti /\ e.j = 1 /\ e.pc = "decode"
        /\ e.nof = Len(ring[Slot(tti)])
    BY <1>1, <1>3, ConstantsType DEF Entry, Ttis
  <1>5. inflight' = Append(inflight, e)
    BY <1>2
  <1> HIDE DEF e
  <1>6. /\ inflight' \in Seq(Entry) /\ Len(inflight') = Len(inflight) + 1
        /\ \A i \in 1 .. Len(inflight) : inflight'[i] = inflight[i]
        /\ inflight'[Len(inflight) + 1] = e
    BY <1>1, <1>4, <1>5, AppendProperties
  <1>7. tti' = (tti + 1) % Period /\ tti' \in Ttis /\ UNCHANGED <<ring, pending, queue, free>>
    <2>1. tti + 1 \in Nat
      BY <1>1
    <2>2. QED
      BY <2>1, Sizes, ModRange DEF Dispatch, ue, Ttis
  <1>8. Line(inflight', tti')
    <2>1. \A i \in 1 .. Len(inflight) : inflight[i].w # e.w
      BY <1>1, <1>4 DEF InUse
    <2>2. QED
      BY <1>0, <1>1, <1>4, <1>5, <1>7, <2>1, LineAppended
  <1>9. Reads(inflight', ring')
    <2>1. \A i \in 1 .. Len(inflight') : i \in 1 .. Len(inflight) \/ i = Len(inflight) + 1
      BY <1>1, <1>6
    <2>2. Len(ring[Slot(tti)]) <= Len(ring[Slot(tti)]) /\ 1 >= 1
      BY <1>3
    <2>3. QED
      BY <1>0, <1>4, <1>6, <1>7, <2>1, <2>2 DEF Reads
  <1>10. pdu' \in Thread
    <2>1. pdu \in Thread /\ pdu.read \in Read /\ pdu.read.age \in 0 .. RoundTrip
      BY <1>0 DEF TypeOK, Thread, Read
    <2>2. [pdu.read EXCEPT !.age = Later(@)] \in Read
      BY <2>1, ConstantsType DEF Read
    <2>3. [pdu EXCEPT !.read = [pdu.read EXCEPT !.age = Later(@)]] \in Thread
      BY <2>1, <2>2 DEF Thread
    <2>4. pdu' \in {pdu, [pdu EXCEPT !.read = [pdu.read EXCEPT !.age = Later(@)]]}
      BY DEF Dispatch
    <2>5. QED
      BY <2>1, <2>3, <2>4
  <1>11. rem' \in Removal
    <2>1. rem \in Removal
      BY <1>0 DEF TypeOK
    <2>2. rem.user = 0 => rem' = rem
      BY DEF Dispatch
    <2>3. CASE rem.user # 0
      <3>1. rem \in [user : Users, w : 1 .. NofWorkers + 1, age : 0 .. RoundTrip]
        BY <2>1, <2>3 DEF Removal, NoRemoval
      <3>2. rem' = [rem EXCEPT !.age = Later(@)]
        BY <2>3 DEF Dispatch
      <3>3. QED
        BY <3>1, <3>2, ConstantsType DEF Removal
    <2>4. QED
      BY <2>1, <2>2, <2>3
  <1>12. TypeOK'
    BY <1>0, <1>6, <1>7, <1>10, <1>11 DEF TypeOK, Dispatch, Ttis
  <1>13. Owns'
    BY <1>0, <1>7 DEF Owns
  <1>14. QED
    BY <1>8, <1>9, <1>12, <1>13 DEF PduInv

\* A step of a worker that replaces its own record only.
LEMMA RecordStep ==
  ASSUME PduInv, NEW i \in 1 .. Len(inflight), NEW e \in Entry,
         inflight' = [inflight EXCEPT ![i] = e],
         e.w = inflight[i].w, e.t = inflight[i].t, e.j >= 1,
         e.pc \in {"decode", "write"} => e.nof = inflight[i].nof /\ inflight[i].pc \in {"decode", "write"},
         e.pc = "write" => e.g.rnti \in Users, UNCHANGED tti
  PROVE  /\ inflight' \in Seq(Entry) /\ Line(inflight', tti') /\ Reads(inflight', ring)
         /\ Len(inflight') = Len(inflight)
         /\ \A k \in 1 .. Len(inflight) : inflight'[k] = IF k = i THEN e ELSE inflight[k]
  <1>1. inflight \in Seq(Entry) /\ Line(inflight, tti) /\ Reads(inflight, ring)
    BY DEF PduInv, TypeOK
  <1>2. /\ inflight' \in Seq(Entry) /\ Len(inflight') = Len(inflight) /\ Line(inflight', tti)
        /\ \A k \in 1 .. Len(inflight) : inflight'[k] = IF k = i THEN e ELSE inflight[k]
    <2>1. inflight' \in Seq(Entry) /\ Len(inflight') = Len(inflight)
      BY <1>1, Replaced
    <2>2. Line(inflight', tti)
      BY <1>1, Replaced, Zenon
    <2>3. \A k \in 1 .. Len(inflight) : inflight'[k] = IF k = i THEN e ELSE inflight[k]
      BY <1>1, Replaced
    <2>4. QED
      BY <2>1, <2>2, <2>3
  <1>3. e.pc \in {"decode", "write"} => e.nof <= Len(ring[Slot(e.t)])
    BY <1>1 DEF Reads
  <1>4. Reads(inflight', ring)
    <2>1. PICK gs : gs = inflight'
      OBVIOUS
    <2>2. \A k \in 1 .. Len(gs) : gs[k] = e \/ gs[k] = inflight[k]
      BY <1>2, <2>1
    <2>3. Len(gs) = Len(inflight)
      BY <1>2, <2>1
    <2>4. Reads(gs, ring)
      BY <1>1, <1>3, <2>2, <2>3 DEF Reads
    <2>5. QED
      BY <2>1, <2>4
  <1>5. QED
    BY <1>2, <1>4

LEMMA BeginDecodeInv ==
  ASSUME PduInv, NEW i, BeginDecode(i)
  PROVE  PduInv'
  <1>0. TypeOK /\ Reads(inflight, ring) /\ Owns
    BY DEF PduInv
  <1>1. /\ inflight \in Seq(Entry) /\ i \in 1 .. Len(inflight) /\ inflight[i].pc = "decode"
        /\ inflight[i].j <= inflight[i].nof
        /\ UNCHANGED <<tti, ring, pending, queue, free, life, rem, slow, pdu, haveData, phase>>
    BY <1>0, EntryFields DEF BeginDecode, At, ue, TypeOK
  <1> DEFINE f == inflight[i]
             g == ring[Slot(f.t)][f.j]
  <1>2. /\ f \in Entry /\ f.j \in Nat /\ f.nof \in Nat /\ Slot(f.t) \in Slots
        /\ f.j + 1 \in Nat /\ f.j >= 1 /\ f.j + 1 >= 1 /\ f.nof <= Len(ring[Slot(f.t)])
        /\ f.pc = "decode"
    <2>1. f \in Entry /\ f.j \in Nat /\ f.nof \in Nat /\ Slot(f.t) \in Slots
      BY <1>1, EntryFields
    <2>2. f.j >= 1 /\ f.nof <= Len(ring[Slot(f.t)])
      BY <1>0, <1>1 DEF Reads
    <2>3. QED
      BY <1>1, <2>1, <2>2
  <1>3. g \in Grant
    <2>1. ring[Slot(f.t)] \in Seq(Grant)
      BY <1>0, <1>2 DEF TypeOK, Slots
    <2>2. Len(ring[Slot(f.t)]) \in Nat
      BY <2>1, LenProperties
    <2>3. f.j \in 1 .. Len(ring[Slot(f.t)])
      BY <1>1, <1>2, <2>2
    <2>4. QED
      BY <2>1, <2>3, ElementOfSeq
  <1>4. inflight' = [inflight EXCEPT ![i] = IF g.rnti = 0 THEN [f EXCEPT !.j = f.j + 1]
                                  ELSE [f EXCEPT !.j = f.j + 1, !.pc = "write", !.g = g]]
    BY DEF BeginDecode
  <1> HIDE DEF g, f
  <1>5. /\ inflight' \in Seq(Entry) /\ Line(inflight', tti') /\ Reads(inflight', ring)
    <2> DEFINE e == [f EXCEPT !.j = f.j + 1]
               h == [f EXCEPT !.j = f.j + 1, !.pc = "write", !.g = g]
    <2>1. CASE g.rnti = 0
      <3>1. /\ e \in Entry /\ e.w = f.w /\ e.t = f.t /\ e.j = f.j + 1 /\ e.pc = f.pc /\ e.nof = f.nof
        BY <1>2 DEF Entry
      <3>2. inflight' = [inflight EXCEPT ![i] = e]
        BY <1>4, <2>1
      <3> HIDE DEF e
      <3>3. /\ e.w = inflight[i].w /\ e.t = inflight[i].t /\ e.j >= 1
            /\ e.pc = "decode" /\ e.nof = inflight[i].nof
        BY <1>2, <3>1 DEF f
      <3>4. QED
        BY <1>1, <3>1, <3>2, <3>3, RecordStep
    <2>2. CASE g.rnti # 0
      <3>1. /\ h \in Entry /\ h.w = f.w /\ h.t = f.t /\ h.j = f.j + 1 /\ h.pc = "write"
            /\ h.nof = f.nof /\ h.g = g
        BY <1>2, <1>3 DEF Entry
      <3>2. inflight' = [inflight EXCEPT ![i] = h]
        BY <1>4, <2>2
      <3>3. g.rnti \in Users
        BY <1>3, <2>2 DEF Grant
      <3> HIDE DEF h
      <3>4. /\ h.w = inflight[i].w /\ h.t = inflight[i].t /\ h.j >= 1 /\ h.g.rnti \in Users
            /\ h.pc = "write" /\ h.nof = inflight[i].nof
        BY <1>2, <3>1, <3>3 DEF f
      <3>5. QED
        BY <1>1, <3>1, <3>2, <3>4, RecordStep
    <2>3. QED
      BY <2>1, <2>2
  <1>6. QED
    BY <1>0, <1>1, <1>5 DEF PduInv, TypeOK, Owns

\* The pool of one user changes.
LEMMA OneUser ==
  ASSUME TypeOK, Owns, NEW u \in Users, NEW pd, NEW q, NEW fr,
         Pools(pd, q, fr), Owned(pd, q, fr),
         pending' = [pending EXCEPT ![u] = pd], queue' = [queue EXCEPT ![u] = q],
         free' = [free EXCEPT ![u] = fr]
  PROVE  /\ Owns'
         /\ pending' \in [Users -> [Pids -> Bufs \union {NoBuf}]]
         /\ queue' \in [Users -> Seq(Bufs)] /\ free' \in [Users -> SUBSET Bufs]
  <1>1. /\ pending \in [Users -> [Pids -> Bufs \union {NoBuf}]]
        /\ queue \in [Users -> Seq(Bufs)] /\ free \in [Users -> SUBSET Bufs]
    BY DEF TypeOK, Pids
  <1>2. \A v \in Users : /\ pending'[v] = IF v = u THEN pd ELSE pending[v]
                         /\ queue'[v] = IF v = u THEN q ELSE queue[v]
                         /\ free'[v] = IF v = u THEN fr ELSE free[v]
    BY <1>1
  <1>3. pd \in [Pids -> Bufs \union {NoBuf}] /\ q \in Seq(Bufs) /\ fr \in SUBSET Bufs
    BY DEF Pools
  <1>4. QED
    BY <1>1, <1>2, <1>3 DEF Owns

PoolTypes == /\ pending \in [Users -> [Pids -> Bufs \union {NoBuf}]]
             /\ queue \in [Users -> Seq(Bufs)] /\ free \in [Users -> SUBSET Bufs]

LEMMA CrcInfoOwns ==
  ASSUME TypeOK, Owns, NEW u \in Users, NEW t \in Nat, NEW crc \in BOOLEAN, CrcInfo(u, t, crc)
  PROVE  Owns' /\ PoolTypes' /\ pdu' \in Thread /\ haveData' \in BOOLEAN
  <1> DEFINE p == Pid(t)
  <1>1. p \in Pids /\ Pools(pending[u], queue[u], free[u]) /\ Owned(pending[u], queue[u], free[u])
    BY Rings DEF Owns
  <1>2. PoolTypes
    BY DEF TypeOK, PoolTypes, Pids
  <1> HIDE DEF p
  <1>3. ASSUME PushPdu(u, p), pending[u][p] # NoBuf
        PROVE  Owns' /\ PoolTypes'
    <2> DEFINE pd == [pending[u] EXCEPT ![p] = NoBuf]
               q  == Append(queue[u], pending[u][p])
    <2>1. Pools(pd, q, free[u]) /\ Owned(pd, q, free[u])
      BY <1>1, <1>3, Pushed
    <2>2. /\ pending' = [pending EXCEPT ![u] = pd] /\ queue' = [queue EXCEPT ![u] = q]
          /\ free' = [free EXCEPT ![u] = free[u]]
      BY <1>2, <1>3 DEF PushPdu, PoolTypes
    <2> HIDE DEF pd, q
    <2>3. QED
      BY <2>1, <2>2, OneUser DEF PoolTypes
  <1>4. ASSUME DeallocatePdu(u, p), pending[u][p] # NoBuf
        PROVE  Owns' /\ PoolTypes'
    <2> DEFINE pd == [pending[u] EXCEPT ![p] = NoBuf]
               fr == free[u] \union {pending[u][p]}
    <2>1. Pools(pd, queue[u], fr) /\ Owned(pd, queue[u], fr)
      BY <1>1, <1>4, Deallocated
    <2>2. /\ pending' = [pending EXCEPT ![u] = pd] /\ queue' = [queue EXCEPT ![u] = queue[u]]
          /\ free' = [free EXCEPT ![u] = fr]
      BY <1>2, <1>4 DEF DeallocatePdu, PoolTypes
    <2> HIDE DEF pd, fr
    <2>3. QED
      BY <2>1, <2>2, OneUser DEF PoolTypes
  <1>5. ASSUME UNCHANGED <<pending, queue, free>>
        PROVE  Owns' /\ PoolTypes'
    BY <1>2, <1>5 DEF PoolTypes, Owns
  <1>6. pdu' \in Thread /\ haveData' \in BOOLEAN
    <2>1. pdu \in Thread /\ haveData \in BOOLEAN
      BY DEF TypeOK
    <2>2. [pdu EXCEPT !.pc = "test"] \in Thread
      BY <2>1 DEF Thread
    <2>3. /\ pdu' \in {pdu, [pdu EXCEPT !.pc = "test"]}
          /\ haveData' \in {haveData, TRUE}
      BY DEF CrcInfo, Notify
    <2>4. QED
      BY <2>1, <2>2, <2>3
  <1>7. QED
    BY <1>3, <1>4, <1>5, <1>6 DEF CrcInfo, ue, p

LEMMA EndDecodeInv ==
  ASSUME PduInv, NEW i, NEW crc \in BOOLEAN, EndDecode(i, crc)
  PROVE  PduInv'
  <1>0. TypeOK /\ Reads(inflight, ring) /\ Owns
    BY DEF PduInv
  <1>1. /\ inflight \in Seq(Entry) /\ i \in 1 .. Len(inflight) /\ inflight[i].pc = "write"
        /\ CrcInfo(inflight[i].g.rnti, inflight[i].t, crc)
        /\ UNCHANGED <<tti, ring, life, rem, slow, phase>>
    BY <1>0, EntryFields DEF EndDecode, At, TypeOK
  <1> DEFINE f == inflight[i]
             e == [f EXCEPT !.pc = "decode", !.g = [rnti |-> 0, buf |-> NoBuf]]
  <1>2. f \in Entry /\ f.t \in Nat /\ f.j >= 1 /\ f.g.rnti \in Users
    BY <1>0, <1>1, EntryFields DEF Reads
  <1>3. /\ e \in Entry /\ e.w = f.w /\ e.t = f.t /\ e.j = f.j /\ e.pc = "decode"
        /\ e.nof = f.nof
    BY <1>2, ConstantsType DEF Entry
  <1>4. inflight' = [inflight EXCEPT ![i] = e]
    BY <1>1, <1>2 DEF EndDecode, Entry
  <1> HIDE DEF e
  <1>5. inflight' \in Seq(Entry) /\ Line(inflight', tti') /\ Reads(inflight', ring)
    BY <1>1, <1>2, <1>3, <1>4, RecordStep
  <1>6. Owns' /\ PoolTypes' /\ pdu' \in Thread /\ haveData' \in BOOLEAN
    BY <1>0, <1>1, <1>2, CrcInfoOwns
  <1>7. TypeOK'
    BY <1>0, <1>1, <1>5, <1>6 DEF TypeOK, PoolTypes, Pids
  <1>8. QED
    BY <1>1, <1>5, <1>6, <1>7 DEF PduInv

LEMMA ScheduleInv ==
  ASSUME PduInv, NEW i, Schedule(i)
  PROVE  PduInv'
  <1>0. TypeOK /\ Reads(inflight, ring) /\ Line(inflight, tti) /\ Owns
    BY DEF PduInv
  <1>1. /\ inflight \in Seq(Entry) /\ i \in 1 .. Len(inflight) /\ inflight[i].pc = "decode"
        /\ UNCHANGED <<tti, pending, queue, free, life, rem, slow, pdu, haveData, phase>>
    BY <1>0, EntryFields DEF Schedule, At, ue, TypeOK
  <1>2. PICK S \in SUBSET Users : inflight' = [inflight EXCEPT ![i].pc = "alloc", ![i].res = S]
    BY DEF Schedule
  <1> DEFINE f == inflight[i]
             e == [f EXCEPT !.pc = "alloc", !.res = S]
  <1>3. f \in Entry /\ f.j >= 1 /\ Slot(f.t) \in Slots
    BY <1>0, <1>1, EntryFields DEF Reads
  <1>4. /\ e \in Entry /\ e.w = f.w /\ e.t = f.t /\ e.j = f.j /\ e.pc = "alloc"
    BY <1>3 DEF Entry
  <1>5. inflight' = [inflight EXCEPT ![i] = e]
    BY <1>1, <1>2, <1>3 DEF Entry
  <1> HIDE DEF e
  <1>6. /\ inflight' \in Seq(Entry) /\ Line(inflight', tti') /\ Reads(inflight', ring)
        /\ Len(inflight') = Len(inflight)
        /\ \A k \in 1 .. Len(inflight) : inflight'[k] = IF k = i THEN e ELSE inflight[k]
    BY <1>1, <1>3, <1>4, <1>5, RecordStep
  <1>7. /\ ring' = [ring EXCEPT ![Slot(f.t)] = << >>] /\ ring \in [Slots -> Seq(Grant)]
    BY <1>0 DEF Schedule, TypeOK, Slots
  <1>8. ring' \in [Slots -> Seq(Grant)] /\ \A s \in Slots : s # Slot(f.t) => ring'[s] = ring[s]
    BY <1>7, EmptySeq
  <1>9. Reads(inflight', ring')
    <2>1. \A k \in 1 .. Len(inflight) : k # i => /\ Slot(f.t) # Slot(inflight[k].t)
                                                /\ Slot(inflight[k].t) \in Slots
      BY <1>0, <1>1, SlotsDiffer, EntryFields
    <2>2. \A k \in 1 .. Len(inflight) : k # i => ring'[Slot(inflight[k].t)] = ring[Slot(inflight[k].t)]
      BY <1>8, <2>1
    <2>3. QED
      BY <1>4, <1>6, <2>2 DEF Reads
  <1>10. QED
    BY <1>0, <1>1, <1>6, <1>8, <1>9 DEF PduInv, TypeOK, Owns, Slots

\* What get_ul_sched does to the pools.
LEMMA RequestOwns ==
  ASSUME TypeOK, Owns, NEW S \in SUBSET Users, NEW p \in Pids, UNCHANGED queue,
         pending' = [u \in Users |-> IF u \in S /\ Request(u, p) # NoBuf
                                    THEN [pending[u] EXCEPT ![p] = Request(u, p)]
                                    ELSE pending[u]],
         free' = [u \in Users |-> IF u \in S THEN free[u] \ {Request(u, p)} ELSE free[u]]
  PROVE  Owns' /\ PoolTypes' /\ \A u \in Users : Request(u, p) \in Bufs \union {NoBuf}
  <1>1. PoolTypes
    BY DEF TypeOK, PoolTypes, Pids
  <1>2. ASSUME NEW u \in Users
        PROVE  /\ Pools(pending'[u], queue'[u], free'[u]) /\ Owned(pending'[u], queue'[u], free'[u])
               /\ Request(u, p) \in Bufs \union {NoBuf}
    <2> DEFINE b == Request(u, p)
    <2>1. Pools(pending[u], queue[u], free[u]) /\ Owned(pending[u], queue[u], free[u])
      BY DEF Owns
    <2>2. b = NoBuf \/ (b \in free[u] /\ pending[u][p] = NoBuf)
      BY DEF Request
    <2>3. /\ pending'[u] = IF u \in S /\ b # NoBuf THEN [pending[u] EXCEPT ![p] = b]
                           ELSE pending[u]
          /\ free'[u] = IF u \in S THEN free[u] \ {b} ELSE free[u]
          /\ queue'[u] = queue[u]
      OBVIOUS
    <2> HIDE DEF b
    <2>4. free[u] \subseteq Bufs
      BY <2>1 DEF Pools
    <2>5. CASE u \in S /\ b # NoBuf
      <3>1. Pools([pending[u] EXCEPT ![p] = b], queue[u], free[u] \ {b})
        BY <2>1, <2>2, <2>5, Requested
      <3>2. Owned([pending[u] EXCEPT ![p] = b], queue[u], free[u] \ {b})
        BY <2>1, <2>2, <2>5, Requested
      <3>3. QED
        BY <2>2, <2>3, <2>4, <2>5, <3>1, <3>2 DEF b
    <2>6. CASE ~(u \in S /\ b # NoBuf)
      <3>1. pending'[u] = pending[u]
        BY <2>3, <2>6
      <3>2. free'[u] = free[u]
        BY <2>3, <2>4, <2>6, NoBufIsNone
      <3>3. QED
        BY <2>1, <2>2, <2>3, <2>4, <3>1, <3>2 DEF b
    <2>7. QED
      BY <2>5, <2>6
  <1>3. PoolTypes'
    <2>1. \A u \in Users : /\ pending'[u] \in [Pids -> Bufs \union {NoBuf}]
                           /\ free'[u] \in SUBSET Bufs
      BY <1>2 DEF Pools
    <2>2. /\ pending' = [u \in Users |-> pending'[u]] /\ free' = [u \in Users |-> free'[u]]
      OBVIOUS
    <2>3. QED
      BY <1>1, <2>1, <2>2 DEF PoolTypes
  <1>4. QED
    BY <1>2, <1>3 DEF Owns

\* The grants of a subframe are of users.
LEMMA AllocRing ==
  ASSUME NEW S \in SUBSET Users, NEW n, NEW order \in [1 .. n -> S], n \in Nat,
         NEW p \in Pids, \A u \in Users : Request(u, p) \in Bufs \union {NoBuf}
  PROVE  [k \in DOMAIN order |-> [rnti |-> order[k], buf |-> Request(order[k], p)]] \in Seq(Grant)
  <1>1. DOMAIN order = 1 .. n
    OBVIOUS
  <1>2. \A k \in 1 .. n : [rnti |-> order[k], buf |-> Request(order[k], p)] \in Grant
    BY DEF Grant
  <1>3. [k \in 1 .. n |-> [rnti |-> order[k], buf |-> Request(order[k], p)]] \in Seq(Grant)
    BY <1>2, IsASeq
  <1>4. QED
    BY <1>1, <1>3

LEMMA AllocInv ==
  ASSUME PduInv, NEW i, Alloc(i)
  PROVE  PduInv'
  <1>0. TypeOK /\ Reads(inflight, ring) /\ Line(inflight, tti) /\ Owns
    BY DEF PduInv
  <1>1. /\ inflight \in Seq(Entry) /\ i \in 1 .. Len(inflight) /\ inflight[i].pc = "alloc"
        /\ UNCHANGED <<tti, queue, life, rem, slow, pdu, haveData, phase>>
    BY <1>0, EntryFields DEF Alloc, At, TypeOK
  <1> DEFINE f == inflight[i]
             t == TtiTxUl(f.t)
             S == {u \in f.res : life[u] # "gone"}
             e == [f EXCEPT !.pc = "end", !.j = 1, !.nof = 0, !.res = {}]
             gs == [inflight EXCEPT ![i] = e]
  <1>2. /\ f \in Entry /\ Slot(f.t) \in Slots /\ t \in Ttis
        /\ Slot(t) \in Slots /\ Pid(t) \in Pids
    BY <1>1, EntryFields
  <1>3. S \in SUBSET Users /\ Cardinality(S) \in Nat
    <2>1. S \in SUBSET Users
      BY <1>2 DEF Entry
    <2>2. IsFiniteSet(S)
      BY <2>1, RingsOK, FS_Subset DEF RingsOK
    <2>3. QED
      BY <2>1, <2>2, FS_CardinalityType
  <1>4. e \in Entry /\ e.w = f.w /\ e.t = f.t /\ e.j = 1 /\ e.pc = "end"
    BY <1>2 DEF Entry
  <1>5. [inflight EXCEPT ![i].pc = "end", ![i].j = 1, ![i].nof = 0, ![i].res = {}] = gs
    BY <1>1, <1>2 DEF Entry
  <1>6. PICK order \in [1 .. Cardinality(S) -> S] :
          ring' = [ring EXCEPT ![Slot(t)] =
                    [k \in DOMAIN order |-> [rnti |-> order[k], buf |-> Request(order[k], Pid(t))]]]
    BY DEF Alloc
  <1>7. Owns' /\ PoolTypes' /\ \A u \in Users : Request(u, Pid(t)) \in Bufs \union {NoBuf}
    <2>1. /\ pending' = [u \in Users |-> IF u \in S /\ Request(u, Pid(t)) # NoBuf
                                         THEN [pending[u] EXCEPT ![Pid(t)] = Request(u, Pid(t))]
                                         ELSE pending[u]]
          /\ free' = [u \in Users |-> IF u \in S THEN free[u] \ {Request(u, Pid(t))} ELSE free[u]]
      BY DEF Alloc
    <2> HIDE DEF S, t
    <2>2. QED
      BY <1>0, <1>1, <1>2, <1>3, <2>1, RequestOwns
  <1>8. WorkerEnd(gs)
    BY <1>5 DEF Alloc
  <1> HIDE DEF S, e, gs
  <1>9. ring' \in [Slots -> Seq(Grant)] /\ \A s \in Slots : s # Slot(t) => ring'[s] = ring[s]
    <2> DEFINE g == [k \in DOMAIN order |-> [rnti |-> order[k], buf |-> Request(order[k], Pid(t))]]
    <2>1. g \in Seq(Grant)
      BY <1>2, <1>3, <1>7, AllocRing
    <2>2. ring' = [ring EXCEPT ![Slot(t)] = g]
      BY <1>6
    <2> HIDE DEF g, t
    <2>3. QED
      BY <1>0, <1>2, <2>1, <2>2 DEF TypeOK, Slots
  <1>10. gs \in Seq(Entry) /\ Len(gs) = Len(inflight)
    BY <1>0, <1>1, <1>4, Replaced DEF gs
  <1>11. Line(gs, tti)
    BY <1>0, <1>1, <1>4, Replaced, Zenon DEF gs
  <1>12. \A k \in 1 .. Len(inflight) : gs[k] = IF k = i THEN e ELSE inflight[k]
    BY <1>0, <1>1, <1>4, Replaced DEF gs
  <1>13. Reads(gs, ring')
    <2>1. \A k \in 1 .. Len(inflight) : k # i => /\ Slot(t) # Slot(inflight[k].t)
                                                /\ Slot(inflight[k].t) \in Slots
      BY <1>0, <1>1, SlotsDiffer, EntryFields
    <2>2. \A k \in 1 .. Len(inflight) : k # i => ring'[Slot(inflight[k].t)] = ring[Slot(inflight[k].t)]
      BY <1>9, <2>1
    <2> HIDE DEF t
    <2>3. QED
      BY <1>0, <1>4, <1>10, <1>12, <2>2 DEF Reads
  <1>14. inflight' \in Seq(Entry) /\ Line(inflight', tti') /\ Reads(inflight', ring')
    <2>1. PICK n \in 0 .. Len(gs) : inflight' = SubSeq(gs, n + 1, Len(gs))
      BY <1>8 DEF WorkerEnd
    <2>2. /\ inflight' \in Seq(Entry) /\ Line(inflight', tti) /\ Len(inflight') = Len(gs) - n
          /\ \A k \in 1 .. Len(gs) - n : /\ n + k \in 1 .. Len(gs)
                                       /\ inflight'[k] = gs[n + k]
      BY <1>10, <1>11, <2>1, LineDropped
    <2>3. Reads(inflight', ring')
      BY <1>13, <2>2 DEF Reads
    <2>4. QED
      BY <1>1, <2>2, <2>3
  <1>15. TypeOK'
    BY <1>0, <1>1, <1>7, <1>9, <1>14 DEF TypeOK, PoolTypes, Pids, Slots
  <1>16. QED
    BY <1>7, <1>14, <1>15 DEF PduInv

-----------------------------------------------------------------------------
(* The PDU thread, RRC's thread and the stop.                              *)

\* A step that leaves the workers and the pools alone.
LEMMA ApartInv ==
  ASSUME PduInv, UNCHANGED <<tti, inflight, ring, pending, queue, free>>, TypeOK'
  PROVE  PduInv'
  BY DEF PduInv, Owns

LEMMA PduThreadInv ==
  ASSUME PduInv, PduThread
  PROVE  PduInv'
  <1>0. TypeOK /\ Owns
    BY DEF PduInv
  <1>1. pdu \in Thread /\ pdu.todo \subseteq Users
    BY <1>0 DEF TypeOK, Thread
  <1>2. CASE Check \/ ProcessPdus \/ PduParsed \/ StoreResult \/ TestData
    <2>1. pdu' \in Thread
      <3>1. CASE Check \/ TestData
        BY <1>1, <1>2, <3>1 DEF Check, TestData, PduIn, Thread
      <3>2. CASE ProcessPdus
        BY <1>1, <3>2 DEF ProcessPdus, Thread
      <3>3. CASE PduParsed
        BY <1>1, <3>3, ConstantsType DEF PduParsed, Thread
      <3>4. CASE StoreResult
        BY <1>1, <3>4 DEF StoreResult, Thread
      <3>5. QED
        BY <1>2, <3>1, <3>2, <3>3, <3>4
    <2>2. haveData' \in BOOLEAN
      BY <1>0, <1>1, <1>2
      DEF Check, ProcessPdus, PduParsed, StoreResult, TestData, Thread, TypeOK
    <2>3. UNCHANGED <<tti, inflight, ring, pending, queue, free, life, rem, slow, phase>>
      BY <1>2 DEF Check, ProcessPdus, PduParsed, StoreResult, TestData, phy, ue
    <2>4. TypeOK'
      BY <1>0, <2>1, <2>2, <2>3 DEF TypeOK
    <2>5. QED
      BY <2>3, <2>4, ApartInv
  <1>3. CASE PopPdu
    <2>1. UNCHANGED <<tti, inflight, ring, life, rem, slow, haveData, phase>>
      BY <1>3 DEF PopPdu, phy
    <2>2. CASE UNCHANGED ue /\ pdu' \in Thread
      <3>1. TypeOK'
        BY <1>0, <2>1, <2>2 DEF TypeOK, ue
      <3>2. QED
        BY <2>1, <2>2, <3>1, ApartInv DEF ue
    <2>3. ASSUME NEW u \in Users, queue[u] # << >>, ParsePdu(u)
          PROVE  PduInv'
      <3> DEFINE fr == free[u] \union {Head(queue[u])}
      <3>1. Pools(pending[u], queue[u], free[u]) /\ Owned(pending[u], queue[u], free[u])
        BY <1>0 DEF Owns
      <3>2. /\ Pools(pending[u], Tail(queue[u]), fr) /\ Owned(pending[u], Tail(queue[u]), fr)
            /\ Head(queue[u]) \in Bufs
        BY <2>3, <3>1, Popped
      <3>3. /\ pending' = [pending EXCEPT ![u] = pending[u]]
            /\ queue' = [queue EXCEPT ![u] = Tail(queue[u])] /\ free' = [free EXCEPT ![u] = fr]
        BY <1>0, <2>3 DEF ParsePdu, TypeOK
      <3> HIDE DEF fr
      <3>4. Owns' /\ PoolTypes'
        BY <1>0, <3>2, <3>3, OneUser DEF PoolTypes
      <3>5. pdu' \in Thread
        <4>1. [user |-> u, buf |-> Head(queue[u]), age |-> 0] \in Read
          BY <3>2, Sizes DEF Read
        <4>2. QED
          BY <1>1, <2>3, <4>1 DEF ParsePdu, Thread
      <3>6. TypeOK'
        BY <1>0, <2>1, <3>4, <3>5 DEF TypeOK, PoolTypes, Pids
      <3>7. QED
        BY <2>1, <3>4, <3>6 DEF PduInv
    <2>4. \/ \E u \in Users : queue[u] # << >> /\ ParsePdu(u)
          \/ \E u \in pdu.todo :
               /\ pdu' = [pdu EXCEPT !.todo = @ \ {u},
                                     !.pc = IF pdu.todo = {u} THEN "store" ELSE "pop"]
               /\ UNCHANGED ue
      BY <1>1, <1>3 DEF PopPdu
    <2>5. ASSUME NEW u \in pdu.todo,
                 pdu' = [pdu EXCEPT !.todo = @ \ {u},
                                    !.pc = IF pdu.todo = {u} THEN "store" ELSE "pop"]
          PROVE  pdu' \in Thread
      BY <1>1, <2>5 DEF Thread
    <2>6. QED
      BY <2>2, <2>3, <2>4, <2>5
  <1>4. QED
    BY <1>2, <1>3 DEF PduThread

LEMMA OthersInv ==
  ASSUME PduInv, RrcThread \/ StopPhy \/ StopMac \/ UNCHANGED vars
  PROVE  PduInv'
  <1>0. TypeOK /\ Line(inflight, tti) /\ Reads(inflight, ring) /\ Owns
    BY DEF PduInv
  <1>1. /\ rem \in Removal
        /\ NofWorkers \in Nat \ {0} /\ RoundTrip \in Nat \ {0} /\ 0 \notin Users
    BY <1>0, Sizes, RingsOK DEF TypeOK, RingsOK
  <1>2. CASE \E u \in Users : RemSched(u)
    <2>1. TypeOK'
      BY <1>0, <1>1, <1>2 DEF RemSched, phy, ue, TypeOK, Removal
    <2>2. QED
      BY <1>2, <2>1, ApartInv DEF RemSched, phy, ue
  <1>3. CASE RemErase
    <2>1. life' \in [Users -> {"in", "unsched", "gone"}]
      BY <1>0, <1>3 DEF RemErase, TypeOK
    <2>2. slow' \subseteq Users
      <3>1. rem.user \in Users
        BY <1>1, <1>3 DEF RemErase, Removal, NoRemoval
      <3>2. QED
        BY <1>0, <1>3, <3>1 DEF RemErase, TypeOK
    <2>3. TypeOK'
      BY <1>0, <1>1, <1>3, <2>1, <2>2 DEF RemErase, phy, ue, TypeOK, Removal
    <2>4. QED
      BY <1>3, <2>3, ApartInv DEF RemErase, phy, ue
  <1>4. CASE StopPhy \/ StopMac
    <2>1. pdu' \in Thread
      <3>1. pdu \in Thread
        BY <1>0 DEF TypeOK
      <3>2. [pdu EXCEPT !.pc = "test"] \in Thread
        BY <3>1 DEF Thread
      <3>3. pdu' \in {pdu, [pdu EXCEPT !.pc = "test"]}
        BY <1>4 DEF StopPhy, StopMac
      <3>4. QED
        BY <3>1, <3>2, <3>3
    <2>2. TypeOK'
      BY <1>0, <1>4, <2>1 DEF StopPhy, StopMac, phy, ue, TypeOK
    <2>3. QED
      BY <1>4, <2>2, ApartInv DEF StopPhy, StopMac, phy, ue
  <1>5. CASE RemRnti
    <2>1. UNCHANGED <<tti, inflight, pending, queue, free, life, slow, pdu, haveData, phase>>
      BY <1>5 DEF RemRnti, ue
    <2>2. rem' \in Removal
      BY <1>1, <1>5 DEF RemRnti, Workers, Removal, NoRemoval
    <2>3. ring' \in [Slots -> Seq(Grant)] /\ \A s \in Slots : Len(ring'[s]) = Len(ring[s])
      <3>1. ring \in [Slots -> Seq(Grant)]
        BY <1>0 DEF TypeOK, Slots
      <3>2. /\ \A s \in Slots : ring'[s] = [k \in DOMAIN ring[s] |->
                  IF ring[s][k].rnti = rem.user THEN [ring[s][k] EXCEPT !.rnti = 0]
                                                ELSE ring[s][k]]
            /\ ring' = [s \in Slots |-> ring'[s]]
        BY <1>5, <3>1 DEF RemRnti
      <3>3. ASSUME NEW s \in Slots
            PROVE  ring'[s] \in Seq(Grant) /\ Len(ring'[s]) = Len(ring[s])
        <4> DEFINE c(k) == IF ring[s][k].rnti = rem.user THEN [ring[s][k] EXCEPT !.rnti = 0]
                                                        ELSE ring[s][k]
        <4>1. /\ Len(ring[s]) \in Nat /\ DOMAIN ring[s] = 1 .. Len(ring[s])
              /\ \A k \in 1 .. Len(ring[s]) : ring[s][k] \in Grant
          BY <3>1, LenProperties
        <4>2. \A k \in 1 .. Len(ring[s]) : c(k) \in Grant
          BY <4>1 DEF Grant
        <4>3. ring'[s] = [k \in 1 .. Len(ring[s]) |-> c(k)]
          BY <3>2, <4>1
        <4> HIDE DEF c
        <4>4. [k \in 1 .. Len(ring[s]) |-> c(k)] \in Seq(Grant)
          BY <4>1, <4>2, IsASeq
        <4>5. Len(ring'[s]) = Len(ring[s])
          BY <4>1, <4>3, <4>4, LenProperties
        <4>6. QED
          BY <4>3, <4>4, <4>5
      <3>4. QED
        BY <3>2, <3>3
    <2>4. TypeOK'
      BY <1>0, <2>1, <2>2, <2>3 DEF TypeOK, Slots
    <2>5. Reads(inflight', ring')
      <3>1. \A i \in 1 .. Len(inflight) : Slot(inflight[i].t) \in Slots
        BY <1>0, EntryFields DEF TypeOK
      <3>2. QED
        BY <1>0, <2>1, <2>3, <3>1 DEF Reads
    <2>6. QED
      BY <1>0, <2>1, <2>4, <2>5 DEF PduInv, Owns
  <1>6. CASE UNCHANGED vars
    BY <1>0, <1>6 DEF vars, PduInv, TypeOK, Owns
  <1>7. QED
    BY <1>2, <1>3, <1>4, <1>5, <1>6 DEF RrcThread

-----------------------------------------------------------------------------
(* The theorems.                                                           *)

LEMMA InitInv ==
  ASSUME Init
  PROVE  PduInv
  <1>1. /\ Period \in Nat \ {0} /\ 0 \in 0 .. Period - 1 /\ Bufs \in SUBSET Bufs
        /\ IsFiniteSet(Bufs)
    BY RingsOK, FS_Interval DEF RingsOK, Bufs
  <1>2. Len(inflight) = 0 /\ inflight = << >>
    BY DEF Init
  <1>3. Idle \in Read
    BY ConstantsType DEF Idle, Read
  <1>4. pdu \in Thread
    BY <1>3 DEF Init, Thread
  <1>5. PoolTypes
    BY <1>1 DEF Init, PoolTypes, Pids
  <1>6. rem \in Removal /\ slow \subseteq Users
    BY DEF Init, Removal
  <1>7. TypeOK
    <2>1. tti \in 0 .. Period - 1 /\ inflight \in Seq(Entry)
      BY <1>1, <1>2 DEF Init
    <2>2. ring \in [0 .. RingSize - 1 -> Seq(Grant)]
      BY DEF Init
    <2>3. life \in [Users -> {"in", "unsched", "gone"}]
      BY DEF Init
    <2>4. haveData \in BOOLEAN /\ phase \in {"run", "phy", "join"}
      BY DEF Init
    <2>5. QED
      BY <1>4, <1>5, <1>6, <2>1, <2>2, <2>3, <2>4 DEF TypeOK, PoolTypes, Pids
  <1>8. Line(inflight, tti) /\ Reads(inflight, ring)
    BY <1>2 DEF Line, Reads
  <1>9. ASSUME NEW u \in Users
        PROVE  Pools(pending[u], queue[u], free[u]) /\ Owned(pending[u], queue[u], free[u])
    <2>1. /\ pending[u] = [p \in Pids |-> NoBuf] /\ queue[u] = << >> /\ free[u] = Bufs
      BY DEF Init, Pids
    <2>2. QED
      BY <1>1, <2>1, NoBufIsNone DEF Pools, Owned
  <1>10. QED
    BY <1>7, <1>8, <1>9 DEF PduInv, Owns

LEMMA NextInv ==
  ASSUME PduInv, [Next]_vars
  PROVE  PduInv'
  <1>1. CASE \E i \in 1 .. NofWorkers : WorkerStep(i)
    BY <1>1, BeginDecodeInv, EndDecodeInv, ScheduleInv, AllocInv DEF WorkerStep
  <1>2. CASE Dispatch
    BY <1>2, DispatchInv
  <1>3. CASE PduThread
    BY <1>3, PduThreadInv
  <1>4. CASE RrcThread \/ StopPhy \/ StopMac \/ UNCHANGED vars
    BY <1>4, OthersInv
  <1>5. QED
    BY <1>1, <1>2, <1>3, <1>4 DEF Next

LEMMA PduInvariant == Spec => []PduInv
  <1>1. Init => PduInv
    BY InitInv
  <1>2. PduInv /\ [Next]_vars => PduInv'
    BY NextInv
  <1>3. QED
    BY <1>1, <1>2, PTL DEF Spec

\* The variables keep their types: a grant, a queue and a decoding worker name no buffer
\* outside the pool and no user that MAC never had.
THEOREM PduTypeCorrect == Spec => []TypeOK
  <1>1. PduInv => TypeOK
    BY DEF PduInv
  <1>2. QED
    BY <1>1, PduInvariant, PTL

\* Whatever the PHY workers, the PDU thread, a removal and the stop do in between, a buffer
\* of a user that MAC still has is in one place: request_buffer, push_pdu, deallocate_pdu
\* and process_pdu neither lose one nor give one twice.
THEOREM BuffersHaveOneOwner == Spec => []OneOwner
  <1>1. PduInv => OneOwner
    <2> SUFFICES ASSUME PduInv, NEW u \in Users
                 PROVE  /\ Bufs = free[u] \union PendingBufs(u) \union ToSet(queue[u])
                        /\ Cardinality(free[u]) + Cardinality(PendingBufs(u)) + Len(queue[u]) = NofBufs
      BY DEF OneOwner
    <2>1. Pools(pending[u], queue[u], free[u]) /\ Owned(pending[u], queue[u], free[u])
      BY DEF PduInv, Owns
    <2>2. PICK pd, q, fr, P : /\ pd = pending[u] /\ q = queue[u] /\ fr = free[u]
                              /\ P = PendingBufs(u)
      OBVIOUS
    <2>3. P = {pd[p] : p \in DOMAIN pd} \ {NoBuf}
      BY <2>2 DEF PendingBufs
    <2>4. Pools(pd, q, fr) /\ Owned(pd, q, fr)
      BY <2>1, <2>2
    <2>5. /\ Bufs = fr \union P \union ToSet(q)
          /\ Cardinality(fr) + Cardinality(P) + Len(q) = NofBufs
      BY <2>3, <2>4, OwnedCounts
    <2>6. QED
      BY <2>2, <2>5
  <1>2. QED
    BY <1>1, PduInvariant, PTL

-----------------------------------------------------------------------------
(***************************************************************************)
(* Grants on their way: from Alloc, which writes them in the slot of their *)
(* subframe, to the worker that decodes into their buffers.                *)
(***************************************************************************)

\* The workers in use; the subframes whose grants they work on or that are to come.
Ahead  == 0 .. 2 * HarqDelay - 1
Ws     == {inflight[i] : i \in DOMAIN inflight}
Times  == {f.t : f \in Ws}
Coming == {(tti + d) % Period : d \in Ahead}
Live   == Times \union Coming

\* They are no more than a ring has slots or HARQ processes: each has a place of its own.
Span     == 0 .. NofWorkers + 2 * HarqDelay - 1
Place(x) == ((tti + Period - NofWorkers) + x) % Period

LEMMA Spread ==
  ASSUME NEW k \in Nat \ {0}, Period % k = 0, NofWorkers + 2 * HarqDelay <= k, NEW b \in Nat
  PROVE  \A x, y \in Span : x # y => ((b + x) % Period) % k # ((b + y) % Period) % k
  <1>1. /\ Period \in Nat \ {0} /\ \A x \in Span : x \in 0 .. k - 1 /\ b + x \in Nat
    BY Sizes DEF Span
  <1>2. \A x \in Span : ((b + x) % Period) % k = (b + x) % k
    BY <1>1, ModMod
  <1>3. ASSUME NEW x \in Span, NEW y \in Span, x < y
        PROVE  (b + x) % k # (b + y) % k
    <2>1. y - x \in 1 .. k - 1 /\ (b + x) + (y - x) = b + y
      BY <1>1, <1>3
    <2>2. ((b + x) + (y - x)) % k # (b + x) % k
      BY <1>1, <2>1, ModDistinct
    <2>3. QED
      BY <2>1, <2>2
  <1>4. \A x, y \in Span : x # y => x < y \/ y < x
    BY DEF Span
  <1>5. QED
    BY <1>2, <1>3, <1>4

LEMMA PeriodRoom == NofWorkers <= Period
  <1>1. /\ Period \in Nat \ {0} /\ RingSize \in Nat \ {0} /\ Period % RingSize = 0
        /\ NofWorkers \in Nat /\ NofWorkers <= RingSize
    BY Sizes
  <1>2. SUFFICES ASSUME Period \in 0 .. RingSize - 1 PROVE FALSE
    BY <1>1
  <1>3. 0 \in Nat /\ RingSize * 0 + Period = Period
    BY <1>1
  <1>4. (RingSize * 0 + Period) % RingSize = Period
    BY <1>1, <1>2, <1>3, Remainder
  <1>5. QED
    BY <1>1, <1>3, <1>4

LEMMA Places ==
  ASSUME PduInv
  PROVE  /\ \A x \in Span : Place(x) \in Ttis
         /\ \A x, y \in Span : x # y => /\ Place(x) # Place(y)
                                        /\ Slot(Place(x)) # Slot(Place(y))
                                        /\ Pid(Place(x)) # Pid(Place(y))
         /\ \A d \in Ahead : NofWorkers + d \in Span /\ (tti + d) % Period = Place(NofWorkers + d)
         /\ \A f \in Ws : \E c \in 1 .. NofWorkers :
              /\ NofWorkers - c \in Span /\ 2 * HarqDelay - c \in Ahead
              /\ f.t = Place(NofWorkers - c)
              /\ TtiTxUl(f.t) = Place(NofWorkers + (2 * HarqDelay - c))
  <1>0. /\ inflight \in Seq(Entry) /\ tti \in Ttis /\ tti \in Nat /\ Line(inflight, tti)
    BY Rings DEF PduInv, TypeOK, Ttis
  <1>1. /\ NofWorkers \in Nat \ {0} /\ HarqDelay \in Nat \ {0} /\ Period \in Nat \ {0}
        /\ NofWorkers <= Period /\ NofWorkers <= 2 * HarqDelay
    BY Sizes, PeriodRoom
  <1> DEFINE b == tti + Period - NofWorkers
  <1>2. b \in Nat /\ b + NofWorkers = tti + Period
    BY <1>0, <1>1
  <1>3. \A x \in Span : b + x \in Nat
    BY <1>1, <1>2 DEF Span
  <1>4. \A x \in Span : Place(x) = (b + x) % Period
    BY DEF Place
  <1>5. \A x \in Span : Place(x) \in Ttis
    BY <1>1, <1>3, <1>4, ModRange DEF Ttis
  <1> HIDE DEF b
  <1>6. \A x, y \in Span : x # y => Slot(Place(x)) # Slot(Place(y))
    <2>1. NofWorkers + 2 * HarqDelay <= RingSize /\ RingSize \in Nat \ {0} /\ Period % RingSize = 0
      BY Sizes
    <2>2. \A x, y \in Span : x # y => ((b + x) % Period) % RingSize # ((b + y) % Period) % RingSize
      BY <1>2, <2>1, Spread
    <2>3. QED
      BY <1>4, <2>2 DEF Slot
  <1>7. \A x, y \in Span : x # y => Pid(Place(x)) # Pid(Place(y))
    <2>1. NofWorkers + 2 * HarqDelay <= NofHarq /\ NofHarq \in Nat \ {0} /\ Period % NofHarq = 0
      BY <1>1, Sizes DEF NofHarq, MaxTb
    <2>2. \A x, y \in Span : x # y => ((b + x) % Period) % NofHarq # ((b + y) % Period) % NofHarq
      BY <1>2, <2>1, Spread
    <2>3. QED
      BY <1>4, <2>2 DEF Pid
  <1>8. \A d \in Ahead : NofWorkers + d \in Span /\ (tti + d) % Period = Place(NofWorkers + d)
    <2>1. TAKE d \in Ahead
    <2>2. NofWorkers + d \in Span /\ tti + d \in Nat
      BY <1>0, <1>1 DEF Span, Ahead
    <2>3. b + (NofWorkers + d) = (tti + d) + Period
      BY <1>0, <1>1, <1>2, <2>2 DEF Ahead
    <2>4. ((tti + d) + Period) % Period = (tti + d) % Period
      BY <1>1, <2>2, ModPlus
    <2>5. QED
      BY <1>4, <2>2, <2>3, <2>4
  <1>9. ASSUME NEW i \in DOMAIN inflight
        PROVE  \E c \in 1 .. NofWorkers :
                 /\ NofWorkers - c \in Span /\ 2 * HarqDelay - c \in Ahead
                 /\ inflight[i].t = Place(NofWorkers - c)
                 /\ TtiTxUl(inflight[i].t) = Place(NofWorkers + (2 * HarqDelay - c))
    <2> DEFINE t == inflight[i].t
               n == Len(inflight)
    <2>1. /\ n \in Nat /\ n <= NofWorkers /\ i \in 1 .. n /\ t \in Ttis /\ t \in Nat
          /\ tti = (t + (n + 1 - i)) % Period
      BY <1>0, EntryFields, LineBound DEF Line
    <2> HIDE DEF t, n
    <2>2. PICK c \in 1 .. NofWorkers : c = n + 1 - i
      BY <1>1, <2>1
    <2>3. tti = (t + c) % Period
      BY <2>1, <2>2
    <2>4. NofWorkers - c \in Span /\ 2 * HarqDelay - c \in Ahead
      BY <1>1 DEF Span, Ahead
    <2>5. /\ t + c \in Nat /\ Period - c \in Nat /\ (t + c) + (Period - c) = t + Period
          /\ tti + (Period - c) = b + (NofWorkers - c)
      <3>1. /\ NofWorkers \in Nat /\ Period \in Nat /\ NofWorkers <= Period /\ t \in Nat
            /\ tti \in Nat /\ b \in Nat /\ b + NofWorkers = tti + Period
            /\ c \in Nat /\ c <= NofWorkers
        BY <1>0, <1>1, <1>2, <2>1
      <3>2. PICK w \in Nat, p \in Nat : w = NofWorkers /\ p = Period
        BY <3>1
      <3>3. PICK h \in Nat, a \in Nat : h = tti /\ a = b
        BY <3>1
      <3>4. a + w = h + p /\ w <= p /\ c <= w
        BY <3>1, <3>2, <3>3
      <3>5. t + c \in Nat /\ p - c \in Nat /\ (t + c) + (p - c) = t + p /\ h + (p - c) = a + (w - c)
        BY <3>1, <3>4
      <3>6. QED
        BY <3>2, <3>3, <3>5
    <2>6. (((t + c) % Period) + (Period - c)) % Period = ((t + c) + (Period - c)) % Period
      BY <1>1, <2>5, ModAdd
    <2>7. (t + Period) % Period = t
      <3>1. (t + Period) % Period = t % Period
        BY <1>1, <2>1, ModPlus
      <3>2. t % Period = t
        <4>1. Period * 0 + t = t /\ t \in 0 .. Period - 1 /\ 0 \in Nat
          BY <1>1, <2>1 DEF Ttis
        <4>2. (Period * 0 + t) % Period = t
          BY <1>1, <4>1, Remainder
        <4>3. QED
          BY <4>1, <4>2
      <3>3. QED
        BY <3>1, <3>2
    <2>8. t = Place(NofWorkers - c)
      BY <1>4, <2>3, <2>4, <2>5, <2>6, <2>7
    <2>9. TtiTxUl(t) = Place(NofWorkers + (2 * HarqDelay - c))
      <3>1. /\ b + (NofWorkers - c) \in Nat /\ 2 * HarqDelay \in Nat
            /\ (b + (NofWorkers - c)) + 2 * HarqDelay = b + (NofWorkers + (2 * HarqDelay - c))
            /\ NofWorkers + (2 * HarqDelay - c) \in Span
        BY <1>1, <1>2, <2>4 DEF Span
      <3>2. t = (b + (NofWorkers - c)) % Period
        BY <1>4, <2>4, <2>8
      <3>3. (((b + (NofWorkers - c)) % Period) + 2 * HarqDelay) % Period
              = ((b + (NofWorkers - c)) + 2 * HarqDelay) % Period
        BY <1>1, <3>1, ModAdd
      <3>4. QED
        BY <1>4, <3>1, <3>2, <3>3 DEF TtiTxUl
    <2>10. QED
      BY <2>4, <2>8, <2>9 DEF t
  <1>10. \A f \in Ws : \E c \in 1 .. NofWorkers :
           /\ NofWorkers - c \in Span /\ 2 * HarqDelay - c \in Ahead
           /\ f.t = Place(NofWorkers - c)
           /\ TtiTxUl(f.t) = Place(NofWorkers + (2 * HarqDelay - c))
    <2>1. TAKE f \in Ws
    <2>2. PICK i \in DOMAIN inflight : f = inflight[i]
      BY DEF Ws
    <2>3. QED
      BY <1>9, <2>2, Zenon
  <1>11. \A x, y \in Span : x # y => Place(x) # Place(y)
    BY <1>6, Zenon
  <1>12. QED
    BY <1>5, <1>6, <1>7, <1>8, <1>10, <1>11, Zenon

\* No two workers with the same subframe or the same one to grant; what they work on is over.
LEMMA Distinct ==
  ASSUME PduInv
  PROVE  /\ \A f, g \in Ws : f.t = g.t \/ f.w = g.w => f = g
         /\ \A f, g \in Ws : TtiTxUl(f.t) = TtiTxUl(g.t) => f = g
         /\ \A f \in Ws : f \in Entry /\ f.t \in Ttis /\ f.t \notin Coming /\ f.t \in Live
         /\ \A f \in Ws : TtiTxUl(f.t) \in Coming /\ TtiTxUl(f.t) \in Live
         /\ \A f \in Ws : \A d \in Ahead : TtiTxUl(f.t) = (tti + d) % Period => d + 1 >= RoundTrip
         /\ \A d, e \in Ahead : (tti + d) % Period = (tti + e) % Period => d = e
         /\ \A n \in Live : n \in Ttis /\ Slot(n) \in Slots /\ Pid(n) \in Pids
         /\ \A n, m \in Live : n # m => Slot(n) # Slot(m) /\ Pid(n) # Pid(m)
  <1>0. /\ inflight \in Seq(Entry) /\ Line(inflight, tti)
        /\ Len(inflight) \in Nat /\ DOMAIN inflight = 1 .. Len(inflight)
    BY EntryFields DEF PduInv, TypeOK
  <1>1. NofWorkers \in Nat \ {0} /\ HarqDelay \in Nat \ {0} /\ NofWorkers <= 2 * HarqDelay
    BY Sizes
  <1>2. \A x, y \in Span : Place(x) = Place(y) => x = y
    BY Places
  <1>3. \A d \in Ahead : NofWorkers + d \in Span /\ (tti + d) % Period = Place(NofWorkers + d)
    BY Places, Zenon
  <1>4. \A f \in Ws : \E c \in 1 .. NofWorkers :
           /\ NofWorkers - c \in Span /\ 2 * HarqDelay - c \in Ahead
           /\ f.t = Place(NofWorkers - c)
           /\ TtiTxUl(f.t) = Place(NofWorkers + (2 * HarqDelay - c))
    BY Places, Zenon
  <1>5. \A f \in Ws : f \in Entry /\ f.t \in Ttis
    BY <1>0, EntryFields DEF Ws
  <1>6. \A f, g \in Ws : f.t = g.t \/ f.w = g.w => f = g
    <2>1. ASSUME NEW i \in 1 .. Len(inflight), NEW k \in 1 .. Len(inflight), i # k
          PROVE  inflight[i].t # inflight[k].t /\ inflight[i].w # inflight[k].w
      <3>1. Slot(inflight[i].t) # Slot(inflight[k].t)
        BY <1>0, <2>1, SlotsDiffer
      <3>2. inflight[i].w # inflight[k].w
        BY <1>0, <2>1 DEF Line
      <3>3. QED
        BY <3>1, <3>2
    <2>2. QED
      BY <1>0, <2>1 DEF Ws
  <1>7. ASSUME NEW f \in Ws, NEW g \in Ws, TtiTxUl(f.t) = TtiTxUl(g.t)
        PROVE  f = g
    <2>1. PICK c \in 1 .. NofWorkers :
            /\ 2 * HarqDelay - c \in Ahead /\ f.t = Place(NofWorkers - c)
            /\ TtiTxUl(f.t) = Place(NofWorkers + (2 * HarqDelay - c))
      BY <1>4
    <2>2. PICK e \in 1 .. NofWorkers :
            /\ 2 * HarqDelay - e \in Ahead /\ g.t = Place(NofWorkers - e)
            /\ TtiTxUl(g.t) = Place(NofWorkers + (2 * HarqDelay - e))
      BY <1>4
    <2>3. NofWorkers + (2 * HarqDelay - c) = NofWorkers + (2 * HarqDelay - e)
      BY <1>2, <1>3, <1>7, <2>1, <2>2
    <2>4. c = e
      BY <1>1, <2>3
    <2>5. QED
      BY <1>6, <2>1, <2>2, <2>4
  <1>8. ASSUME NEW f \in Ws
        PROVE  /\ f.t \notin Coming /\ f.t \in Live
               /\ TtiTxUl(f.t) \in Coming /\ TtiTxUl(f.t) \in Live
               /\ \A d \in Ahead : TtiTxUl(f.t) = (tti + d) % Period => d + 1 >= RoundTrip
    <2>1. PICK c \in 1 .. NofWorkers :
            /\ NofWorkers - c \in Span /\ 2 * HarqDelay - c \in Ahead
            /\ f.t = Place(NofWorkers - c)
            /\ TtiTxUl(f.t) = Place(NofWorkers + (2 * HarqDelay - c))
      BY <1>4
    <2>2. ASSUME f.t \in Coming PROVE FALSE
      <3>1. PICK d \in Ahead : f.t = (tti + d) % Period
        BY <2>2 DEF Coming
      <3>2. NofWorkers - c = NofWorkers + d
        BY <1>2, <1>3, <2>1, <3>1
      <3>3. QED
        BY <1>1, <3>2 DEF Ahead
    <2>3. TtiTxUl(f.t) = (tti + (2 * HarqDelay - c)) % Period
      BY <1>3, <2>1
    <2>4. ASSUME NEW d \in Ahead, TtiTxUl(f.t) = (tti + d) % Period
          PROVE  d + 1 >= RoundTrip
      <3>1. NofWorkers + d = NofWorkers + (2 * HarqDelay - c)
        BY <1>2, <1>3, <2>1, <2>4
      <3>2. QED
        BY <1>1, <3>1 DEF Ahead, RoundTrip
    <2>5. QED
      BY <2>1, <2>2, <2>3, <2>4 DEF Coming, Live, Times
  <1>9. \A d, e \in Ahead : (tti + d) % Period = (tti + e) % Period => d = e
    <2>1. TAKE d, e \in Ahead
    <2>2. HAVE (tti + d) % Period = (tti + e) % Period
    <2>3. NofWorkers + d = NofWorkers + e
      BY <1>2, <1>3, <2>2
    <2>4. QED
      BY <1>1, <2>3 DEF Ahead
  <1>10. \A n \in Live : \E x \in Span : n = Place(x)
    BY <1>3, <1>4 DEF Live, Times, Coming
  <1>11. \A n \in Live : n \in Ttis /\ Slot(n) \in Slots /\ Pid(n) \in Pids
    <2>1. \A n \in Live : n \in Ttis
      BY <1>10, Places
    <2>2. QED
      BY <2>1, Rings
  <1>12. \A n, m \in Live : n # m => Slot(n) # Slot(m) /\ Pid(n) # Pid(m)
    <2>1. \A x, y \in Span : x # y => /\ Slot(Place(x)) # Slot(Place(y))
                                      /\ Pid(Place(x)) # Pid(Place(y))
      BY Places
    <2>2. QED
      BY <1>10, <2>1
  <1>13. QED
    BY <1>5, <1>6, <1>7, <1>8, <1>9, <1>11, <1>12

\* A grant of subframe n that no worker has looked at, one that a worker decodes.
Waits(n, u, b) ==
    /\ n \in Live
    /\ \E k \in DOMAIN ring[Slot(n)] : /\ ring[Slot(n)][k] = [rnti |-> u, buf |-> b]
                                       /\ \A f \in Ws : f.t = n => k >= f.j
InHand(n, u, b) == \E f \in Ws : f.pc = "write" /\ f.t = n /\ f.g = [rnti |-> u, buf |-> b]
Has(n, u, b)    == Waits(n, u, b) \/ InHand(n, u, b)

\* A slot has grants only from Alloc of its subframe to Schedule, one for each user.
Slotted ==
    /\ \A s \in Slots : ring[s] # << >> => \E n \in Live : s = Slot(n)
    /\ \A f \in Ws :
         /\ f.pc \in {"alloc", "end"} => ring[Slot(f.t)] = << >>
         /\ f.pc # "end" => ring[Slot(TtiTxUl(f.t))] = << >>
         /\ f.pc \in {"decode", "write"} => f.nof = Len(ring[Slot(f.t)])
         /\ f.pc = "write" => \A k \in DOMAIN ring[Slot(f.t)] :
                                 k >= f.j => ring[Slot(f.t)][k].rnti # f.g.rnti
    /\ \A s \in Slots : \A k, l \in DOMAIN ring[s] :
         ring[s][k].rnti = ring[s][l].rnti => k = l \/ ring[s][k].rnti = 0

\* The buffer of a grant is pending; for a user that may be scheduled nothing else is.
Kept ==
    /\ \A n, b : \A u \in Users : Has(n, u, b) /\ life[u] # "gone" => pending[u][Pid(n)] = b
    /\ \A u \in Users : \A p \in Pids :
         life[u] = "in" /\ pending[u][p] # NoBuf => \E n, b : Has(n, u, b) /\ p = Pid(n)

\* The users that a worker is about to grant a PUSCH.
Granting ==
    \A f \in Ws :
      /\ f.pc # "alloc" => f.res = {}
      /\ \A u \in f.res : /\ life[u] # "gone" => pending[u][Pid(TtiTxUl(f.t))] = NoBuf
                          /\ life[u] = "gone" => u \in slow
                          /\ u = rem.user => rem.w <= f.w

\* Subframe n is as late as that: age subframes after an event of which it was to come.
Due(n, age) ==
    /\ n \in Times => age = RoundTrip
    /\ \A d \in Ahead : n = (tti + d) % Period => age + d + 1 >= RoundTrip

\* What is left of a user that is being removed.
Leaving ==
    /\ \A u \in Users : life[u] = "unsched" => rem.user = u
    /\ rem.user # 0 => life[rem.user] # "in"
    /\ rem.user # 0 /\ rem.w > 1 =>
         \A n, b : Waits(n, rem.user, b) => Due(n, rem.age) /\ rem.w <= NofWorkers
    /\ rem.user # 0 => \A f \in Ws : f.pc = "write" /\ f.g.rnti = rem.user /\ rem.w > f.w
                                       => rem.age = RoundTrip

\* Nothing is left of one that was removed in time.
Left ==
    /\ phase = "join" => Ws = {}
    /\ phase # "join" => \A u \in Users :
                            life[u] = "gone" /\ u \notin slow => \A n, b : ~Has(n, u, b)

\* The buffer that the PDU thread reads.
BeingRead ==
    /\ pdu.pc \in {"pop", "parse"} => \A u \in pdu.todo : life[u] # "gone"
    /\ pdu.read # Idle => pdu.pc = "parse" /\ pdu.read.user \in pdu.todo /\ pdu.read.buf # NoBuf
    /\ pdu.read # Idle => \A n : Has(n, pdu.read.user, pdu.read.buf) => Due(n, pdu.read.age)

Moving    == Slotted /\ Kept /\ Granting /\ Leaving /\ Left /\ BeingRead
GrantsInv == PduInv /\ Moving

-----------------------------------------------------------------------------
(* What the steps do to the grants.                                        *)

\* A worker's record is replaced.
LEMMA Swapped ==
  ASSUME PduInv, NEW i \in DOMAIN inflight, NEW e, inflight' = [inflight EXCEPT ![i] = e]
  PROVE  inflight[i] \in Ws /\ Ws' = (Ws \ {inflight[i]}) \union {e}
  <1>1. inflight \in Seq(Entry) /\ DOMAIN inflight = 1 .. Len(inflight) /\ Line(inflight, tti)
    BY EntryFields DEF PduInv, TypeOK
  <1>2. /\ DOMAIN inflight' = DOMAIN inflight
        /\ \A k \in DOMAIN inflight : inflight'[k] = IF k = i THEN e ELSE inflight[k]
    BY <1>1
  <1>3. \A k \in DOMAIN inflight : k # i => inflight[k] # inflight[i]
    BY <1>1 DEF Line
  <1>4. QED
    BY <1>2, <1>3 DEF Ws

LEMMA SameTimes ==
  ASSUME NEW f \in Ws, NEW e, e.t = f.t, Ws' = (Ws \ {f}) \union {e}, UNCHANGED tti
  PROVE  Times' = Times /\ Coming' = Coming /\ Live' = Live
  <1>1. Times' = Times
    BY DEF Times
  <1>2. Coming' = Coming
    BY DEF Coming
  <1>3. QED
    BY <1>1, <1>2 DEF Live

\* The grants stay, as the users and the subframes do.
LEMMA SameGrants ==
  ASSUME TypeOK, Kept, Left, BeingRead, phase # "join", Times' = Times,
         UNCHANGED <<tti, pending, life, slow, phase, pdu>>,
         \A n, b : \A u \in Users : Has(n, u, b)' <=> Has(n, u, b)
  PROVE  Kept' /\ Left' /\ BeingRead'
  <1>1. Kept'
    BY DEF Kept
  <1>2. Left'
    BY DEF Left
  <1>3. pdu.read # Idle => pdu.read.user \in Users
    BY DEF BeingRead, TypeOK, Thread
  <1>4. BeingRead'
    BY <1>3 DEF BeingRead, Due
  <1>5. QED
    BY <1>1, <1>2, <1>4

\* The workers' steps: no grant gets lost, none appears but those that Alloc writes.
LEMMA BeginDecodeMoves ==
  ASSUME GrantsInv, NEW i, BeginDecode(i)
  PROVE  Moving'
  <1>0. PduInv /\ TypeOK /\ Slotted /\ Kept /\ Granting /\ Leaving /\ Left /\ BeingRead
    BY DEF GrantsInv, Moving, PduInv
  <1>1. /\ i \in DOMAIN inflight /\ inflight[i].pc = "decode" /\ inflight[i].j <= inflight[i].nof
        /\ UNCHANGED <<tti, ring, pending, queue, free, life, rem, slow, pdu, haveData, phase>>
    BY DEF BeginDecode, At, ue
  <1>2. PICK f : f = inflight[i]
    OBVIOUS
  <1>3. PICK s : s = Slot(f.t)
    OBVIOUS
  <1>4. PICK g : g = ring[s][f.j]
    OBVIOUS
  <1>5. f \in Ws /\ f \in Entry /\ f.pc = "decode" /\ f.j \in Nat /\ f.nof \in Nat /\ f.j <= f.nof
    <2>1. f \in Ws
      BY <1>1, <1>2 DEF Ws
    <2>2. f \in Entry
      BY <1>0, <2>1, Distinct
    <2>3. QED
      BY <1>1, <1>2, <2>1, <2>2 DEF Entry
  <1>6. /\ s \in Slots /\ ring[s] \in Seq(Grant) /\ Len(ring[s]) \in Nat /\ f.nof = Len(ring[s])
        /\ f.j \in DOMAIN ring[s] /\ g \in Grant
    <2>1. s \in Slots
      BY <1>0, <1>3, <1>5, Distinct
    <2>2. ring[s] \in Seq(Grant)
      BY <1>0, <2>1 DEF TypeOK, Slots
    <2>3. Len(ring[s]) \in Nat /\ DOMAIN ring[s] = 1 .. Len(ring[s]) /\ f.nof = Len(ring[s])
      BY <1>0, <1>3, <1>5, <2>2, LenProperties DEF Slotted
    <2>4. f.j >= 1
      BY <1>0, <1>1, <1>2, EntryFields DEF PduInv, Reads, TypeOK
    <2>5. f.j \in 1 .. Len(ring[s])
      BY <1>5, <2>3, <2>4
    <2>6. QED
      BY <1>4, <2>1, <2>2, <2>3, <2>5, ElementOfSeq
  <1>7. PICK e : /\ inflight' = [inflight EXCEPT ![i] = e]
                 /\ e = IF g.rnti = 0 THEN [f EXCEPT !.j = f.j + 1]
                        ELSE [f EXCEPT !.j = f.j + 1, !.pc = "write", !.g = g]
    BY <1>2, <1>3, <1>4 DEF BeginDecode
  <1>8. /\ e.w = f.w /\ e.t = f.t /\ e.j = f.j + 1 /\ e.nof = f.nof /\ e.res = f.res
        /\ \/ e.pc = "decode" /\ g.rnti = 0
           \/ e.pc = "write" /\ e.g = g /\ g.rnti \in Users
    <2>1. CASE g.rnti = 0
      <3>1. e = [f EXCEPT !.j = f.j + 1]
        BY <1>7, <2>1
      <3>2. /\ e.w = f.w /\ e.t = f.t /\ e.j = f.j + 1 /\ e.nof = f.nof /\ e.res = f.res
            /\ e.pc = f.pc
        BY <1>5, <3>1 DEF Entry
      <3>3. QED
        BY <1>5, <2>1, <3>2
    <2>2. CASE g.rnti # 0
      <3>1. e = [f EXCEPT !.j = f.j + 1, !.pc = "write", !.g = g] /\ g.rnti \in Users
        BY <1>6, <1>7, <2>2 DEF Grant
      <3>2. /\ e.w = f.w /\ e.t = f.t /\ e.j = f.j + 1 /\ e.nof = f.nof /\ e.res = f.res
            /\ e.pc = "write" /\ e.g = g
        BY <1>5, <3>1 DEF Entry
      <3>3. QED
        BY <3>1, <3>2
    <2>3. QED
      BY <2>1, <2>2
  <1>9. Ws' = (Ws \ {f}) \union {e}
    BY <1>0, <1>1, <1>2, <1>7, Swapped
  <1> DEFINE Same == Times' = Times /\ Coming' = Coming /\ Live' = Live
  <1>10. Same
    BY <1>1, <1>5, <1>8, <1>9, SameTimes
  <1>11. \A h \in Ws : h.t = f.t => h = f
    BY <1>0, <1>5, Distinct
  <1>12. \A n, u, b : Waits(n, u, b)' => Waits(n, u, b)
    <2> SUFFICES ASSUME NEW n, NEW u, NEW b, Waits(n, u, b)' PROVE Waits(n, u, b)
      OBVIOUS
    <2>1. PICK k \in DOMAIN ring[Slot(n)] : /\ ring[Slot(n)][k] = [rnti |-> u, buf |-> b]
                                            /\ \A h \in Ws' : h.t = n => k >= h.j
      BY <1>1 DEF Waits
    <2>2. ASSUME NEW h \in Ws, h.t = n
          PROVE  k >= h.j
      <3>1. CASE h = f
        <4>1. k >= f.j + 1 /\ n = f.t
          BY <1>8, <1>9, <2>1, <2>2, <3>1
        <4>2. k \in Nat
          BY <1>3, <1>6, <2>1, <4>1
        <4>3. QED
          BY <1>5, <3>1, <4>1, <4>2
      <3>2. CASE h # f
        BY <1>9, <2>1, <2>2, <3>2
      <3>3. QED
        BY <3>1, <3>2
    <2>3. QED
      BY <1>10, <2>1, <2>2 DEF Waits
  <1>13. \A n, u, b : Waits(n, u, b) => Waits(n, u, b)' \/ (n = f.t /\ g = [rnti |-> u, buf |-> b])
    <2> SUFFICES ASSUME NEW n, NEW u, NEW b, Waits(n, u, b),
                        ~(n = f.t /\ g = [rnti |-> u, buf |-> b])
                 PROVE  Waits(n, u, b)'
      OBVIOUS
    <2>1. PICK k \in DOMAIN ring[Slot(n)] : /\ ring[Slot(n)][k] = [rnti |-> u, buf |-> b]
                                            /\ \A h \in Ws : h.t = n => k >= h.j
      BY DEF Waits
    <2>2. ASSUME NEW h \in Ws', h.t = n
          PROVE  k >= h.j
      <3>1. CASE h = e
        <4>1. n = f.t /\ k >= f.j /\ k # f.j
          BY <1>3, <1>4, <1>5, <1>8, <2>1, <2>2, <3>1
        <4>2. k \in Nat
          BY <1>3, <1>6, <2>1, <4>1
        <4>3. QED
          BY <1>5, <1>8, <3>1, <4>1, <4>2
      <3>2. CASE h # e
        BY <1>9, <2>1, <2>2, <3>2
      <3>3. QED
        BY <3>1, <3>2
    <2>3. QED
      BY <1>1, <1>10, <2>1, <2>2 DEF Waits
  <1>14. \A n, b : \A u \in Users : Has(n, u, b)' <=> Has(n, u, b)
    <2>1. TAKE n, b
    <2>2. TAKE u \in Users
    <2>3. g = [rnti |-> u, buf |-> b] => Waits(f.t, u, b)
      <3>1. f.t \in Live
        BY <1>5 DEF Live, Times
      <3>2. f.j >= f.j
        BY <1>5
      <3>3. QED
        BY <1>3, <1>4, <1>6, <1>11, <3>1, <3>2 DEF Waits
    <2>4. InHand(n, u, b)' => Has(n, u, b)
      BY <1>8, <1>9, <2>3 DEF InHand, Has
    <2>5. InHand(n, u, b) => InHand(n, u, b)'
      BY <1>5, <1>9 DEF InHand
    <2>6. g = [rnti |-> u, buf |-> b] => InHand(f.t, u, b)'
      <3>1. g = [rnti |-> u, buf |-> b] => g.rnti # 0
        BY Sizes
      <3>2. QED
        BY <1>8, <1>9, <3>1 DEF InHand
    <2>7. QED
      BY <1>12, <1>13, <2>4, <2>5, <2>6 DEF Has
  <1>15. phase # "join"
    BY <1>0, <1>5 DEF Left
  <1>16. Kept' /\ Left' /\ BeingRead'
    BY <1>0, <1>1, <1>10, <1>14, <1>15, SameGrants
  <1>17. Slotted'
    <2>1. e.pc = "write" => \A k \in DOMAIN ring[s] : k >= e.j => ring[s][k].rnti # e.g.rnti
      <3>1. SUFFICES ASSUME e.pc = "write", NEW k \in DOMAIN ring[s], k >= e.j
                     PROVE  ring[s][k].rnti # g.rnti
        BY <1>8
      <3>2. k # f.j
        BY <1>5, <1>8, <3>1
      <3>3. QED
        BY <1>0, <1>4, <1>6, <1>8, <3>1, <3>2, Sizes DEF Slotted
    <2>2. \A h \in Ws' : h = e \/ h \in Ws
      BY <1>9
    <2>3. Slot(TtiTxUl(f.t)) = Slot(TtiTxUl(e.t)) /\ Slot(e.t) = s
      BY <1>3, <1>8
    <2>4. /\ e.pc # "end" => ring[Slot(TtiTxUl(e.t))] = << >>
          /\ e.pc \in {"decode", "write"} => e.nof = Len(ring[s])
          /\ e.pc \notin {"alloc", "end"}
      BY <1>0, <1>5, <1>6, <1>8, <2>3 DEF Slotted
    <2>5. QED
      BY <1>0, <1>1, <1>10, <2>1, <2>2, <2>3, <2>4 DEF Slotted
  <1>18. Granting'
    <2>1. f.res = {}
      BY <1>0, <1>5 DEF Granting
    <2>2. QED
      BY <1>0, <1>1, <1>8, <1>9, <2>1 DEF Granting
  <1>19. Leaving'
    <2>1. \A n, a : Due(n, a)' <=> Due(n, a)
      BY <1>1, <1>10 DEF Due
    <2>2. ASSUME rem.user # 0, e.pc = "write", e.g.rnti = rem.user, rem.w > e.w
          PROVE  rem.age = RoundTrip
      <3>1. g = [rnti |-> rem.user, buf |-> g.buf]
        BY <1>6, <1>8, <2>2 DEF Grant
      <3>2. Waits(f.t, rem.user, g.buf)
        <4>1. f.t \in Live /\ f.j >= f.j
          BY <1>5 DEF Live, Times
        <4>2. QED
          BY <1>3, <1>4, <1>6, <1>11, <3>1, <4>1 DEF Waits
      <3>3. rem.w > 1
        <4>1. rem \in Removal /\ e.w \in 1 .. NofWorkers /\ NofWorkers \in Nat
          BY <1>0, <1>5, <1>8, Sizes DEF TypeOK, Entry, Workers
        <4>2. rem.w \in Nat
          BY <4>1 DEF Removal, NoRemoval
        <4>3. QED
          BY <2>2, <4>1, <4>2
      <3>4. Due(f.t, rem.age)
        BY <1>0, <2>2, <3>2, <3>3 DEF Leaving
      <3>5. QED
        BY <1>5, <3>4 DEF Due, Times
    <2>3. QED
      BY <1>0, <1>1, <1>9, <1>12, <2>1, <2>2 DEF Leaving
  <1>20. QED
    BY <1>16, <1>17, <1>18, <1>19 DEF Moving

\* A PDU whose decoding ends leaves its slot of pending_buffers, if its user is there.
LEMMA CrcInfoPending ==
  ASSUME TypeOK, NEW u \in Users, NEW t \in Nat, NEW crc, CrcInfo(u, t, crc)
  PROVE  /\ \A v \in Users : \A p \in Pids :
              v # u \/ p # Pid(t) \/ life[u] = "gone" => pending'[v][p] = pending[v][p]
         /\ life[u] # "gone" => pending'[u][Pid(t)] = NoBuf
         /\ pdu'.read = pdu.read /\ pdu'.todo = pdu.todo
         /\ pdu'.pc \in {"pop", "parse"} => pdu'.pc = pdu.pc
         /\ pdu.pc = "parse" => pdu'.pc = "parse"
  <1>1. pending \in [Users -> [Pids -> Bufs \union {NoBuf}]] /\ Pid(t) \in Pids /\ pdu \in Thread
    BY Rings DEF TypeOK, Pids
  <1>2. \/ pending' = pending
        \/ life[u] # "gone" /\ pending' = [pending EXCEPT ![u][Pid(t)] = NoBuf]
    BY DEF CrcInfo, PushPdu, DeallocatePdu, ue
  <1>3. life[u] # "gone" => \/ pending' = pending /\ pending[u][Pid(t)] = NoBuf
                            \/ pending' = [pending EXCEPT ![u][Pid(t)] = NoBuf]
    BY DEF CrcInfo, PushPdu, DeallocatePdu, ue
  <1>4. \/ pdu' = pdu
        \/ pdu.pc = "wait" /\ pdu' = [pdu EXCEPT !.pc = "test"]
    BY DEF CrcInfo, Notify
  <1>5. \A v \in Users : \A p \in Pids :
          v # u \/ p # Pid(t) \/ life[u] = "gone" => pending'[v][p] = pending[v][p]
    BY <1>1, <1>2
  <1>6. life[u] # "gone" => pending'[u][Pid(t)] = NoBuf
    BY <1>1, <1>3
  <1>7. /\ pdu'.read = pdu.read /\ pdu'.todo = pdu.todo
        /\ pdu'.pc \in {"pop", "parse"} => pdu'.pc = pdu.pc
        /\ pdu.pc = "parse" => pdu'.pc = "parse"
    BY <1>1, <1>4 DEF Thread
  <1>8. QED
    BY <1>5, <1>6, <1>7

LEMMA EndDecodeMoves ==
  ASSUME GrantsInv, NEW i, NEW crc \in BOOLEAN, EndDecode(i, crc)
  PROVE  Moving'
  <1>0. PduInv /\ TypeOK /\ Slotted /\ Kept /\ Granting /\ Leaving /\ Left /\ BeingRead
    BY DEF GrantsInv, Moving, PduInv
  <1>1. /\ i \in DOMAIN inflight /\ inflight[i].pc = "write"
        /\ CrcInfo(inflight[i].g.rnti, inflight[i].t, crc)
        /\ UNCHANGED <<tti, ring, life, rem, slow, phase>>
    BY DEF EndDecode, At
  <1>2. PICK f : f = inflight[i]
    OBVIOUS
  <1>3. PICK v, c : v = f.g.rnti /\ c = f.g.buf
    OBVIOUS
  <1>4. f \in Ws /\ f \in Entry /\ f.pc = "write" /\ f.t \in Nat /\ f.t \in Live /\ v \in Users
        /\ f.g = [rnti |-> v, buf |-> c]
    <2>1. f \in Ws
      BY <1>1, <1>2 DEF Ws
    <2>2. f \in Entry /\ f.t \in Ttis /\ f.t \in Live
      BY <1>0, <2>1, Distinct
    <2>3. f.t \in Nat
      BY <2>2, Rings
    <2>4. v \in Users
      BY <1>0, <1>1, <1>2, <1>3, EntryFields DEF PduInv, Reads, TypeOK
    <2>5. f.g = [rnti |-> v, buf |-> c]
      BY <1>3, <2>2 DEF Entry, Grant
    <2>6. QED
      BY <1>1, <1>2, <2>1, <2>2, <2>3, <2>4, <2>5
  <1>5. PICK e : /\ inflight' = [inflight EXCEPT ![i] = e]
                 /\ e = [f EXCEPT !.pc = "decode", !.g = [rnti |-> 0, buf |-> NoBuf]]
    BY <1>0, <1>1, <1>2, <1>4 DEF EndDecode, Entry
  <1>6. /\ e.w = f.w /\ e.t = f.t /\ e.j = f.j /\ e.nof = f.nof /\ e.res = f.res
        /\ e.pc = "decode"
    BY <1>4, <1>5 DEF Entry
  <1>7. Ws' = (Ws \ {f}) \union {e}
    BY <1>0, <1>1, <1>2, <1>5, Swapped
  <1>8. Times' = Times /\ Coming' = Coming /\ Live' = Live
    BY <1>1, <1>4, <1>6, <1>7, SameTimes
  <1>9. \A h \in Ws : h.t = f.t => h = f
    BY <1>0, <1>4, Distinct
  <1>10. /\ \A u \in Users : \A p \in Pids :
              u # v \/ p # Pid(f.t) \/ life[v] = "gone" => pending'[u][p] = pending[u][p]
         /\ life[v] # "gone" => pending'[v][Pid(f.t)] = NoBuf
         /\ pdu'.read = pdu.read /\ pdu'.todo = pdu.todo
         /\ pdu'.pc \in {"pop", "parse"} => pdu'.pc = pdu.pc
         /\ pdu.pc = "parse" => pdu'.pc = "parse"
    BY <1>0, <1>1, <1>2, <1>3, <1>4, CrcInfoPending
  <1>11. \A n, u, b : Waits(n, u, b)' <=> Waits(n, u, b)
    <2>1. \A n, k : (\A h \in Ws' : h.t = n => k >= h.j) <=> (\A h \in Ws : h.t = n => k >= h.j)
      BY <1>4, <1>6, <1>7
    <2>2. QED
      BY <1>1, <1>8, <2>1 DEF Waits
  <1>12. \A n, u, b : InHand(n, u, b)' <=> InHand(n, u, b) /\ n # f.t
    BY <1>4, <1>6, <1>7, <1>9 DEF InHand
  <1>13. \A b : ~Waits(f.t, v, b)
    <2> SUFFICES ASSUME NEW b, Waits(f.t, v, b) PROVE FALSE
      OBVIOUS
    <2>1. PICK k \in DOMAIN ring[Slot(f.t)] : /\ ring[Slot(f.t)][k] = [rnti |-> v, buf |-> b]
                                              /\ k >= f.j
      BY <1>4 DEF Waits
    <2>2. ring[Slot(f.t)][k].rnti # f.g.rnti
      BY <1>0, <1>4, <2>1 DEF Slotted
    <2>3. QED
      BY <1>3, <2>1, <2>2
  <1>14. \A n, u, b : Has(n, u, b)' => Has(n, u, b) /\ (u # v \/ n # f.t)
    BY <1>11, <1>12, <1>13 DEF Has
  <1>15. \A n, u, b : Has(n, u, b) => Has(n, u, b)' \/ (u = v /\ n = f.t)
    <2>1. \A n, u, b : InHand(n, u, b) /\ n = f.t => u = v
      BY <1>4, <1>9 DEF InHand
    <2>2. QED
      BY <1>11, <1>12, <2>1 DEF Has
  <1>16. \A n, u, b : Has(n, u, b) => n \in Live
    BY DEF Has, Waits, InHand, Live, Times
  <1>17. \A n \in Live : Pid(n) \in Pids /\ (n # f.t => Pid(n) # Pid(f.t))
    BY <1>0, <1>4, Distinct
  <1>18. Kept'
    <2>1. ASSUME NEW n, NEW b, NEW u \in Users, Has(n, u, b)', life[u] # "gone"
          PROVE  pending'[u][Pid(n)] = b
      <3>1. Has(n, u, b) /\ (u # v \/ n # f.t) /\ n \in Live
        BY <1>14, <1>16, <2>1
      <3>2. pending[u][Pid(n)] = b
        BY <1>0, <2>1, <3>1 DEF Kept
      <3>3. pending'[u][Pid(n)] = pending[u][Pid(n)]
        BY <1>10, <1>17, <3>1
      <3>4. QED
        BY <3>2, <3>3
    <2>2. ASSUME NEW u \in Users, NEW p \in Pids, life[u] = "in", pending'[u][p] # NoBuf
          PROVE  \E n, b : Has(n, u, b)' /\ p = Pid(n)
      <3>1. ~(u = v /\ p = Pid(f.t)) /\ pending[u][p] # NoBuf
        BY <1>10, <2>2
      <3>2. PICK n, b : Has(n, u, b) /\ p = Pid(n)
        BY <1>0, <2>2, <3>1 DEF Kept
      <3>3. Has(n, u, b)'
        BY <1>15, <3>1, <3>2
      <3>4. QED
        BY <3>2, <3>3
    <2>3. QED
      BY <1>1, <2>1, <2>2 DEF Kept
  <1>19. Slotted'
    <2>1. \A h \in Ws' : h = e \/ h \in Ws
      BY <1>7
    <2>2. /\ e.nof = Len(ring[Slot(e.t)]) /\ e.pc = "decode" /\ ring[Slot(TtiTxUl(e.t))] = << >>
      BY <1>0, <1>4, <1>6 DEF Slotted
    <2>3. QED
      BY <1>0, <1>1, <1>8, <2>1, <2>2 DEF Slotted
  <1>20. Granting'
    <2>1. \A h \in Ws' : h = e \/ h \in Ws
      BY <1>7
    <2>2. e.res = {}
      BY <1>0, <1>4, <1>6 DEF Granting
    <2>3. ASSUME NEW h \in Ws, NEW u \in h.res, life[u] # "gone"
          PROVE  pending'[u][Pid(TtiTxUl(h.t))] = NoBuf
      <3>1. pending[u][Pid(TtiTxUl(h.t))] = NoBuf
        BY <1>0, <2>3 DEF Granting
      <3>2. u \in Users /\ Pid(TtiTxUl(h.t)) \in Pids
        BY <1>0, <2>3, Distinct DEF Entry
      <3>3. QED
        BY <1>10, <3>1, <3>2
    <2>4. QED
      BY <1>0, <1>1, <2>1, <2>2, <2>3 DEF Granting
  <1>21. Leaving'
    <2>1. \A n, a : Due(n, a)' <=> Due(n, a)
      BY <1>1, <1>8 DEF Due
    <2>2. QED
      BY <1>0, <1>1, <1>6, <1>7, <1>11, <2>1 DEF Leaving
  <1>22. Left'
    BY <1>0, <1>1, <1>4, <1>14 DEF Left
  <1>23. BeingRead'
    <2>1. \A n, a : Due(n, a)' <=> Due(n, a)
      BY <1>1, <1>8 DEF Due
    <2>2. QED
      BY <1>0, <1>1, <1>10, <1>14, <2>1 DEF BeingRead
  <1>24. QED
    BY <1>18, <1>19, <1>20, <1>21, <1>22, <1>23 DEF Moving

LEMMA ScheduleMoves ==
  ASSUME GrantsInv, NEW i, Schedule(i)
  PROVE  Moving'
  <1>0. PduInv /\ TypeOK /\ Slotted /\ Kept /\ Granting /\ Leaving /\ Left /\ BeingRead
    BY DEF GrantsInv, Moving, PduInv
  <1>1. /\ i \in DOMAIN inflight /\ inflight[i].pc = "decode" /\ inflight[i].j > inflight[i].nof
        /\ UNCHANGED <<tti, pending, queue, free, life, rem, slow, pdu, haveData, phase>>
    BY DEF Schedule, At, ue
  <1>2. PICK f : f = inflight[i]
    OBVIOUS
  <1>3. PICK S \in SUBSET {u \in Users : life[u] = "in"} :
          inflight' = [inflight EXCEPT ![i].pc = "alloc", ![i].res = S]
    BY DEF Schedule
  <1>4. PICK s : s = Slot(f.t)
    OBVIOUS
  <1>5. f \in Ws /\ f \in Entry /\ f.pc = "decode" /\ f.t \in Live /\ f.j > f.nof
    <2>1. f \in Ws
      BY <1>1, <1>2 DEF Ws
    <2>2. f \in Entry /\ f.t \in Live
      BY <1>0, <2>1, Distinct
    <2>3. QED
      BY <1>1, <1>2, <2>1, <2>2
  <1>6. PICK e : inflight' = [inflight EXCEPT ![i] = e] /\ e = [f EXCEPT !.pc = "alloc", !.res = S]
    BY <1>0, <1>1, <1>2, <1>3, <1>5 DEF Entry
  <1>7. e.w = f.w /\ e.t = f.t /\ e.res = S /\ e.pc = "alloc" /\ e.j = f.j
    BY <1>5, <1>6 DEF Entry
  <1>8. Ws' = (Ws \ {f}) \union {e}
    BY <1>0, <1>1, <1>2, <1>6, Swapped
  <1>9. Times' = Times /\ Coming' = Coming /\ Live' = Live
    BY <1>1, <1>5, <1>7, <1>8, SameTimes
  <1>10. \A h \in Ws : h.t = f.t => h = f
    BY <1>0, <1>5, Distinct
  <1>11. /\ s \in Slots /\ ring'[s] = << >> /\ \A r \in Slots : r # s => ring'[r] = ring[r]
    <2>1. ring \in [Slots -> Seq(Grant)] /\ s \in Slots
      BY <1>0, <1>4, <1>5, Distinct DEF TypeOK, Slots
    <2>2. ring' = [ring EXCEPT ![s] = << >>]
      BY <1>2, <1>4 DEF Schedule
    <2>3. QED
      BY <2>1, <2>2
  <1>12. \A n \in Live : Slot(n) \in Slots /\ (n # f.t => Slot(n) # s)
    BY <1>0, <1>4, <1>5, Distinct
  <1>13. \A n, u, b : ~Waits(f.t, u, b)
    <2> SUFFICES ASSUME NEW u, NEW b, Waits(f.t, u, b) PROVE FALSE
      OBVIOUS
    <2>1. PICK k \in DOMAIN ring[s] : k >= f.j
      BY <1>4, <1>5 DEF Waits
    <2>2. f.nof = Len(ring[s]) /\ ring[s] \in Seq(Grant) /\ f.nof \in Nat /\ f.j \in Nat
      BY <1>0, <1>4, <1>5, <1>11 DEF Slotted, TypeOK, Slots, Entry
    <2>3. k \in 1 .. f.nof
      BY <2>1, <2>2, LenProperties
    <2>4. QED
      BY <1>5, <2>1, <2>2, <2>3
  <1>14. \A n, u, b : Waits(n, u, b)' <=> Waits(n, u, b)
    <2> SUFFICES ASSUME NEW n, NEW u, NEW b PROVE Waits(n, u, b)' <=> Waits(n, u, b)
      OBVIOUS
    <2>1. CASE n = f.t
      BY <1>4, <1>11, <1>13, <2>1 DEF Waits
    <2>2. CASE n # f.t /\ n \in Live
      <3>1. ring'[Slot(n)] = ring[Slot(n)]
        BY <1>11, <1>12, <2>2
      <3>2. \A k : (\A h \in Ws' : h.t = n => k >= h.j) <=> (\A h \in Ws : h.t = n => k >= h.j)
        BY <1>7, <1>8, <2>2
      <3>3. QED
        BY <1>9, <3>1, <3>2 DEF Waits
    <2>3. QED
      BY <1>9, <2>1, <2>2 DEF Waits
  <1>15. \A n, u, b : InHand(n, u, b)' <=> InHand(n, u, b)
    BY <1>5, <1>7, <1>8 DEF InHand
  <1>16. \A n, b : \A u \in Users : Has(n, u, b)' <=> Has(n, u, b)
    BY <1>14, <1>15 DEF Has
  <1>17. Kept' /\ Left' /\ BeingRead'
    <2>1. phase # "join"
      BY <1>0, <1>5 DEF Left
    <2>2. QED
      BY <1>0, <1>1, <1>9, <1>16, <2>1, SameGrants
  <1>18. \A h \in Ws' : h = e \/ (h \in Ws /\ h # f /\ h.t # f.t)
    BY <1>8, <1>10
  <1>19. Slotted'
    <2>1. ASSUME NEW h \in Ws, h # f
          PROVE  /\ ring'[Slot(h.t)] = ring[Slot(h.t)]
                 /\ h.pc # "end" => ring'[Slot(TtiTxUl(h.t))] = << >>
      <3>1. h.t \in Live /\ h.t # f.t /\ TtiTxUl(h.t) \in Live
        BY <1>0, <1>10, <2>1, Distinct
      <3>2. ring'[Slot(h.t)] = ring[Slot(h.t)]
        BY <1>11, <1>12, <3>1
      <3>3. h.pc # "end" => ring[Slot(TtiTxUl(h.t))] = << >>
        BY <1>0, <2>1 DEF Slotted
      <3>4. QED
        BY <1>11, <1>12, <3>1, <3>2, <3>3
    <2>2. ring'[Slot(e.t)] = << >> /\ ring'[Slot(TtiTxUl(e.t))] = << >>
      <3>1. ring[Slot(TtiTxUl(f.t))] = << >> /\ TtiTxUl(f.t) \in Live
        BY <1>0, <1>5, Distinct DEF Slotted
      <3>2. QED
        BY <1>4, <1>7, <1>11, <1>12, <3>1
    <2>3. ASSUME NEW h \in Ws'
          PROVE  /\ h.pc \in {"alloc", "end"} => ring'[Slot(h.t)] = << >>
                 /\ h.pc # "end" => ring'[Slot(TtiTxUl(h.t))] = << >>
                 /\ h.pc \in {"decode", "write"} => h.nof = Len(ring'[Slot(h.t)])
                 /\ h.pc = "write" => \A k \in DOMAIN ring'[Slot(h.t)] :
                                       k >= h.j => ring'[Slot(h.t)][k].rnti # h.g.rnti
      <3>1. CASE h = e
        BY <1>7, <2>2, <3>1
      <3>2. CASE h \in Ws /\ h # f
        BY <1>0, <2>1, <3>2 DEF Slotted
      <3>3. QED
        BY <1>18, <3>1, <3>2
    <2>4. \A r \in Slots : ring'[r] # << >> => \E n \in Live : r = Slot(n)
      BY <1>0, <1>11 DEF Slotted
    <2>5. \A r \in Slots : \A k, l \in DOMAIN ring'[r] :
            ring'[r][k].rnti = ring'[r][l].rnti => k = l \/ ring'[r][k].rnti = 0
      BY <1>0, <1>11 DEF Slotted
    <2>6. QED
      BY <1>9, <2>3, <2>4, <2>5 DEF Slotted
  <1>20. Granting'
    <2>1. ASSUME NEW u \in S
          PROVE  life[u] = "in" /\ pending[u][Pid(TtiTxUl(e.t))] = NoBuf /\ u # rem.user
      <3>1. u \in Users /\ life[u] = "in"
        BY <2>1
      <3>2. u # rem.user
        BY <1>0, <3>1, Sizes DEF Leaving
      <3>3. pending[u][Pid(TtiTxUl(f.t))] = NoBuf
        <4>1. TtiTxUl(f.t) \in Live /\ TtiTxUl(f.t) \in Coming /\ Pid(TtiTxUl(f.t)) \in Pids
          BY <1>0, <1>5, Distinct
        <4>2. SUFFICES ASSUME NEW n, NEW b, Has(n, u, b), Pid(TtiTxUl(f.t)) = Pid(n) PROVE FALSE
          BY <1>0, <3>1, <4>1 DEF Kept
        <4>3. n \in Live
          BY <4>2 DEF Has, Waits, InHand, Live, Times
        <4>4. n = TtiTxUl(f.t)
          BY <1>0, <4>1, <4>2, <4>3, Distinct
        <4>5. ~Waits(n, u, b)
          BY <1>0, <1>5, <4>4 DEF Slotted, Waits
        <4>6. ~InHand(n, u, b)
          BY <1>0, <4>1, <4>4, Distinct DEF InHand
        <4>7. QED
          BY <4>2, <4>5, <4>6 DEF Has
      <3>4. QED
        BY <1>7, <3>1, <3>2, <3>3
    <2>2. QED
      BY <1>0, <1>1, <1>7, <1>18, <2>1 DEF Granting
  <1>21. Leaving'
    <2>1. \A n, a : Due(n, a)' <=> Due(n, a)
      BY <1>1, <1>9 DEF Due
    <2>2. QED
      BY <1>0, <1>1, <1>7, <1>8, <1>14, <2>1 DEF Leaving
  <1>22. QED
    BY <1>17, <1>19, <1>20, <1>21 DEF Moving

\* Users in ascending order, as many as there are, are all of them.
LEMMA Onto ==
  ASSUME NEW S, IsFiniteSet(S), S \subseteq Nat, NEW order \in [1 .. Cardinality(S) -> S],
         \A k, l \in DOMAIN order : k < l => order[k] < order[l]
  PROVE  /\ \A k, l \in DOMAIN order : order[k] = order[l] => k = l
         /\ \A u \in S : \E k \in DOMAIN order : order[k] = u
  <1>1. PICK n \in Nat : n = Cardinality(S)
    BY FS_CardinalityType
  <1>2. order \in [1 .. n -> S] /\ DOMAIN order = 1 .. n
    BY <1>1
  <1>3. \A k, l \in 1 .. n : order[k] = order[l] => k = l
    <2>1. SUFFICES ASSUME NEW k \in 1 .. n, NEW l \in 1 .. n, k < l PROVE order[k] # order[l]
      BY <1>2
    <2>2. order[k] < order[l] /\ order[k] \in Nat
      BY <1>2, <2>1
    <2>3. QED
      BY <2>2
  <1>4. ASSUME NEW u \in S, \A k \in 1 .. n : order[k] # u
        PROVE  FALSE
    <2>1. IsFiniteSet(S \ {u}) /\ Cardinality(S \ {u}) = n - 1
      BY <1>1, FS_RemoveElement
    <2>2. IsFiniteSet(1 .. n) /\ Cardinality(1 .. n) = n
      <3>1. 1 \in Int /\ n \in Int /\ (IF 1 > n THEN 0 ELSE n - 1 + 1) = n
        BY <1>1
      <3>2. QED
        BY <3>1, FS_Interval
    <2>3. order \in [1 .. n -> S \ {u}] /\ Cardinality(S \ {u}) < Cardinality(1 .. n)
      <3>1. order \in [1 .. n -> S \ {u}]
        <4>1. \A k \in 1 .. n : order[k] \in S \ {u}
          BY <1>2, <1>4
        <4>2. order = [k \in 1 .. n |-> order[k]]
          BY <1>2
        <4>3. QED
          BY <4>1, <4>2
      <3>2. Cardinality(S \ {u}) < Cardinality(1 .. n)
        BY <2>1, <2>2
      <3>3. QED
        BY <3>1, <3>2
    <2>4. \E k, l \in 1 .. n : k # l /\ order[k] = order[l]
      BY <2>1, <2>2, <2>3, FS_PigeonHole
    <2>5. QED
      BY <1>3, <2>4
  <1>5. QED
    BY <1>2, <1>3, <1>4

\* Only workers in worker_end leave.
LEMMA Ended ==
  ASSUME NEW gs \in Seq(Entry), NEW now, Line(gs, now), WorkerEnd(gs)
  PROVE  /\ Ws' \subseteq {gs[k] : k \in DOMAIN gs}
         /\ \A k \in DOMAIN gs : gs[k].pc # "end" => gs[k] \in Ws'
  <1>1. PICK n \in 0 .. Len(gs) : /\ \A k \in 1 .. n : gs[k].pc = "end"
                                  /\ inflight' = SubSeq(gs, n + 1, Len(gs))
    BY DEF WorkerEnd
  <1>2. /\ inflight' \in Seq(Entry) /\ Len(inflight') = Len(gs) - n
        /\ \A k \in 1 .. Len(gs) - n : n + k \in 1 .. Len(gs) /\ inflight'[k] = gs[n + k]
    BY <1>1, LineDropped
  <1>3. /\ DOMAIN gs = 1 .. Len(gs) /\ Len(gs) \in Nat
        /\ DOMAIN inflight' = 1 .. Len(gs) - n
    BY <1>2, LenProperties
  <1>4. \A k \in 1 .. Len(gs) : k > n => k - n \in 1 .. Len(gs) - n /\ n + (k - n) = k
    BY <1>1, <1>3
  <1>5. \A k \in 1 .. Len(gs) : gs[k].pc # "end" => k > n
    BY <1>1, <1>3
  <1>6. Ws' \subseteq {gs[k] : k \in DOMAIN gs}
    BY <1>2, <1>3 DEF Ws
  <1>7. ASSUME NEW k \in DOMAIN gs, gs[k].pc # "end"
        PROVE  gs[k] \in Ws'
    <2>1. k - n \in DOMAIN inflight' /\ inflight'[k - n] = gs[k]
      BY <1>2, <1>3, <1>4, <1>5, <1>7
    <2>2. QED
      BY <2>1 DEF Ws
  <1>8. QED
    BY <1>6, <1>7

\* What get_ul_sched writes in the slot of subframe t for the users S.
Writes(t, S) ==
    /\ \A r \in Slots : r # Slot(t) => ring'[r] = ring[r]
    /\ \A k \in DOMAIN ring'[Slot(t)] :
         /\ ring'[Slot(t)][k].rnti \in S
         /\ ring'[Slot(t)][k].buf = Request(ring'[Slot(t)][k].rnti, Pid(t))
    /\ \A k, l \in DOMAIN ring'[Slot(t)] :
         ring'[Slot(t)][k].rnti = ring'[Slot(t)][l].rnti => k = l
    /\ \A u \in S : \E k \in DOMAIN ring'[Slot(t)] :
         ring'[Slot(t)][k] = [rnti |-> u, buf |-> Request(u, Pid(t))]
    /\ \A u \in Users : \A p \in Pids :
         pending'[u][p] = IF u \in S /\ p = Pid(t) THEN Request(u, Pid(t)) ELSE pending[u][p]

\* Worker f goes on to worker_end, and those that may leave.
Leaves(f) ==
    \E e : /\ e.w = f.w /\ e.t = f.t /\ e.pc = "end" /\ e.res = {}
           /\ Ws' \subseteq (Ws \ {f}) \union {e}
           /\ \A h \in Ws : h # f /\ h.pc # "end" => h \in Ws'

LEMMA AllocWrites ==
  ASSUME GrantsInv, NEW i, Alloc(i), NEW f, f = inflight[i], NEW t, t = TtiTxUl(f.t),
         NEW S, S = {u \in f.res : life[u] # "gone"}
  PROVE  /\ f \in Ws /\ f \in Entry /\ f.pc = "alloc" /\ S \subseteq Users
         /\ Writes(t, S) /\ Leaves(f)
  <1>0. PduInv /\ TypeOK /\ Granting /\ Line(inflight, tti)
    BY DEF GrantsInv, Moving, PduInv
  <1>1. i \in DOMAIN inflight /\ inflight[i].pc = "alloc"
    BY DEF Alloc, At
  <1>2. /\ f \in Ws /\ f \in Entry /\ f.pc = "alloc" /\ S \subseteq Users
        /\ t \in Live /\ Slot(t) \in Slots /\ Pid(t) \in Pids
    <2>1. f \in Ws
      BY <1>1 DEF Ws
    <2>2. f \in Entry /\ t \in Live
      BY <1>0, <2>1, Distinct
    <2>3. S \subseteq Users
      BY <2>2 DEF Entry
    <2>4. Slot(t) \in Slots /\ Pid(t) \in Pids
      BY <1>0, <2>2, Distinct
    <2>5. QED
      BY <1>1, <2>1, <2>2, <2>3, <2>4
  <1>3. PICK order \in [1 .. Cardinality(S) -> S] :
          /\ \A k, l \in DOMAIN order : k < l => order[k] < order[l]
          /\ ring' = [ring EXCEPT ![Slot(t)] =
                       [k \in DOMAIN order |-> [rnti |-> order[k], buf |-> Request(order[k], Pid(t))]]]
    <2>1. {u \in inflight[i].res : life[u] # "gone"} = S /\ TtiTxUl(inflight[i].t) = t
      OBVIOUS
    <2>2. \E order \in [1 .. Cardinality(S) -> S] :
            /\ \A k, l \in DOMAIN order : k < l => order[k] < order[l]
            /\ ring' = [ring EXCEPT ![Slot(t)] =
                         [k \in DOMAIN order |-> [rnti |-> order[k], buf |-> Request(order[k], Pid(t))]]]
      BY <2>1 DEF Alloc
    <2>3. QED
      BY <2>2
  <1>4. /\ \A k, l \in DOMAIN order : order[k] = order[l] => k = l
        /\ \A u \in S : \E k \in DOMAIN order : order[k] = u
        /\ \A k \in DOMAIN order : order[k] \in S
    <2>1. IsFiniteSet(S) /\ S \subseteq Nat
      BY <1>2, RingsOK, FS_Subset DEF RingsOK
    <2>2. \A k \in DOMAIN order : order[k] \in S
      OBVIOUS
    <2>3. QED
      BY <1>3, <2>1, <2>2, Onto
  <1>5. PICK q : q = [k \in DOMAIN order |-> [rnti |-> order[k], buf |-> Request(order[k], Pid(t))]]
    OBVIOUS
  <1>6. /\ ring'[Slot(t)] = q /\ \A r \in Slots : r # Slot(t) => ring'[r] = ring[r]
    <2>1. ring \in [Slots -> Seq(Grant)] /\ ring' = [ring EXCEPT ![Slot(t)] = q]
      BY <1>0, <1>3, <1>5 DEF TypeOK, Slots
    <2>2. QED
      BY <1>2, <2>1
  <1>7. /\ DOMAIN q = DOMAIN order
        /\ \A k \in DOMAIN q : /\ q[k] = [rnti |-> order[k], buf |-> Request(order[k], Pid(t))]
                               /\ q[k].rnti = order[k] /\ q[k].buf = Request(order[k], Pid(t))
    BY <1>5
  <1>8. \A u \in Users : \A p \in Pids :
          pending'[u][p] = IF u \in S /\ p = Pid(t) THEN Request(u, Pid(t)) ELSE pending[u][p]
    <2>1. TAKE u \in Users
    <2>2. TAKE p \in Pids
    <2>3. pending[u] \in [Pids -> Bufs \union {NoBuf}]
      BY <1>0 DEF TypeOK, Pids
    <2>4. PICK x : x = Request(u, Pid(t))
      OBVIOUS
    <2>5. pending'[u] = IF u \in S /\ x # NoBuf THEN [pending[u] EXCEPT ![Pid(t)] = x]
                                               ELSE pending[u]
      BY <2>4 DEF Alloc
    <2>6. u \in S => pending[u][Pid(t)] = NoBuf
      BY <1>0, <1>2 DEF Granting
    <2>7. QED
      BY <1>2, <2>3, <2>4, <2>5, <2>6
  <1>9. Leaves(f)
    <2>1. PICK e : e = [f EXCEPT !.pc = "end", !.j = 1, !.nof = 0, !.res = {}]
      OBVIOUS
    <2>2. e \in Entry /\ e.w = f.w /\ e.t = f.t /\ e.pc = "end" /\ e.res = {}
      BY <1>2, <2>1 DEF Entry
    <2>3. PICK gs : gs = [inflight EXCEPT ![i] = e]
      OBVIOUS
    <2>4. /\ inflight \in Seq(Entry) /\ DOMAIN inflight = 1 .. Len(inflight)
          /\ i \in 1 .. Len(inflight)
      BY <1>0, <1>1, EntryFields DEF TypeOK
    <2>5. [inflight EXCEPT ![i].pc = "end", ![i].j = 1, ![i].nof = 0, ![i].res = {}] = gs
      BY <1>2, <2>1, <2>3, <2>4 DEF Entry
    <2>6. WorkerEnd(gs)
      BY <2>5 DEF Alloc
    <2>7. gs \in Seq(Entry) /\ Len(gs) = Len(inflight)
          /\ \A k \in 1 .. Len(inflight) : gs[k] = IF k = i THEN e ELSE inflight[k]
      BY <1>0, <2>2, <2>3, <2>4, Replaced
    <2>8. Line(gs, tti)
      BY <1>0, <2>2, <2>3, <2>4, Replaced, Zenon
    <2>9. DOMAIN gs = DOMAIN inflight
      BY <2>3
    <2>10. /\ Ws' \subseteq {gs[k] : k \in DOMAIN gs}
           /\ \A k \in DOMAIN gs : gs[k].pc # "end" => gs[k] \in Ws'
      BY <2>6, <2>7, <2>8, Ended
    <2>11. \A k \in DOMAIN inflight : k # i => inflight[k] # f
      BY <1>0, <2>4 DEF Line
    <2>12. \A h \in Ws' : h \in (Ws \ {f}) \union {e}
      <3>1. TAKE h \in Ws'
      <3>2. PICK k \in DOMAIN inflight : h = gs[k]
        BY <2>9, <2>10
      <3>3. inflight[k] \in Ws
        BY DEF Ws
      <3>4. QED
        BY <2>4, <2>7, <2>11, <3>2, <3>3
    <2>13. ASSUME NEW h \in Ws, h # f, h.pc # "end" PROVE h \in Ws'
      <3>1. PICK k \in DOMAIN inflight : h = inflight[k]
        BY DEF Ws
      <3>2. k # i /\ gs[k] = h
        BY <2>4, <2>7, <2>13, <3>1
      <3>3. QED
        BY <2>9, <2>10, <2>13, <3>2
    <2>14. QED
      BY <2>2, <2>12, <2>13 DEF Leaves
  <1>10. /\ \A k \in DOMAIN q : q[k].rnti \in S /\ q[k].buf = Request(q[k].rnti, Pid(t))
         /\ \A k, l \in DOMAIN q : q[k].rnti = q[l].rnti => k = l
         /\ \A u \in S : \E k \in DOMAIN q : q[k] = [rnti |-> u, buf |-> Request(u, Pid(t))]
    BY <1>4, <1>7
  <1>11. Writes(t, S)
    BY <1>6, <1>8, <1>10 DEF Writes
  <1>12. QED
    BY <1>2, <1>9, <1>11

LEMMA AllocMoves ==
  ASSUME GrantsInv, NEW i, Alloc(i)
  PROVE  Moving'
  <1>0. PduInv /\ TypeOK /\ Slotted /\ Kept /\ Granting /\ Leaving /\ Left /\ BeingRead
    BY DEF GrantsInv, Moving, PduInv
  <1>1. PICK f, t, S : f = inflight[i] /\ t = TtiTxUl(f.t) /\ S = {u \in f.res : life[u] # "gone"}
    OBVIOUS
  <1>2. /\ f \in Ws /\ f \in Entry /\ f.pc = "alloc" /\ S \subseteq Users
        /\ \A r \in Slots : r # Slot(t) => ring'[r] = ring[r]
        /\ \A k \in DOMAIN ring'[Slot(t)] :
             /\ ring'[Slot(t)][k].rnti \in S
             /\ ring'[Slot(t)][k].buf = Request(ring'[Slot(t)][k].rnti, Pid(t))
        /\ \A k, l \in DOMAIN ring'[Slot(t)] :
             ring'[Slot(t)][k].rnti = ring'[Slot(t)][l].rnti => k = l
        /\ \A u \in S : \E k \in DOMAIN ring'[Slot(t)] :
             ring'[Slot(t)][k] = [rnti |-> u, buf |-> Request(u, Pid(t))]
        /\ \A u \in Users : \A p \in Pids :
             pending'[u][p] = IF u \in S /\ p = Pid(t) THEN Request(u, Pid(t)) ELSE pending[u][p]
    <2>1. /\ f \in Ws /\ f \in Entry /\ f.pc = "alloc" /\ S \subseteq Users
          /\ Writes(t, S)
      BY <1>1, AllocWrites
    <2>2. QED
      BY <2>1 DEF Writes
  <1>3. PICK e : /\ e.w = f.w /\ e.t = f.t /\ e.pc = "end" /\ e.res = {}
                 /\ Ws' \subseteq (Ws \ {f}) \union {e}
                 /\ \A h \in Ws : h # f /\ h.pc # "end" => h \in Ws'
    BY <1>1, AllocWrites DEF Leaves
  <1>4. UNCHANGED <<tti, queue, life, rem, slow, pdu, haveData, phase>>
    BY DEF Alloc
  <1>5. Coming' = Coming /\ Times' \subseteq Times /\ Live' \subseteq Live
    <2>1. Coming' = Coming
      BY <1>4 DEF Coming
    <2>2. Times' \subseteq Times
      BY <1>2, <1>3 DEF Times
    <2>3. QED
      BY <2>1, <2>2 DEF Live
  <1>6. /\ t \in Coming /\ t \in Live /\ t \in Live' /\ t \notin Times
        /\ Slot(t) \in Slots /\ Pid(t) \in Pids
        /\ \A d \in Ahead : t = (tti + d) % Period => d + 1 >= RoundTrip
    <2>1. /\ t \in Coming /\ t \in Live
          /\ \A d \in Ahead : t = (tti + d) % Period => d + 1 >= RoundTrip
      BY <1>0, <1>1, <1>2, Distinct
    <2>2. t \notin Times
      BY <1>0, <2>1, Distinct DEF Times
    <2>3. Slot(t) \in Slots /\ Pid(t) \in Pids
      BY <1>0, <2>1, Distinct
    <2>4. QED
      BY <1>5, <2>1, <2>2, <2>3 DEF Live
  <1>7. \A n \in Live : /\ Slot(n) \in Slots /\ Pid(n) \in Pids
                        /\ n # t => /\ Slot(n) # Slot(t) /\ Pid(n) # Pid(t)
                                    /\ ring'[Slot(n)] = ring[Slot(n)]
    BY <1>0, <1>2, <1>6, Distinct
  <1>8. ring[Slot(t)] = << >> /\ ring[Slot(f.t)] = << >>
    BY <1>0, <1>1, <1>2 DEF Slotted
  <1>9. \A h \in Ws' : h = e \/ (h \in Ws /\ h # f /\ h.t # f.t)
    BY <1>0, <1>2, <1>3, Distinct
  <1>10. \A h \in Ws : h.pc \in {"decode", "write"} => h \in Ws' /\ h.t \in Times' /\ h.t \in Live'
    BY <1>2, <1>3 DEF Times, Live
  <1>11. \A n, u, b : Waits(n, u, b)' =>
           Waits(n, u, b) \/ (n = t /\ u \in S /\ b = Request(u, Pid(t)))
    <2> SUFFICES ASSUME NEW n, NEW u, NEW b, Waits(n, u, b)', n # t PROVE Waits(n, u, b)
      <3>1. \A u, b : Waits(t, u, b)' => u \in S /\ b = Request(u, Pid(t))
        BY <1>2 DEF Waits
      <3>2. QED
        BY <3>1
    <2>1. n \in Live /\ ring'[Slot(n)] = ring[Slot(n)]
      BY <1>5, <1>7 DEF Waits
    <2>2. PICK k \in DOMAIN ring[Slot(n)] : /\ ring[Slot(n)][k] = [rnti |-> u, buf |-> b]
                                            /\ \A h \in Ws' : h.t = n => k >= h.j
      BY <2>1 DEF Waits
    <2>3. ASSUME NEW h \in Ws, h.t = n
          PROVE  k >= h.j
      <3>1. h.pc \notin {"alloc", "end"}
        BY <1>0, <2>2, <2>3 DEF Slotted
      <3>2. h \in Ws'
        BY <1>2, <1>3, <3>1
      <3>3. QED
        BY <2>2, <2>3, <3>2
    <2>4. QED
      BY <2>1, <2>2, <2>3 DEF Waits
  <1>12. \A n, u, b : Waits(n, u, b) => Waits(n, u, b)'
    <2> SUFFICES ASSUME NEW n, NEW u, NEW b, Waits(n, u, b) PROVE Waits(n, u, b)'
      OBVIOUS
    <2>1. PICK k \in DOMAIN ring[Slot(n)] : /\ ring[Slot(n)][k] = [rnti |-> u, buf |-> b]
                                            /\ \A h \in Ws : h.t = n => k >= h.j
      BY DEF Waits
    <2>2. n \in Live /\ n # t /\ n # f.t /\ ring'[Slot(n)] = ring[Slot(n)]
      BY <1>7, <1>8, <2>1 DEF Waits
    <2>3. n \in Live'
      <3>1. CASE n \in Coming
        BY <1>5, <3>1 DEF Live
      <3>2. CASE n \in Times
        <4>1. PICK h \in Ws : h.t = n
          BY <3>2 DEF Times
        <4>2. h.pc \in {"decode", "write"}
          <5>1. h.pc \notin {"alloc", "end"}
            BY <1>0, <2>1, <4>1 DEF Slotted
          <5>2. h \in Entry
            BY <1>0, Distinct
          <5>3. QED
            BY <5>1, <5>2 DEF Entry
        <4>3. QED
          BY <1>10, <4>1, <4>2
      <3>3. QED
        BY <2>2, <3>1, <3>2 DEF Live
    <2>4. \A h \in Ws' : h.t = n => k >= h.j
      BY <1>3, <1>9, <2>1, <2>2
    <2>5. QED
      BY <2>1, <2>2, <2>3, <2>4 DEF Waits
  <1>13. \A n, u, b : InHand(n, u, b)' <=> InHand(n, u, b)
    BY <1>2, <1>3, <1>9 DEF InHand
  <1>14. \A n, u, b : Has(n, u, b)' => Has(n, u, b) \/ (n = t /\ u \in S /\ b = Request(u, Pid(t)))
    BY <1>11, <1>13 DEF Has
  <1>15. \A n, u, b : Has(n, u, b) => Has(n, u, b)'
    BY <1>12, <1>13 DEF Has
  <1>16. \A u \in S : \E b : Has(t, u, b)'
    <2>1. TAKE u \in S
    <2>2. \A h \in Ws' : h.t # t
      BY <1>5, <1>6 DEF Times
    <2>3. PICK b : b = Request(u, Pid(t))
      OBVIOUS
    <2>4. PICK k \in DOMAIN ring'[Slot(t)] : ring'[Slot(t)][k] = [rnti |-> u, buf |-> b]
      BY <1>2, <2>3
    <2>5. Waits(t, u, b)'
      BY <1>6, <2>2, <2>4 DEF Waits
    <2>6. QED
      BY <2>3, <2>5 DEF Has
  <1>17. \A n, u, b : Has(n, u, b) => n \in Live /\ n # t
    <2>1. \A n, u, b : Has(n, u, b) => n \in Live
      BY DEF Has, Waits, InHand, Live, Times
    <2>2. \A u, b : ~Waits(t, u, b)
      BY <1>8 DEF Waits
    <2>3. \A u, b : ~InHand(t, u, b)
      BY <1>6 DEF InHand, Times
    <2>4. QED
      BY <2>1, <2>2, <2>3 DEF Has
  <1>18. Kept'
    <2>1. ASSUME NEW n, NEW b, NEW u \in Users, Has(n, u, b)', life[u] # "gone"
          PROVE  pending'[u][Pid(n)] = b
      <3>1. CASE n = t /\ u \in S /\ b = Request(u, Pid(t))
        BY <1>2, <1>6, <3>1
      <3>2. CASE Has(n, u, b)
        <4>1. pending[u][Pid(n)] = b
          BY <1>0, <2>1, <3>2 DEF Kept
        <4>2. Pid(n) # Pid(t) /\ Pid(n) \in Pids
          BY <1>7, <1>17, <3>2
        <4>3. QED
          BY <1>2, <4>1, <4>2
      <3>3. QED
        BY <1>14, <2>1, <3>1, <3>2
    <2>2. ASSUME NEW u \in Users, NEW p \in Pids, life[u] = "in", pending'[u][p] # NoBuf
          PROVE  \E n, b : Has(n, u, b)' /\ p = Pid(n)
      <3>1. CASE u \in S /\ p = Pid(t)
        BY <1>16, <3>1
      <3>2. CASE ~(u \in S /\ p = Pid(t))
        <4>1. pending[u][p] # NoBuf
          BY <1>2, <2>2, <3>2
        <4>2. QED
          BY <1>0, <1>15, <2>2, <4>1 DEF Kept
      <3>3. QED
        BY <3>1, <3>2
    <2>3. QED
      BY <1>4, <2>1, <2>2 DEF Kept
  <1>19. Slotted'
    <2>1. ASSUME NEW h \in Ws'
          PROVE  /\ h.pc \in {"alloc", "end"} => ring'[Slot(h.t)] = << >>
                 /\ h.pc # "end" => ring'[Slot(TtiTxUl(h.t))] = << >>
                 /\ h.pc \in {"decode", "write"} => h.nof = Len(ring'[Slot(h.t)])
                 /\ h.pc = "write" => \A k \in DOMAIN ring'[Slot(h.t)] :
                                       k >= h.j => ring'[Slot(h.t)][k].rnti # h.g.rnti
      <3>1. h.t \in Live /\ h.t # t
        BY <1>5, <1>6 DEF Times, Live
      <3>2. ring'[Slot(h.t)] = ring[Slot(h.t)]
        BY <1>7, <3>1
      <3>3. CASE h = e
        BY <1>3, <1>8, <3>2, <3>3
      <3>4. CASE h \in Ws /\ h # f
        <4>1. TtiTxUl(h.t) \in Live /\ TtiTxUl(h.t) # t
          BY <1>0, <1>1, <1>2, <3>4, Distinct
        <4>2. ring'[Slot(TtiTxUl(h.t))] = ring[Slot(TtiTxUl(h.t))]
          BY <1>7, <4>1
        <4>3. QED
          BY <1>0, <3>2, <3>4, <4>2 DEF Slotted
      <3>5. QED
        BY <1>9, <3>3, <3>4
    <2>2. ASSUME NEW r \in Slots, ring'[r] # << >>
          PROVE  \E n \in Live' : r = Slot(n)
      <3>1. CASE r = Slot(t)
        BY <1>6, <3>1
      <3>2. CASE r # Slot(t)
        <4>1. ring[r] # << >>
          BY <1>2, <2>2, <3>2
        <4>2. PICK n \in Live : r = Slot(n)
          BY <1>0, <4>1 DEF Slotted
        <4>3. CASE n \in Coming
          BY <1>5, <4>2, <4>3 DEF Live
        <4>4. CASE n \in Times
          <5>1. PICK h \in Ws : h.t = n
            BY <4>4 DEF Times
          <5>2. h.pc \notin {"alloc", "end"} /\ h \in Entry
            BY <1>0, <4>1, <4>2, <5>1, Distinct DEF Slotted
          <5>3. h.pc \in {"decode", "write"}
            BY <5>2 DEF Entry
          <5>4. QED
            BY <1>10, <4>2, <5>1, <5>3
        <4>5. QED
          BY <4>3, <4>4 DEF Live
      <3>3. QED
        BY <3>1, <3>2
    <2>3. \A r \in Slots : \A k, l \in DOMAIN ring'[r] :
            ring'[r][k].rnti = ring'[r][l].rnti => k = l \/ ring'[r][k].rnti = 0
      <3>1. TAKE r \in Slots
      <3>2. CASE r = Slot(t)
        BY <1>2, <3>2
      <3>3. CASE r # Slot(t)
        BY <1>0, <1>2, <3>3 DEF Slotted
      <3>4. QED
        BY <3>2, <3>3
    <2>4. QED
      BY <2>1, <2>2, <2>3 DEF Slotted
  <1>20. Granting'
    <2>1. ASSUME NEW h \in Ws', NEW u \in h.res
          PROVE  /\ h \in Ws /\ h # f
                 /\ life[u] # "gone" => pending'[u][Pid(TtiTxUl(h.t))] = NoBuf
      <3>1. h \in Ws /\ h # f
        BY <1>3, <1>9, <2>1
      <3>2. TtiTxUl(h.t) \in Live /\ TtiTxUl(h.t) # t /\ h \in Entry
        BY <1>0, <1>1, <1>2, <3>1, Distinct
      <3>3. u \in Users /\ Pid(TtiTxUl(h.t)) \in Pids /\ Pid(TtiTxUl(h.t)) # Pid(t)
        BY <1>7, <3>2 DEF Entry
      <3>4. QED
        BY <1>0, <1>2, <3>1, <3>3 DEF Granting
    <2>2. \A h \in Ws' : h.pc # "alloc" => h.res = {}
      BY <1>0, <1>3, <1>9 DEF Granting
    <2>3. QED
      BY <1>0, <1>4, <2>1, <2>2 DEF Granting
  <1>21. /\ \A n, a : Due(n, a) => Due(n, a)'
         /\ \A a \in Nat : Due(t, a)'
    <2>1. \A n, a : Due(n, a) => Due(n, a)'
      BY <1>4, <1>5 DEF Due
    <2>2. ASSUME NEW a \in Nat, NEW d \in Ahead, t = (tti + d) % Period
          PROVE  a + d + 1 >= RoundTrip
      <3>1. d + 1 >= RoundTrip /\ d \in Nat /\ RoundTrip \in Nat
        BY <1>6, <2>2, Sizes DEF Ahead
      <3>2. QED
        BY <3>1
    <2>3. \A a \in Nat : Due(t, a)'
      BY <1>4, <1>5, <1>6, <2>2 DEF Due
    <2>4. QED
      BY <2>1, <2>3
  <1>22. Leaving'
    <2>0. PICK v, a : v = rem.user /\ a = rem.age
      OBVIOUS
    <2>1. ASSUME v # 0, rem.w > 1, NEW n, NEW b, Waits(n, v, b)'
          PROVE  Due(n, a)' /\ rem.w <= NofWorkers
      <3>1. CASE Waits(n, v, b)
        <4>1. Due(n, a) /\ rem.w <= NofWorkers
          BY <1>0, <2>0, <2>1, <3>1 DEF Leaving
        <4>2. QED
          BY <1>21, <4>1
      <3>2. CASE n = t /\ v \in S
        <4>1. rem.w <= f.w
          BY <1>0, <1>1, <1>2, <2>0, <3>2 DEF Granting
        <4>2. a \in Nat /\ rem.w \in Nat /\ f.w \in Nat /\ f.w <= NofWorkers /\ NofWorkers \in Nat
          <5>1. rem \in [user : Users, w : 1 .. NofWorkers + 1, age : 0 .. RoundTrip]
            BY <1>0, <2>0, <2>1 DEF TypeOK, Removal, NoRemoval
          <5>2. f.w \in 1 .. NofWorkers
            BY <1>2 DEF Entry, Workers
          <5>3. QED
            BY <2>0, <5>1, <5>2, Sizes
        <4>3. Due(n, a)'
          BY <1>21, <3>2, <4>2
        <4>4. QED
          BY <4>1, <4>2, <4>3
      <3>3. QED
        BY <1>11, <2>1, <3>1, <3>2
    <2>2. ASSUME NEW h \in Ws', h.pc = "write"
          PROVE  h \in Ws
      BY <1>3, <1>9, <2>2
    <2>3. QED
      BY <1>0, <1>4, <2>0, <2>1, <2>2 DEF Leaving
  <1>23. Left'
    <2>1. phase # "join"
      BY <1>0, <1>2 DEF Left
    <2>2. QED
      BY <1>0, <1>1, <1>4, <1>14, <2>1 DEF Left
  <1>24. BeingRead'
    <2>1. pdu.read # Idle => pdu.read.age \in Nat
      BY <1>0 DEF TypeOK, Thread, Read
    <2>2. QED
      BY <1>0, <1>4, <1>14, <1>21, <2>1 DEF BeingRead
  <1>25. QED
    BY <1>18, <1>19, <1>20, <1>22, <1>23, <1>24 DEF Moving

\* The same, for use in the next state too.
PlacesApart ==
    /\ \A f \in Ws : f.t \notin Coming
    /\ \A d, e \in Ahead : (tti + d) % Period = (tti + e) % Period => d = e
    /\ \A n, m \in Live : n # m => Slot(n) # Slot(m)

LEMMA AlwaysApart == PduInv => PlacesApart
  BY Distinct DEF PlacesApart

\* A subframe is received: it had to come, and that of its requests is to come now.
LEMMA DispatchTimes ==
  ASSUME PduInv, Dispatch
  PROVE  /\ tti \in Coming /\ tti \in Times'
         /\ \A d \in Ahead : (tti' + d) % Period = (tti + (d + 1)) % Period
         /\ Live \subseteq Live' /\ Live' \subseteq Live \union {TtiTxUl(tti)}
         /\ TtiTxUl(tti) \in Live' /\ TtiTxUl(tti) \notin Live
         /\ \A n \in Live : Slot(n) # Slot(TtiTxUl(tti))
         /\ Times' = Times \union {tti}
         /\ \E e : /\ Ws' = Ws \union {e} /\ e.t = tti /\ e.pc = "decode" /\ e.j = 1
                   /\ e.nof = Len(ring[Slot(tti)]) /\ e.res = {}
  <1>0. inflight \in Seq(Entry) /\ tti \in Ttis /\ tti \in Nat /\ tti' = (tti + 1) % Period
    BY Rings DEF PduInv, TypeOK, Ttis, Dispatch
  <1>1. Period \in Nat \ {0} /\ HarqDelay \in Nat \ {0}
    BY Sizes
  <1>2. PICK e : /\ inflight' = Append(inflight, e) /\ e.t = tti /\ e.pc = "decode" /\ e.j = 1
                 /\ e.nof = Len(ring[Slot(tti)]) /\ e.res = {} /\ e \in Entry
    <2>1. PICK w \in Workers \ InUse :
            inflight' = Append(inflight,
              [w |-> w, t |-> tti, pc |-> "decode", j |-> 1, nof |-> Len(ring[Slot(tti)]),
               g |-> [rnti |-> 0, buf |-> NoBuf], res |-> {}])
      BY DEF Dispatch
    <2>2. PICK n : n = Len(ring[Slot(tti)])
      OBVIOUS
    <2>3. n \in Nat
      <3>1. ring[Slot(tti)] \in Seq(Grant)
        BY <1>0, Rings DEF PduInv, TypeOK, Slots
      <3>2. QED
        BY <2>2, <3>1, LenProperties
    <2>4. PICK e : e = [w |-> w, t |-> tti, pc |-> "decode", j |-> 1, nof |-> n,
                        g |-> [rnti |-> 0, buf |-> NoBuf], res |-> {}]
      OBVIOUS
    <2>5. /\ e \in Entry /\ e.t = tti /\ e.pc = "decode" /\ e.j = 1 /\ e.nof = n /\ e.res = {}
      BY <1>0, <2>3, <2>4, ConstantsType DEF Entry, Ttis
    <2>6. QED
      BY <2>1, <2>2, <2>4, <2>5
  <1>3. Ws' = Ws \union {e}
    <2>1. PICK n \in Nat : n = Len(inflight) /\ DOMAIN inflight = 1 .. n
      BY <1>0, LenProperties
    <2>2. /\ inflight' \in Seq(Entry) /\ Len(inflight') = n + 1 /\ inflight'[n + 1] = e
          /\ \A k \in 1 .. n : inflight'[k] = inflight[k]
      BY <1>0, <1>2, <2>1, AppendProperties
    <2>3. DOMAIN inflight' = 1 .. n + 1 /\ \A k \in 1 .. n + 1 : k \in 1 .. n \/ k = n + 1
      BY <2>2, LenProperties
    <2>4. \A k \in 1 .. n : k \in 1 .. n + 1 /\ k # n + 1
      OBVIOUS
    <2>5. n + 1 \in 1 .. n + 1
      OBVIOUS
    <2>6. QED
      BY <2>1, <2>2, <2>3, <2>4, <2>5 DEF Ws
  <1>4. Times' = Times \union {tti}
    BY <1>2, <1>3 DEF Times
  <1>5. \A d \in Ahead : (tti' + d) % Period = (tti + (d + 1)) % Period
    <2>1. TAKE d \in Ahead
    <2>2. d \in Nat /\ tti + 1 \in Nat /\ (tti + 1) + d = tti + (d + 1)
      BY <1>0, <1>1 DEF Ahead
    <2>3. (((tti + 1) % Period) + d) % Period = ((tti + 1) + d) % Period
      BY <1>1, <2>2, ModAdd
    <2>4. QED
      BY <1>0, <2>2, <2>3
  <1>6. tti \in Coming
    <2>1. 0 \in Ahead /\ tti + 0 = tti /\ tti % Period = tti
      <3>1. Period * 0 + tti = tti /\ tti \in 0 .. Period - 1
        BY <1>0, <1>1 DEF Ttis
      <3>2. (Period * 0 + tti) % Period = tti
        BY <1>1, <3>1, Remainder
      <3>3. 0 \in Ahead /\ tti + 0 = tti
        BY <1>0, <1>1 DEF Ahead
      <3>4. QED
        BY <3>1, <3>2, <3>3
    <2>2. QED
      BY <2>1 DEF Coming
  <1>7. PlacesApart'
    <2>1. PduInv'
      BY DispatchInv
    <2>2. PduInv' => PlacesApart'
      BY AlwaysApart, PTL
    <2>3. QED
      BY <2>1, <2>2
  <1>8. PICK last : last = 2 * HarqDelay - 1
    OBVIOUS
  <1>9. /\ last \in Ahead /\ TtiTxUl(tti) = (tti' + last) % Period
        /\ \A d \in Ahead : d # last => d + 1 \in Ahead
        /\ \A d \in Ahead : d # 0 => d - 1 \in Ahead /\ d - 1 # last /\ (d - 1) + 1 = d
    <2>1. /\ last \in Ahead /\ last + 1 = 2 * HarqDelay
          /\ \A d \in Ahead : d # last => d + 1 \in Ahead
          /\ \A d \in Ahead : d # 0 => d - 1 \in Ahead /\ d - 1 # last /\ (d - 1) + 1 = d
      BY <1>1, <1>8 DEF Ahead
    <2>2. QED
      BY <1>5, <2>1 DEF TtiTxUl
  <1>10. Coming' = {(tti' + d) % Period : d \in Ahead}
    BY DEF Coming
  <1>11. TtiTxUl(tti) \in Coming' /\ TtiTxUl(tti) \in Live'
    BY <1>9, <1>10 DEF Live
  <1>12. ASSUME NEW n \in Coming PROVE n = tti \/ (n \in Coming' /\ n # TtiTxUl(tti))
    <2>1. PICK d \in Ahead : n = (tti + d) % Period
      BY DEF Coming
    <2>2. CASE d = 0
      <3>1. tti + 0 = tti /\ tti % Period = tti
        <4>1. Period * 0 + tti = tti /\ tti \in 0 .. Period - 1
          BY <1>0, <1>1 DEF Ttis
        <4>2. (Period * 0 + tti) % Period = tti
          BY <1>1, <4>1, Remainder
        <4>3. QED
          BY <1>0, <4>1, <4>2
      <3>2. QED
        BY <2>1, <2>2, <3>1
    <2>3. CASE d # 0
      <3>1. d - 1 \in Ahead /\ d - 1 # last /\ n = (tti' + (d - 1)) % Period
        BY <1>5, <1>9, <2>1, <2>3
      <3>2. n # TtiTxUl(tti)
        BY <1>7, <1>9, <3>1 DEF PlacesApart
      <3>3. QED
        BY <1>10, <3>1, <3>2
    <2>4. QED
      BY <2>2, <2>3
  <1>13. Coming' \subseteq Coming \union {TtiTxUl(tti)}
    <2>1. ASSUME NEW d \in Ahead
          PROVE  (tti' + d) % Period \in Coming \union {TtiTxUl(tti)}
      BY <1>5, <1>9 DEF Coming
    <2>2. QED
      BY <1>10, <2>1
  <1>14. Live \subseteq Live' /\ Live' \subseteq Live \union {TtiTxUl(tti)}
    BY <1>4, <1>6, <1>12, <1>13 DEF Live
  <1>15. TtiTxUl(tti) \notin Live
    <2>1. TtiTxUl(tti) \notin Times'
      BY <1>7, <1>11 DEF PlacesApart, Times
    <2>2. QED
      BY <1>4, <1>12, <2>1 DEF Live
  <1>16. \A n \in Live : Slot(n) # Slot(TtiTxUl(tti))
    <2>1. \A n, m \in Live' : n # m => Slot(n) # Slot(m)
      BY <1>7 DEF PlacesApart
    <2>2. QED
      BY <1>11, <1>14, <1>15, <2>1
  <1>17. QED
    BY <1>2, <1>3, <1>4, <1>5, <1>6, <1>11, <1>14, <1>15, <1>16

LEMMA DispatchMoves ==
  ASSUME GrantsInv, Dispatch
  PROVE  Moving'
  <1>0. PduInv /\ TypeOK /\ Slotted /\ Kept /\ Granting /\ Leaving /\ Left /\ BeingRead
    BY DEF GrantsInv, Moving, PduInv
  <1>1. PICK new : new = TtiTxUl(tti)
    OBVIOUS
  <1>2. /\ tti \in Coming /\ tti \in Times' /\ Times' = Times \union {tti}
        /\ \A d \in Ahead : (tti' + d) % Period = (tti + (d + 1)) % Period
        /\ Live \subseteq Live' /\ Live' \subseteq Live \union {new}
        /\ new \in Live' /\ new \notin Live /\ \A n \in Live : Slot(n) # Slot(new)
    BY <1>0, <1>1, DispatchTimes
  <1>3. PICK e : /\ Ws' = Ws \union {e} /\ e.t = tti /\ e.pc = "decode" /\ e.j = 1
                 /\ e.nof = Len(ring[Slot(tti)]) /\ e.res = {}
    BY <1>0, DispatchTimes
  <1>4. /\ UNCHANGED <<ring, pending, queue, free, life, slow, haveData, phase>>
        /\ phase = "run" /\ tti \in Nat /\ Slot(new) \in Slots
    <2>1. tti \in Nat /\ tti \in Ttis
      BY <1>0, Rings DEF TypeOK, Ttis
    <2>2. new \in Nat /\ Slot(new) \in Slots
      BY <1>1, <2>1, Rings
    <2>3. QED
      BY <2>1, <2>2 DEF Dispatch, ue
  <1>5. ring[Slot(new)] = << >>
    BY <1>0, <1>2, <1>4 DEF Slotted
  <1>6. \A n, u, b : Waits(n, u, b)' => Waits(n, u, b)
    <2> SUFFICES ASSUME NEW n, NEW u, NEW b, Waits(n, u, b)' PROVE Waits(n, u, b)
      OBVIOUS
    <2>1. PICK k \in DOMAIN ring[Slot(n)] : /\ ring[Slot(n)][k] = [rnti |-> u, buf |-> b]
                                            /\ \A h \in Ws' : h.t = n => k >= h.j
      BY <1>4 DEF Waits
    <2>2. n \in Live
      BY <1>2, <1>5, <2>1 DEF Waits
    <2>3. QED
      BY <1>3, <2>1, <2>2 DEF Waits
  <1>7. \A n, u, b : Waits(n, u, b) => Waits(n, u, b)'
    <2> SUFFICES ASSUME NEW n, NEW u, NEW b, Waits(n, u, b) PROVE Waits(n, u, b)'
      OBVIOUS
    <2>1. PICK k \in DOMAIN ring[Slot(n)] : /\ ring[Slot(n)][k] = [rnti |-> u, buf |-> b]
                                            /\ \A h \in Ws : h.t = n => k >= h.j
      BY DEF Waits
    <2>2. n \in Live
      BY DEF Waits
    <2>3. k >= 1
      <3>1. ring[Slot(n)] \in Seq(Grant)
        BY <1>0, <2>2, Distinct DEF TypeOK, Slots
      <3>2. QED
        BY <2>1, <3>1, LenProperties
    <2>4. \A h \in Ws' : h.t = n => k >= h.j
      BY <1>3, <2>1, <2>3
    <2>5. QED
      BY <1>2, <1>4, <2>1, <2>2, <2>4 DEF Waits
  <1>8. \A n, u, b : InHand(n, u, b)' <=> InHand(n, u, b)
    BY <1>3 DEF InHand
  <1>9. \A n, u, b : Has(n, u, b)' <=> Has(n, u, b)
    BY <1>6, <1>7, <1>8 DEF Has
  <1>10. \A a \in 0 .. RoundTrip : \A n : Due(n, a) => Due(n, Later(a))'
    <2> SUFFICES ASSUME NEW a \in 0 .. RoundTrip, NEW n, Due(n, a)
                 PROVE  Due(n, Later(a))'
      OBVIOUS
    <2>0. PICK c : c = Later(a)
      OBVIOUS
    <2>1. /\ c \in 0 .. RoundTrip /\ RoundTrip \in Nat /\ a \in Nat /\ c \in Nat
          /\ c = RoundTrip \/ c = a + 1
          /\ a + 1 >= RoundTrip => c = RoundTrip
      BY <2>0, ConstantsType, Sizes DEF Later
    <2>2. n \in Times' => c = RoundTrip
      <3>1. CASE n \in Times
        BY <2>0, <3>1 DEF Due, Later
      <3>2. CASE n = tti
        <4>1. 0 \in Ahead /\ tti + 0 = tti /\ tti % Period = tti
          <5>1. Period \in Nat \ {0} /\ HarqDelay \in Nat \ {0} /\ tti \in 0 .. Period - 1
            BY <1>0, Sizes DEF TypeOK
          <5>2. Period * 0 + tti = tti /\ 0 \in Nat
            BY <1>4, <5>1
          <5>3. (Period * 0 + tti) % Period = tti
            BY <5>1, <5>2, Remainder
          <5>4. 0 \in Ahead /\ tti + 0 = tti
            BY <1>4, <5>1 DEF Ahead
          <5>5. QED
            BY <5>2, <5>3, <5>4
        <4>2. n = (tti + 0) % Period
          BY <3>2, <4>1
        <4>3. a + 0 + 1 >= RoundTrip
          BY <4>1, <4>2 DEF Due
        <4>4. QED
          BY <2>1, <4>3
      <3>3. QED
        BY <1>2, <3>1, <3>2
    <2>3. ASSUME NEW d \in Ahead, n = (tti' + d) % Period
          PROVE  c + d + 1 >= RoundTrip
      <3>1. d \in Nat /\ HarqDelay \in Nat \ {0} /\ NofWorkers \in Nat \ {0}
        BY Sizes DEF Ahead
      <3>2. CASE d = 2 * HarqDelay - 1
        BY <2>1, <3>1, <3>2 DEF RoundTrip
      <3>3. CASE d # 2 * HarqDelay - 1
        <4>1. d + 1 \in Ahead
          BY <3>1, <3>3 DEF Ahead
        <4>2. n = (tti + (d + 1)) % Period
          BY <1>2, <2>3
        <4>3. a + (d + 1) + 1 >= RoundTrip
          BY <4>1, <4>2 DEF Due
        <4>4. QED
          BY <2>1, <3>1, <4>3
      <3>4. QED
        BY <3>2, <3>3
    <2>4. Due(n, c)'
      BY <2>2, <2>3 DEF Due
    <2>5. Due(n, Later(a))' <=> Due(n, c)'
      BY <2>0
    <2>6. QED
      BY <2>4, <2>5
  <1>11. Kept'
    BY <1>0, <1>4, <1>9 DEF Kept
  <1>12. Left'
    BY <1>0, <1>4, <1>9 DEF Left
  <1>13. Slotted'
    <2>1. \A h \in Ws' : h = e \/ h \in Ws
      BY <1>3
    <2>2. \A s \in Slots : ring[s] # << >> => \E n \in Live' : s = Slot(n)
      BY <1>0, <1>2 DEF Slotted
    <2>3. /\ e.nof = Len(ring[Slot(e.t)]) /\ e.pc = "decode" /\ ring[Slot(TtiTxUl(e.t))] = << >>
      BY <1>1, <1>3, <1>5
    <2>4. QED
      BY <1>0, <1>4, <2>1, <2>2, <2>3 DEF Slotted
  <1>14. /\ rem'.user = rem.user /\ rem'.w = rem.w
         /\ rem.user # 0 => rem.age \in 0 .. RoundTrip /\ rem'.age = Later(rem.age)
    <2>1. rem \in Removal
      BY <1>0 DEF TypeOK
    <2>2. CASE rem.user = 0
      BY <2>2 DEF Dispatch
    <2>3. CASE rem.user # 0
      <3>1. rem \in [user : Users, w : 1 .. NofWorkers + 1, age : 0 .. RoundTrip]
        BY <2>1, <2>3 DEF Removal, NoRemoval
      <3>2. rem' = [rem EXCEPT !.age = Later(@)]
        BY <2>3 DEF Dispatch
      <3>3. QED
        BY <3>1, <3>2
    <2>4. QED
      BY <2>2, <2>3
  <1>15. Granting'
    BY <1>0, <1>3, <1>4, <1>14 DEF Granting
  <1>16. Leaving'
    <2>1. PICK v, w, a, c : v = rem.user /\ w = rem.w /\ a = rem.age /\ c = rem'.age
      OBVIOUS
    <2>2. v # 0 /\ w > 1 => \A n, b : Waits(n, v, b)' => Due(n, c)' /\ w <= NofWorkers
      <3> SUFFICES ASSUME v # 0, w > 1, NEW n, NEW b, Waits(n, v, b)'
                   PROVE  Due(n, c)' /\ w <= NofWorkers
        OBVIOUS
      <3>1. Due(n, a) /\ w <= NofWorkers
        BY <1>0, <1>6, <2>1 DEF Leaving
      <3>2. a \in 0 .. RoundTrip /\ c = Later(a)
        BY <1>14, <2>1
      <3>3. Due(n, Later(a))'
        BY <1>10, <3>1, <3>2
      <3>4. QED
        BY <3>1, <3>2, <3>3
    <2>3. v # 0 /\ a = RoundTrip => c = RoundTrip
      BY <1>14, <2>1 DEF Later
    <2>4. \A h \in Ws' : h.pc = "write" => h \in Ws
      BY <1>3
    <2>5. rem'.user = v /\ rem'.w = w /\ rem'.age = c
      BY <1>14, <2>1
    <2>6. rem'.user # 0 /\ rem'.w > 1 =>
            \A n, b : Waits(n, rem.user, b)' => Due(n, rem.age)' /\ rem'.w <= NofWorkers
      BY <2>2, <2>5
    <2>7. rem'.user # 0 => \A h \in Ws' : h.pc = "write" /\ h.g.rnti = rem'.user /\ rem'.w > h.w
                                            => rem'.age = RoundTrip
      BY <1>0, <2>1, <2>3, <2>4, <2>5 DEF Leaving
    <2>8. QED
      BY <1>0, <1>4, <1>14, <2>6, <2>7 DEF Leaving
  <1>17. BeingRead'
    <2>1. CASE pdu.read = Idle
      <3>1. pdu' = pdu
        BY <2>1 DEF Dispatch
      <3>2. QED
        BY <1>0, <1>4, <2>1, <3>1 DEF BeingRead
    <2>2. CASE pdu.read # Idle
      <3>1. pdu' = [pdu EXCEPT !.read = [pdu.read EXCEPT !.age = Later(@)]]
        BY <2>2 DEF Dispatch
      <3>2. pdu \in Thread /\ pdu.read \in Read /\ pdu.read.age \in 0 .. RoundTrip
        BY <1>0 DEF TypeOK, Thread, Read
      <3>3. PICK v, b, a, c : /\ v = pdu.read.user /\ b = pdu.read.buf
                              /\ a = pdu.read.age /\ c = Later(a)
        OBVIOUS
      <3>4. /\ pdu'.pc = pdu.pc /\ pdu'.todo = pdu.todo
            /\ pdu'.read.user = v /\ pdu'.read.buf = b /\ pdu'.read.age = c
        BY <3>1, <3>2, <3>3 DEF Thread, Read
      <3>5. \A n : Has(n, v, b)' => Due(n, c)'
        <4>1. SUFFICES ASSUME NEW n, Has(n, v, b)' PROVE Due(n, c)'
          OBVIOUS
        <4>2. Due(n, a)
          BY <1>0, <1>9, <2>2, <3>3, <4>1 DEF BeingRead
        <4>3. Due(n, Later(a))'
          BY <1>10, <3>2, <3>3, <4>2
        <4>4. QED
          BY <3>3, <4>3
      <3>6. QED
        BY <1>0, <1>4, <2>2, <3>3, <3>4, <3>5 DEF BeingRead
    <2>3. QED
      BY <2>1, <2>2
  <1>18. QED
    BY <1>11, <1>12, <1>13, <1>15, <1>16, <1>17 DEF Moving

\* A step that leaves the workers and their grants alone.
LEMMA SameWorkers ==
  ASSUME UNCHANGED <<tti, inflight, ring>>
  PROVE  /\ Ws' = Ws /\ Times' = Times /\ Live' = Live
         /\ \A n, u, b : /\ Waits(n, u, b)' <=> Waits(n, u, b)
                         /\ InHand(n, u, b)' <=> InHand(n, u, b)
                         /\ Has(n, u, b)' <=> Has(n, u, b)
         /\ \A n, a : Due(n, a)' <=> Due(n, a)
         /\ Slotted => Slotted'
  <1>1. Ws' = Ws /\ Times' = Times /\ Coming' = Coming /\ Live' = Live
    BY DEF Ws, Times, Coming, Live
  <1>2. \A n, u, b : /\ Waits(n, u, b)' <=> Waits(n, u, b)
                     /\ InHand(n, u, b)' <=> InHand(n, u, b)
    BY <1>1 DEF Waits, InHand
  <1>3. \A n, u, b : Has(n, u, b)' <=> Has(n, u, b)
    BY <1>2 DEF Has
  <1>4. \A n, a : Due(n, a)' <=> Due(n, a)
    BY <1>1 DEF Due
  <1>5. Slotted => Slotted'
    BY <1>1 DEF Slotted
  <1>6. QED
    BY <1>1, <1>2, <1>3, <1>4, <1>5

\* The steps of the other threads: a removal waits for each worker.
LEMMA PduThreadMoves ==
  ASSUME GrantsInv, PduThread \/ UNCHANGED vars
  PROVE  Moving'
  <1>0. PduInv /\ TypeOK /\ Owns /\ Slotted /\ Kept /\ Granting /\ Leaving /\ Left /\ BeingRead
    BY DEF GrantsInv, Moving, PduInv
  <1>1. UNCHANGED <<tti, inflight, ring, pending, life, rem, slow, phase>>
    BY DEF PduThread, Check, ProcessPdus, PopPdu, ParsePdu, PduParsed, StoreResult, TestData,
           phy, ue, vars
  <1>2. /\ Ws' = Ws /\ Slotted'
        /\ \A n, u, b : Waits(n, u, b)' <=> Waits(n, u, b)
        /\ \A n, u, b : Has(n, u, b)' <=> Has(n, u, b)
        /\ \A n, a : Due(n, a)' <=> Due(n, a)
    BY <1>0, <1>1, SameWorkers
  <1>3. Kept' /\ Granting' /\ Left'
    BY <1>0, <1>1, <1>2 DEF Kept, Granting, Left
  <1>4. Leaving'
    BY <1>0, <1>1, <1>2 DEF Leaving
  <1>5. pdu \in Thread /\ pdu.todo \subseteq Users
    BY <1>0 DEF TypeOK, Thread
  <1>6. BeingRead'
    <2>1. CASE Check \/ StoreResult \/ TestData
      <3>1. pdu'.pc \notin {"pop", "parse"} /\ pdu'.read = pdu.read /\ pdu.pc # "parse"
        BY <1>5, <2>1 DEF Check, StoreResult, TestData, PduIn, Thread
      <3>2. QED
        BY <1>0, <3>1 DEF BeingRead
    <2>2. CASE ProcessPdus
      <3>1. pdu'.read = pdu.read /\ pdu.pc # "parse" /\ \A u \in pdu'.todo : life[u] # "gone"
        BY <1>5, <2>2 DEF ProcessPdus, PduIn, Thread
      <3>2. QED
        BY <1>0, <1>1, <3>1 DEF BeingRead
    <2>3. CASE PduParsed
      <3>1. pdu'.read = Idle /\ pdu'.todo = pdu.todo /\ pdu.pc = "parse"
        BY <1>5, <2>3 DEF PduParsed, PduIn, Thread
      <3>2. QED
        BY <1>0, <1>1, <3>1 DEF BeingRead
    <2>4. CASE PopPdu
      <3>0. pdu.pc = "pop" /\ pdu.read = Idle
        BY <1>0, <2>4 DEF PopPdu, PduIn, BeingRead
      <3>1. ASSUME NEW u \in pdu.todo, queue[u] # << >>, ParsePdu(u)
            PROVE  BeingRead'
        <4>1. PICK b : b = Head(queue[u])
          OBVIOUS
        <4>2. /\ pdu'.pc = "parse" /\ pdu'.todo = pdu.todo
              /\ pdu'.read.user = u /\ pdu'.read.buf = b /\ pdu'.read.age = 0
          BY <1>5, <3>1, <4>1 DEF ParsePdu, Thread
        <4>3. u \in Users /\ life[u] # "gone"
          BY <1>0, <1>5, <3>0 DEF BeingRead
        <4>4. /\ b \in Bufs /\ \A p \in Pids : pending[u][p] # b
          <5>1. Pools(pending[u], queue[u], free[u]) /\ Owned(pending[u], queue[u], free[u])
            BY <1>0, <4>3 DEF Owns
          <5>2. queue[u] \in Seq(Bufs) /\ Len(queue[u]) \in Nat
            BY <5>1, LenProperties DEF Pools
          <5>3. 1 \in 1 .. Len(queue[u]) /\ queue[u][1] = b /\ b \in Bufs
            BY <3>1, <4>1, <5>2, EmptySeq
          <5>4. QED
            BY <5>1, <5>3 DEF Owned
        <4>5. b # NoBuf
          BY <4>4, NoBufIsNone
        <4>6. \A n : ~Has(n, u, b)
          <5>1. SUFFICES ASSUME NEW n, Has(n, u, b) PROVE FALSE
            OBVIOUS
          <5>2. n \in Live
            BY <5>1 DEF Has, Waits, InHand, Live, Times
          <5>3. Pid(n) \in Pids
            BY <1>0, <5>2, Distinct
          <5>4. pending[u][Pid(n)] = b
            BY <1>0, <4>3, <5>1 DEF Kept
          <5>5. QED
            BY <4>4, <5>3, <5>4
        <4>7. \A n : ~Has(n, u, b)'
          BY <1>2, <4>6
        <4>8. QED
          BY <1>0, <1>1, <3>0, <4>2, <4>5, <4>7 DEF BeingRead
      <3>2. ASSUME NEW u \in pdu.todo,
                   pdu' = [pdu EXCEPT !.todo = @ \ {u},
                                      !.pc = IF pdu.todo = {u} THEN "store" ELSE "pop"]
            PROVE  BeingRead'
        <4>1. pdu'.read = Idle /\ pdu'.todo \subseteq pdu.todo
          BY <1>5, <3>0, <3>2 DEF Thread
        <4>2. QED
          BY <1>0, <1>1, <3>0, <4>1 DEF BeingRead
      <3>3. \/ \E u \in pdu.todo : queue[u] # << >> /\ ParsePdu(u)
            \/ \E u \in pdu.todo :
                 pdu' = [pdu EXCEPT !.todo = @ \ {u},
                                    !.pc = IF pdu.todo = {u} THEN "store" ELSE "pop"]
        BY <2>4 DEF PopPdu
      <3>4. QED
        BY <3>1, <3>2, <3>3
    <2>5. CASE UNCHANGED vars
      <3>1. pdu' = pdu
        BY <2>5 DEF vars
      <3>2. QED
        BY <1>0, <1>1, <1>2, <3>1 DEF BeingRead
    <2>6. QED
      BY <2>1, <2>2, <2>3, <2>4, <2>5 DEF PduThread
  <1>7. QED
    BY <1>2, <1>3, <1>4, <1>6 DEF Moving

LEMMA StopMoves ==
  ASSUME GrantsInv, StopPhy \/ StopMac
  PROVE  Moving'
  <1>0. PduInv /\ TypeOK /\ Slotted /\ Kept /\ Granting /\ Leaving /\ Left /\ BeingRead
    BY DEF GrantsInv, Moving, PduInv
  <1>1. UNCHANGED <<tti, inflight, ring, pending, rem, slow>>
    BY DEF StopPhy, StopMac, phy, ue
  <1>2. /\ Ws' = Ws /\ Slotted'
        /\ \A n, u, b : Waits(n, u, b)' <=> Waits(n, u, b)
        /\ \A n, u, b : Has(n, u, b)' <=> Has(n, u, b)
        /\ \A n, a : Due(n, a)' <=> Due(n, a)
    BY <1>0, <1>1, SameWorkers
  <1>3. CASE StopPhy
    <2>1. phase = "run" /\ phase' = "phy" /\ life' = life /\ pdu' = pdu
      BY <1>3 DEF StopPhy
    <2>2. Kept' /\ Granting' /\ Left'
      BY <1>0, <1>1, <1>2, <2>1 DEF Kept, Granting, Left
    <2>3. Leaving' /\ BeingRead'
      BY <1>0, <1>1, <1>2, <2>1 DEF Leaving, BeingRead
    <2>4. QED
      BY <1>2, <2>2, <2>3 DEF Moving
  <1>4. CASE StopMac
    <2>1. /\ phase' = "join" /\ life' = [u \in Users |-> "gone"] /\ inflight = << >>
          /\ pdu.pc \notin {"pop", "parse"}
          /\ pdu' = IF pdu.pc = "wait" THEN [pdu EXCEPT !.pc = "test"] ELSE pdu
      BY <1>4 DEF StopMac
    <2>2. Ws = {}
      BY <2>1 DEF Ws
    <2>3. \A u \in Users : life'[u] = "gone"
      BY <2>1
    <2>4. Kept' /\ Granting' /\ Left'
      BY <1>1, <1>2, <2>1, <2>2, <2>3 DEF Kept, Granting, Left
    <2>5. rem.user # 0 => rem.user \in Users
      BY <1>0 DEF TypeOK, Removal, NoRemoval
    <2>6. Leaving'
      BY <1>0, <1>1, <1>2, <2>2, <2>3, <2>5 DEF Leaving
    <2>7. pdu'.read = pdu.read /\ pdu'.pc \notin {"pop", "parse"}
      <3>1. pdu \in Thread
        BY <1>0 DEF TypeOK
      <3>2. QED
        BY <2>1, <3>1 DEF Thread
    <2>8. BeingRead'
      BY <1>0, <2>1, <2>7 DEF BeingRead
    <2>9. QED
      BY <1>2, <2>4, <2>6, <2>8 DEF Moving
  <1>5. QED
    BY <1>3, <1>4

LEMMA RemSchedMoves ==
  ASSUME GrantsInv, NEW u \in Users, RemSched(u)
  PROVE  Moving'
  <1>0. PduInv /\ TypeOK /\ Slotted /\ Kept /\ Granting /\ Leaving /\ Left /\ BeingRead
    BY DEF GrantsInv, Moving, PduInv
  <1>1. /\ UNCHANGED <<tti, inflight, ring, pending, slow, pdu, phase>>
        /\ rem.user = 0 /\ life[u] = "in" /\ life' = [life EXCEPT ![u] = "unsched"]
        /\ rem' = [user |-> u, w |-> 1, age |-> 0]
    BY DEF RemSched, phy, ue
  <1>2. /\ Ws' = Ws /\ Slotted'
        /\ \A n, v, b : Has(n, v, b)' <=> Has(n, v, b)
        /\ \A n, a : Due(n, a)' <=> Due(n, a)
    BY <1>0, <1>1, SameWorkers
  <1>3. /\ u # 0 /\ \A v \in Users : life'[v] = IF v = u THEN "unsched" ELSE life[v]
        /\ \A v \in Users : v # 0 /\ life[v] # "unsched"
        /\ rem'.user = u /\ rem'.w = 1
    <2>1. 0 \notin Users /\ life \in [Users -> {"in", "unsched", "gone"}]
      BY <1>0, Sizes DEF TypeOK
    <2>2. \A v \in Users : v # 0
      BY <2>1
    <2>3. QED
      BY <1>0, <1>1, <2>1, <2>2 DEF Leaving
  <1>4. \A v \in Users : /\ life'[v] = "gone" <=> life[v] = "gone"
                         /\ life'[v] = "in" => life[v] = "in"
    BY <1>1, <1>3
  <1>5. \A f \in Ws : f.w >= 1 /\ ~(1 > f.w) /\ f.res \subseteq Users
    <2>1. TAKE f \in Ws
    <2>2. f.w \in 1 .. NofWorkers /\ NofWorkers \in Nat /\ f.res \subseteq Users
      BY <1>0, Distinct, Sizes DEF Entry, Workers
    <2>3. QED
      BY <2>2
  <1>6. Kept'
    BY <1>0, <1>1, <1>2, <1>4 DEF Kept
  <1>7. Left'
    BY <1>0, <1>1, <1>2, <1>4 DEF Left
  <1>8. Granting'
    BY <1>0, <1>1, <1>2, <1>3, <1>4, <1>5 DEF Granting
  <1>9. Leaving'
    BY <1>0, <1>2, <1>3, <1>5 DEF Leaving
  <1>10. BeingRead'
    <2>1. pdu.todo \subseteq Users
      BY <1>0 DEF TypeOK, Thread
    <2>2. QED
      BY <1>0, <1>1, <1>2, <1>4, <2>1 DEF BeingRead
  <1>11. QED
    BY <1>2, <1>6, <1>7, <1>8, <1>9, <1>10 DEF Moving

LEMMA RemEraseMoves ==
  ASSUME GrantsInv, RemErase
  PROVE  Moving'
  <1>0. PduInv /\ TypeOK /\ Slotted /\ Kept /\ Granting /\ Leaving /\ Left /\ BeingRead
    BY DEF GrantsInv, Moving, PduInv
  <1>1. PICK u, a : u = rem.user /\ a = rem.age
    OBVIOUS
  <1>2. /\ UNCHANGED <<tti, inflight, ring, pending, pdu, phase>>
        /\ rem.w > NofWorkers /\ pdu.pc \notin {"pop", "parse"}
        /\ life' = [life EXCEPT ![u] = "gone"] /\ rem' = NoRemoval
        /\ slow' = IF a = RoundTrip THEN slow \union {u} ELSE slow
    BY <1>1 DEF RemErase, phy, ue
  <1>3. /\ Ws' = Ws /\ Slotted'
        /\ \A n, v, b : Waits(n, v, b)' <=> Waits(n, v, b)
        /\ \A n, v, b : Has(n, v, b)' <=> Has(n, v, b)
    BY <1>0, <1>2, SameWorkers
  <1>4. /\ NofWorkers \in Nat \ {0} /\ 0 \notin Users
        /\ u \in Users /\ u # 0 /\ rem.w = NofWorkers + 1
    <2>1. NofWorkers \in Nat \ {0} /\ 0 \notin Users /\ rem \in Removal
      BY <1>0, Sizes DEF TypeOK
    <2>2. rem \in [user : Users, w : 1 .. NofWorkers + 1, age : 0 .. RoundTrip]
      BY <1>2, <2>1 DEF Removal, NoRemoval
    <2>3. QED
      BY <1>1, <1>2, <2>1, <2>2
  <1>5. \A f \in Ws : rem.w > f.w /\ ~(rem.w <= f.w) /\ f.res \subseteq Users
    <2>1. TAKE f \in Ws
    <2>2. f.w \in 1 .. NofWorkers /\ f.res \subseteq Users
      BY <1>0, Distinct DEF Entry, Workers
    <2>3. QED
      BY <1>4, <2>2
  <1>6. \A v \in Users : life'[v] = IF v = u THEN "gone" ELSE life[v]
    BY <1>0, <1>2 DEF TypeOK
  <1>7. rem'.user = 0
    BY <1>2 DEF NoRemoval
  <1>8. slow \subseteq slow' /\ (u \notin slow' => a # RoundTrip)
    BY <1>2
  <1>9. \A f \in Ws : u \notin f.res
    BY <1>0, <1>1, <1>5 DEF Granting
  <1>10. \A n, b : a # RoundTrip => ~Has(n, u, b)
    <2>1. rem.w > 1 /\ ~(rem.w <= NofWorkers)
      BY <1>4
    <2>2. \A n, b : ~Waits(n, u, b)
      BY <1>0, <1>1, <1>4, <2>1 DEF Leaving
    <2>3. \A n, b : InHand(n, u, b) => a = RoundTrip
      <3>1. SUFFICES ASSUME NEW f \in Ws, f.pc = "write", f.g.rnti = u PROVE a = RoundTrip
        BY DEF InHand
      <3>2. QED
        BY <1>0, <1>1, <1>4, <1>5, <3>1 DEF Leaving
    <2>4. QED
      BY <2>2, <2>3 DEF Has
  <1>11. Kept'
    BY <1>0, <1>2, <1>3, <1>6 DEF Kept
  <1>12. Granting'
    <2>1. \A f \in Ws : \A v \in f.res : v \in Users /\ v # u /\ v # 0
      BY <1>4, <1>5, <1>9
    <2>2. QED
      BY <1>0, <1>2, <1>3, <1>6, <1>7, <1>8, <2>1 DEF Granting
  <1>13. Leaving'
    BY <1>0, <1>1, <1>3, <1>6, <1>7 DEF Leaving
  <1>14. Left'
    <2>1. ASSUME NEW v \in Users, life'[v] = "gone", v \notin slow', phase # "join", NEW n, NEW b
          PROVE  ~Has(n, v, b)
      <3>1. CASE v = u
        BY <1>8, <1>10, <2>1, <3>1
      <3>2. CASE v # u
        BY <1>0, <1>6, <1>8, <2>1, <3>2 DEF Left
      <3>3. QED
        BY <3>1, <3>2
    <2>2. QED
      BY <1>0, <1>2, <1>3, <2>1 DEF Left
  <1>15. BeingRead'
    BY <1>0, <1>2 DEF BeingRead
  <1>16. QED
    BY <1>3, <1>11, <1>12, <1>13, <1>14, <1>15 DEF Moving

\* rem_rnti clears the grants of the user.
LEMMA RemRntiWrites ==
  ASSUME TypeOK, RemRnti
  PROVE  /\ rem.user \in Users /\ rem.w \in Nat
         /\ \A s \in Slots :
              /\ DOMAIN ring'[s] = DOMAIN ring[s] /\ Len(ring'[s]) = Len(ring[s])
              /\ ring'[s] # << >> <=> ring[s] # << >>
              /\ \A k \in DOMAIN ring[s] :
                   IF ring[s][k].rnti = rem.user THEN ring'[s][k].rnti = 0
                                                 ELSE ring'[s][k] = ring[s][k]
  <1>1. rem.user \in Users /\ rem.w \in Nat
    BY DEF RemRnti, TypeOK, Removal, NoRemoval, Workers
  <1>2. ring \in [Slots -> Seq(Grant)]
    BY DEF TypeOK, Slots
  <1>3. ASSUME NEW s \in Slots
        PROVE  /\ DOMAIN ring'[s] = DOMAIN ring[s] /\ Len(ring'[s]) = Len(ring[s])
               /\ ring'[s] # << >> <=> ring[s] # << >>
               /\ \A k \in DOMAIN ring[s] :
                   IF ring[s][k].rnti = rem.user THEN ring'[s][k].rnti = 0
                                                 ELSE ring'[s][k] = ring[s][k]
    <2>1. PICK q, r : q = ring[s] /\ r = ring'[s]
      OBVIOUS
    <2>2. r = [k \in DOMAIN q |-> IF q[k].rnti = rem.user THEN [q[k] EXCEPT !.rnti = 0] ELSE q[k]]
      BY <1>2, <2>1 DEF RemRnti
    <2>3. q \in Seq(Grant)
      BY <1>2, <2>1
    <2>4. \A k \in DOMAIN q : q[k] \in Grant
      BY <2>3
    <2>5. DOMAIN r = DOMAIN q
      BY <2>2
    <2>6. \A k \in DOMAIN q : IF q[k].rnti = rem.user THEN r[k].rnti = 0 ELSE r[k] = q[k]
      BY <2>2, <2>4 DEF Grant
    <2>7. r \in Seq(Grant)
      <3>1. \A k \in DOMAIN q :
              (IF q[k].rnti = rem.user THEN [q[k] EXCEPT !.rnti = 0] ELSE q[k]) \in Grant
        BY <2>4 DEF Grant
      <3>2. PICK n \in Nat : n = Len(q) /\ DOMAIN q = 1 .. n
        BY <2>3, LenProperties
      <3>3. r = [k \in 1 .. n |-> r[k]] /\ \A k \in 1 .. n : r[k] \in Grant
        BY <2>2, <3>1, <3>2
      <3>4. QED
        BY <3>2, <3>3, IsASeq
    <2>8. Len(r) = Len(q) /\ (r # << >> <=> q # << >>)
      BY <2>3, <2>5, <2>7, LenProperties, EmptySeq
    <2>9. QED
      BY <2>1, <2>5, <2>6, <2>8
  <1>4. QED
    BY <1>1, <1>3

LEMMA RemRntiMoves ==
  ASSUME GrantsInv, RemRnti
  PROVE  Moving'
  <1>0. PduInv /\ TypeOK /\ Slotted /\ Kept /\ Granting /\ Leaving /\ Left /\ BeingRead
    BY DEF GrantsInv, Moving, PduInv
  <1>1. PICK u, w : u = rem.user /\ w = rem.w
    OBVIOUS
  <1>2. /\ UNCHANGED <<tti, inflight, pending, life, slow, pdu, phase>>
        /\ w \in Workers /\ ~Busy(w) /\ rem' = [rem EXCEPT !.w = @ + 1]
    BY <1>1 DEF RemRnti, ue
  <1>3. /\ u \in Users /\ w \in Nat /\ u # 0
        /\ rem'.user = u /\ rem'.w = w + 1 /\ rem'.age = rem.age
    <2>1. rem \in [user : Users, w : 1 .. NofWorkers + 1, age : 0 .. RoundTrip]
      BY <1>0, <1>1, <1>2 DEF TypeOK, Removal, NoRemoval, Workers
    <2>2. QED
      BY <1>0, <1>1, <1>2, <2>1, Sizes, RemRntiWrites
  <1>4. \A s \in Slots :
          /\ DOMAIN ring'[s] = DOMAIN ring[s] /\ Len(ring'[s]) = Len(ring[s])
          /\ ring'[s] # << >> <=> ring[s] # << >>
          /\ \A k \in DOMAIN ring[s] : IF ring[s][k].rnti = u THEN ring'[s][k].rnti = 0
                                                             ELSE ring'[s][k] = ring[s][k]
    BY <1>0, <1>1, RemRntiWrites
  <1>5. Ws' = Ws /\ Times' = Times /\ Coming' = Coming /\ Live' = Live
    BY <1>2 DEF Ws, Times, Coming, Live
  <1>6. \A n \in Live : Slot(n) \in Slots
    BY <1>0, Distinct
  <1>7. \A f \in Ws : Slot(f.t) \in Slots /\ Slot(TtiTxUl(f.t)) \in Slots /\ f \in Entry
    BY <1>0, Distinct
  <1>8. \A n, b : \A v \in Users : Waits(n, v, b)' <=> Waits(n, v, b) /\ v # u
    <2>1. TAKE n, b
    <2>2. TAKE v \in Users
    <2>3. v # 0
      BY Sizes
    <2>4. ASSUME n \in Live
          PROVE  \A k \in DOMAIN ring[Slot(n)] :
                   ring'[Slot(n)][k] = [rnti |-> v, buf |-> b]
                     <=> ring[Slot(n)][k] = [rnti |-> v, buf |-> b] /\ v # u
      <3>1. TAKE k \in DOMAIN ring[Slot(n)]
      <3>2. [rnti |-> v, buf |-> b].rnti = v
        OBVIOUS
      <3>3. PICK g, h : g = ring[Slot(n)][k] /\ h = ring'[Slot(n)][k]
        OBVIOUS
      <3>4. IF g.rnti = u THEN h.rnti = 0 ELSE h = g
        BY <1>4, <1>6, <2>4, <3>3
      <3>5. QED
        BY <2>3, <3>2, <3>3, <3>4
    <2>5. n \in Live => DOMAIN ring'[Slot(n)] = DOMAIN ring[Slot(n)]
      BY <1>4, <1>6
    <2>6. QED
      BY <1>5, <2>4, <2>5 DEF Waits
  <1>9. \A n, v, b : InHand(n, v, b)' <=> InHand(n, v, b)
    BY <1>5 DEF InHand
  <1>10. /\ \A n, b : \A v \in Users : Has(n, v, b)' => Has(n, v, b)
         /\ \A n, b : \A v \in Users : v # u => (Has(n, v, b)' <=> Has(n, v, b))
    BY <1>8, <1>9 DEF Has
  <1>11. \A n, a : Due(n, a)' <=> Due(n, a)
    BY <1>2, <1>5 DEF Due
  <1>12. \A f \in Ws : f.pc # "end" => f.w # w
    BY <1>2 DEF Busy, Ws
  <1>13. Kept'
    <2>1. \A v \in Users : life[v] = "in" => v # u
      BY <1>0, <1>1, <1>3 DEF Leaving
    <2>2. QED
      BY <1>0, <1>2, <1>10, <2>1 DEF Kept
  <1>14. Slotted'
    <2>1. \A s \in Slots : ring'[s] = << >> <=> ring[s] = << >>
      BY <1>4
    <2>2. ASSUME NEW f \in Ws, f.pc = "write", NEW k \in DOMAIN ring[Slot(f.t)], k >= f.j
          PROVE  ring'[Slot(f.t)][k].rnti # f.g.rnti
      <3>1. f.g.rnti \in Users /\ f.g.rnti # 0
        BY <1>0, <2>2, EntryFields, Sizes DEF PduInv, Reads, TypeOK, Ws
      <3>2. ring[Slot(f.t)][k].rnti # f.g.rnti
        BY <1>0, <2>2 DEF Slotted
      <3>3. QED
        BY <1>4, <1>7, <3>1, <3>2
    <2>3. ASSUME NEW s \in Slots, NEW k \in DOMAIN ring[s], NEW l \in DOMAIN ring[s],
                 ring'[s][k].rnti = ring'[s][l].rnti
          PROVE  k = l \/ ring'[s][k].rnti = 0
      BY <1>0, <1>4, <2>3 DEF Slotted
    <2>4. ASSUME NEW f \in Ws
          PROVE  /\ f.pc \in {"alloc", "end"} => ring'[Slot(f.t)] = << >>
                 /\ f.pc # "end" => ring'[Slot(TtiTxUl(f.t))] = << >>
                 /\ f.pc \in {"decode", "write"} => f.nof = Len(ring'[Slot(f.t)])
                 /\ f.pc = "write" => \A k \in DOMAIN ring'[Slot(f.t)] :
                                       k >= f.j => ring'[Slot(f.t)][k].rnti # f.g.rnti
      <3>1. Slot(f.t) \in Slots /\ Slot(TtiTxUl(f.t)) \in Slots
        BY <1>7
      <3>2. /\ f.pc \in {"alloc", "end"} => ring'[Slot(f.t)] = << >>
            /\ f.pc # "end" => ring'[Slot(TtiTxUl(f.t))] = << >>
            /\ f.pc \in {"decode", "write"} => f.nof = Len(ring'[Slot(f.t)])
        BY <1>0, <1>4, <2>1, <3>1 DEF Slotted
      <3>3. QED
        BY <1>4, <2>2, <3>1, <3>2
    <2>5. \A s \in Slots : ring'[s] # << >> => \E n \in Live : s = Slot(n)
      BY <1>0, <2>1 DEF Slotted
    <2>6. QED
      BY <1>4, <1>5, <2>3, <2>4, <2>5 DEF Slotted
  <1>15. ASSUME NEW f \in Ws, f.pc # "end"
         PROVE  (w <= f.w => w + 1 <= f.w) /\ (w + 1 > f.w => w > f.w)
    <2>1. f.w \in Nat /\ f.w # w
      BY <1>7, <1>12, <1>15 DEF Entry, Workers
    <2>2. QED
      BY <1>3, <2>1
  <1>16. Granting'
    <2>1. ASSUME NEW f \in Ws, u \in f.res
          PROVE  w + 1 <= f.w
      <3>1. w <= f.w /\ f.pc = "alloc"
        BY <1>0, <1>1, <2>1 DEF Granting
      <3>2. QED
        BY <1>15, <3>1
    <2>2. QED
      BY <1>0, <1>2, <1>3, <1>5, <2>1 DEF Granting
  <1>17. Leaving'
    <2>1. \A n, b : ~Waits(n, u, b)'
      BY <1>3, <1>8
    <2>2. \A f \in Ws : f.pc = "write" /\ f.g.rnti = u /\ w + 1 > f.w => rem.age = RoundTrip
      BY <1>0, <1>1, <1>3, <1>15 DEF Leaving
    <2>3. \A v \in Users : life[v] = "unsched" => v = u
      BY <1>0, <1>1 DEF Leaving
    <2>4. life[u] # "in"
      BY <1>0, <1>1, <1>3 DEF Leaving
    <2>5. rem'.user = rem.user
      BY <1>1, <1>3
    <2>6. \A n, b : ~Waits(n, rem.user, b)'
      BY <1>1, <2>1, <2>5
    <2>7. QED
      BY <1>1, <1>2, <1>3, <1>5, <2>2, <2>3, <2>4, <2>6 DEF Leaving
  <1>18. Left'
    BY <1>0, <1>2, <1>5, <1>10 DEF Left
  <1>19. BeingRead'
    <2>1. pdu.read # Idle => pdu.read.user \in Users
      BY <1>0 DEF BeingRead, TypeOK, Thread
    <2>2. QED
      BY <1>0, <1>2, <1>10, <1>11, <2>1 DEF BeingRead
  <1>20. QED
    BY <1>13, <1>14, <1>16, <1>17, <1>18, <1>19 DEF Moving

LEMMA InitMoves ==
  ASSUME Init
  PROVE  Moving
  <1>1. /\ inflight = << >> /\ ring = [s \in Slots |-> << >>]
        /\ pending = [u \in Users |-> [p \in Pids |-> NoBuf]]
        /\ life = [u \in Users |-> "in"] /\ rem = NoRemoval /\ phase = "run"
        /\ pdu = [pc |-> "check", todo |-> {}, ret |-> FALSE, read |-> Idle]
    BY DEF Init, Slots, Pids
  <1>2. Ws = {}
    BY <1>1 DEF Ws
  <1>3. \A n \in Live : n \in Nat
    <2>1. PduInv
      BY InitInv
    <2>2. QED
      BY <2>1, Distinct, Rings
  <1>4. \A n, u, b : ~Has(n, u, b)
    <2>1. \A n \in Live : Slot(n) \in Slots
      BY <1>3, Rings
    <2>2. QED
      BY <1>1, <1>2, <2>1 DEF Has, Waits, InHand
  <1>5. Slotted /\ Kept /\ Granting /\ Left
    BY <1>1, <1>2, <1>4 DEF Slotted, Kept, Granting, Left
  <1>6. Leaving
    BY <1>1 DEF Leaving, NoRemoval
  <1>7. BeingRead
    BY <1>1 DEF BeingRead
  <1>8. QED
    BY <1>5, <1>6, <1>7 DEF Moving

LEMMA GrantsInvariant == Spec => []GrantsInv
  <1>1. Init => GrantsInv
    BY InitInv, InitMoves DEF GrantsInv
  <1>2. GrantsInv /\ [Next]_vars => GrantsInv'
    <2> SUFFICES ASSUME GrantsInv, [Next]_vars PROVE GrantsInv'
      OBVIOUS
    <2>1. PduInv'
      BY NextInv DEF GrantsInv
    <2>2. CASE \E i \in 1 .. NofWorkers : WorkerStep(i)
      <3>1. Moving'
        BY <2>2, BeginDecodeMoves, EndDecodeMoves, ScheduleMoves, AllocMoves DEF WorkerStep
      <3>2. QED
        BY <2>1, <3>1 DEF GrantsInv
    <2>3. CASE Dispatch
      BY <2>1, <2>3, DispatchMoves DEF GrantsInv
    <2>4. CASE PduThread \/ UNCHANGED vars
      BY <2>1, <2>4, PduThreadMoves DEF GrantsInv
    <2>5. CASE RrcThread
      BY <2>1, <2>5, RemSchedMoves, RemRntiMoves, RemEraseMoves DEF RrcThread, GrantsInv
    <2>6. CASE StopPhy \/ StopMac
      BY <2>1, <2>6, StopMoves DEF GrantsInv
    <2>7. QED
      BY <2>2, <2>3, <2>4, <2>5, <2>6 DEF Next
  <1>3. QED
    BY <1>1, <1>2, PTL DEF Spec

\* The buffer that a worker has in its hands is still the one requested for its subframe,
\* however the workers, the scheduler and the removals of users interleave; and the user of
\* a grant is deleted under a worker's hands only by a removal as slow as a HARQ round trip.
THEOREM DecodesIntoItsOwn == Spec => []DecodesIntoOwn
  <1>1. GrantsInv => DecodesIntoOwn
    <2> SUFFICES ASSUME GrantsInv, NEW i \in DOMAIN inflight, inflight[i].pc = "write",
                        NEW u, u = inflight[i].g.rnti
                 PROVE  IF life[u] = "gone" THEN u \in slow
                        ELSE pending[u][Pid(inflight[i].t)] = inflight[i].g.buf
      BY DEF DecodesIntoOwn
    <2>1. TypeOK /\ Reads(inflight, ring) /\ Kept /\ Left
      BY DEF GrantsInv, Moving, PduInv
    <2>2. PICK f : f = inflight[i]
      OBVIOUS
    <2>3. f \in Ws /\ u \in Users /\ f.g = [rnti |-> u, buf |-> f.g.buf]
      <3>1. f \in Ws
        BY <2>2 DEF Ws
      <3>2. u \in Users
        BY <2>1, EntryFields DEF Reads, TypeOK
      <3>3. f \in Entry
        BY <3>1, Distinct DEF GrantsInv
      <3>4. QED
        BY <2>2, <3>1, <3>2, <3>3 DEF Entry, Grant
    <2>4. Has(f.t, u, f.g.buf)
      BY <2>2, <2>3 DEF Has, InHand
    <2>5. phase # "join"
      BY <2>1, <2>3 DEF Left
    <2>6. QED
      BY <2>1, <2>2, <2>3, <2>4, <2>5 DEF Kept, Left
  <1>2. QED
    BY <1>1, GrantsInvariant, PTL

\* process_pdu reads a buffer it has already given back: a worker that decodes into it again
\* is that of a subframe received a HARQ round trip, less the workers in use, later.
THEOREM ReadsInTime == Spec => []ReadInTime
  <1>1. GrantsInv => ReadInTime
    <2> SUFFICES ASSUME GrantsInv, NEW i \in DOMAIN inflight, inflight[i].pc = "write",
                        inflight[i].g.rnti = pdu.read.user, inflight[i].g.buf = pdu.read.buf
                 PROVE  pdu.read.age = RoundTrip
      BY DEF ReadInTime
    <2>1. TypeOK /\ Reads(inflight, ring) /\ BeingRead
      BY DEF GrantsInv, Moving, PduInv
    <2>2. PICK f : f = inflight[i]
      OBVIOUS
    <2>3. /\ f \in Ws /\ f.g.rnti \in Users /\ f.g.rnti # 0
          /\ f.g = [rnti |-> pdu.read.user, buf |-> pdu.read.buf]
      <3>1. f \in Ws
        BY <2>2 DEF Ws
      <3>2. f.g.rnti \in Users /\ f.g.rnti # 0
        BY <2>1, <2>2, EntryFields, Sizes DEF Reads, TypeOK
      <3>3. f \in Entry
        BY <3>1, Distinct DEF GrantsInv
      <3>4. f.g = [rnti |-> f.g.rnti, buf |-> f.g.buf]
        BY <3>3 DEF Entry, Grant
      <3>5. QED
        BY <2>2, <3>1, <3>2, <3>4
    <2>4. pdu.read # Idle
      BY <2>2, <2>3 DEF Idle
    <2>5. Has(f.t, pdu.read.user, pdu.read.buf)
      BY <2>2, <2>3 DEF Has, InHand
    <2>6. Due(f.t, pdu.read.age)
      BY <2>1, <2>4, <2>5 DEF BeingRead
    <2>7. QED
      BY <2>3, <2>6 DEF Due, Times
  <1>2. QED
    BY <1>1, GrantsInvariant, PTL
=============================================================================
