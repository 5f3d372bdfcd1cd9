------------------------------ MODULE RaProofs ------------------------------
(***************************************************************************)
(* Random access, for any numbers of slots, preambles, windows and TTIs.   *)
(***************************************************************************)
EXTENDS RandomAccess, ModArith, SequenceTheorems, FiniteSetTheorems, TLAPS

-----------------------------------------------------------------------------
(* What the theorems assume of the cell, each where it is needed.          *)

\* TTIs since TTI n.
Old(n) == Age(tti, n)

\* TTIs after an opportunity at which a request for it has been stored, is past its window and
\* finds room, so that dl_sched_rar drops it.
Clear(n) == {d \in MaxLag + 1 .. TtiMod - HarqDelay - 1 :
               d + HarqDelay > Lead + Window /\ TtiAdd(n, d + HarqDelay) \notin BusyTtis}
RoomComes == \A n \in PrachTtis : Clear(n) # {}

\* At most one request can be answered at a time, and a free slot of pending_rar, which
\* holds TTI 0, does not look like one.
OneAtATime ==
    /\ MaxPreambles <= 1 /\ 0 \notin PrachTtis
    /\ \A n, m \in PrachTtis : n # m => Age(m, n) > Lead + Window - HarqDelay

\* assemble_rar's UE sends six subframes after the response (36.213, 6.1.1).
Msg3Fits == TtiMod % SlotMod = 0 /\ Msg3Delay < SlotMod /\ Msg3Delay + HarqDelay = 6

-----------------------------------------------------------------------------
(* The invariant.                                                          *)

Rar  == [ra_id : 0 .. MaxRars - 1, rnti : Rntis \cup {NoRnti}, tti : Ttis, n : Nat]
Sent == [rnti : Rntis \cup {NoRnti}, crnti : Rntis \cup {NoRnti}, tti : Ttis]

\* What is scheduled is assembled before the next TTI.
RaTypes ==
    /\ TypeOK /\ granted \in Seq(Rar) /\ sent \subseteq Sent
    /\ prach.ra_id # MaxRars => prach.left > 0
    /\ prach.left > 0 => prach.busy
    /\ granted # << >> => pc = "rar"
    /\ pc = "dl" => sent = {}

Answerable(n) == Age(TtiAdd(tti, HarqDelay), n) \in Lead .. Lead + Window
InTime == /\ \A k \in DOMAIN granted : Answerable(granted[k].tti)
          /\ \A r \in sent : Answerable(r.tti)

\* A slot of pending_rar that is free holds TTI 0, one in use that of an opportunity.
Stored == /\ prach.busy => prach.tti \in PrachTtis
          /\ \A j \in Indices : IF pend[j].on THEN pend[j].tti \in PrachTtis ELSE pend[j].tti = 0

\* The opportunities are worked on in their order: buffers, the one of the PRACH thread, requests.
\* A preamble is not dealt with after MaxLag TTIs, nor a request kept after a clear TTI.
Before(n) == \/ ~prach.busy \/ Old(n) > Old(prach.tti)
             \/ (n = prach.tti /\ prach.left = 0)
Ordered ==
    /\ \A n \in Late : Old(n) <= MaxLag
    /\ \A i, k \in DOMAIN buffers : i < k => Old(buffers[i]) > Old(buffers[k])
    /\ prach.busy => \A i \in DOMAIN buffers : Old(prach.tti) > Old(buffers[i])
    /\ \A j \in Indices : pend[j].on =>
         /\ \A i \in DOMAIN buffers : Old(pend[j].tti) > Old(buffers[i])
         /\ \A d \in Clear(pend[j].tti) :
              Old(pend[j].tti) < d \/ (Old(pend[j].tti) = d /\ pc = "dl")

Queued ==
    /\ \A j \in Indices : pend[j].on => Before(pend[j].tti)
    /\ \A j, k \in Indices : pend[j].on /\ pend[k].on /\ pend[j].tti = pend[k].tti => j = k

\* The identity stored by rach_detected is there while its request can be answered, and in
\* between the PRACH thread stores no other.
Fresh(n) == Old(n) + HarqDelay <= Lead + Window
GrantedOne ==
    granted # << >> =>
      /\ Len(granted) = 1 /\ granted[1].n = 1 /\ granted[1].tti \in PrachTtis
      /\ Fresh(granted[1].tti) /\ Before(granted[1].tti)
      /\ \A i \in DOMAIN buffers : Old(granted[1].tti) > Old(buffers[i])
      /\ rars[granted[1].ra_id] = granted[1].rnti
      /\ \A j \in Indices : pend[j].on => pend[j].tti # granted[1].tti
Linked ==
    /\ \A j \in Indices : pend[j].on /\ Fresh(pend[j].tti) => rars[pend[j].ra_id] = pend[j].rnti
    /\ prach.ra_id # MaxRars => rars[prach.ra_id] = lastRnti
    /\ GrantedOne
    /\ \A r \in sent : r.crnti = r.rnti

\* The slot of the message 3 granted e TTIs ago: messages are due in those of the last Msg3Delay
\* TTIs only, of which ul_sched comes to the oldest before dl_sched_rar fills the newest.
SlotOf(e) == (tti + 2 * HarqDelay + Msg3Delay - e) % SlotMod
Reserved ==
    /\ \A s \in Slots : msg3[s].enabled <=> due[s] # {} \/ (granted # << >> /\ s = SlotOf(0))
    /\ \A s \in Slots : due[s] # {} =>
         \E e \in 0 .. Msg3Delay :
            s = SlotOf(e) /\ (e = Msg3Delay => pc # "rx") /\ (pc = "dl" => e > 0)

-----------------------------------------------------------------------------
(* What the searches of the code find.                                     *)

\* The loop of dl_sched_rar as a sequence of states.
Start == [pend |-> pend, msg3 |-> msg3, list |-> << >>]

Runs(a, t, room, dci) ==
    /\ a[0] = Start
    /\ \A k \in 1 .. MaxPending : a[k] = Visit(a[k - 1], k - 1, t, k <= room, k - 1 \in dci)

LEMMA LoopRuns ==
  ASSUME NEW t, NEW room, NEW dci
  PROVE  \E a : Runs(a, t, room, dci) /\ Visited(t, room, dci) = a[MaxPending]
  <1> DEFINE F(a, k) == IF k = 0 THEN Start
                        ELSE Visit(a[k - 1], k - 1, t, k <= room, k - 1 \in dci)
             Is(a, n) == a = [k \in 0 .. n |-> F(a, k)]
             S == {n \in 0 .. MaxPending : \E a : Is(a, n)}
             after == CHOOSE a : Is(a, MaxPending)
  <1>1. MaxPending \in Nat
    BY RaConstantsOK DEF RaConstantsOK
  <1>2. 0 \in S
    <2>1. Is([k \in 0 .. 0 |-> Start], 0)
      BY <1>1
    <2> HIDE DEF Is
    <2>2. \E a : Is(a, 0)
      BY <2>1
    <2>3. QED
      BY <1>1, <2>2
  <1>3. ASSUME NEW n \in 0 .. MaxPending - 1, n \in S
        PROVE  n + 1 \in S
    <2>1. PICK a : Is(a, n)
      BY <1>3
    <2> DEFINE b == [k \in 0 .. n + 1 |-> IF k <= n THEN a[k] ELSE F(a, n + 1)]
    <2>2. n \in Nat /\ n + 1 \in 0 .. MaxPending /\ n + 1 # 0
      BY <1>1
    <2>3. \A k \in 0 .. n : b[k] = a[k]
      BY <2>2
    <2>4. ASSUME NEW k \in 0 .. n + 1
          PROVE  b[k] = F(b, k)
      <3>1. CASE k = 0
        BY <2>1, <2>2, <3>1
      <3>2. CASE k # 0 /\ k <= n
        <4>1. a[k] = F(a, k) /\ b[k] = a[k] /\ b[k - 1] = a[k - 1]
          BY <2>1, <2>2, <2>3, <3>2
        <4>2. QED
          BY <4>1
      <3>3. CASE k = n + 1
        <4>1. b[k] = F(a, n + 1) /\ b[k - 1] = a[k - 1] /\ k - 1 = n
          BY <2>2, <2>3, <3>3
        <4>2. QED
          BY <3>3, <4>1
      <3>4. QED
        BY <2>2, <3>1, <3>2, <3>3
    <2>5. b = [k \in 0 .. n + 1 |-> b[k]]
      OBVIOUS
    <2> HIDE DEF b
    <2>6. Is(b, n + 1)
      BY <2>4, <2>5
    <2>7. QED
      BY <2>2, <2>6
  <1>4. \E a : Is(a, MaxPending)
    <2> HIDE DEF Is
    <2>1. MaxPending \in S
      <3> HIDE DEF S
      <3>1. \A n \in 0 .. MaxPending - 1 : n \in S => n + 1 \in S
        BY <1>3
      <3>2. QED
        BY <1>1, <1>2, <3>1, UpTo
    <2>2. QED
      BY <2>1
  <1>5. Is(after, MaxPending)
    <2> HIDE DEF Is
    <2>1. QED
      BY <1>4
  <1>6. Visited(t, room, dci) = after[MaxPending]
    BY DEF Visited, Start
  <1>7. PICK a : a = after
    OBVIOUS
  <1>8. a = [k \in 0 .. MaxPending |-> F(a, k)]
    BY <1>5, <1>7
  <1>9. Runs(a, t, room, dci)
    <2>1. \A k \in 0 .. MaxPending : a[k] = F(a, k)
      BY <1>8
    <2>2. QED
      BY <1>1, <2>1 DEF Runs
  <1>10. QED
    BY <1>6, <1>7, <1>9

-----------------------------------------------------------------------------
(* The circle of TTIs.                                                     *)

LEMMA Sizes ==
  /\ TtiMod \in Nat \ {0} /\ HarqDelay \in Nat /\ Msg3Delay \in Nat /\ SlotMod \in Nat \ {0}
  /\ Lead \in Nat /\ Window \in Nat /\ PrachTtis \subseteq Ttis /\ MaxPreambles \in Nat
  /\ NofBuffers \in Nat \ {0} /\ MaxRars \in Nat \ {0} /\ MaxPending \in Nat \ {0}
  /\ NofRntis \in Nat \ {0} /\ MaxLag \in Nat /\ Ttis = 0 .. TtiMod - 1 /\ Ttis \subseteq Nat
  BY RaConstantsOK DEF RaConstantsOK, Ttis

LEMMA AgeIs ==
  ASSUME NEW t \in Ttis, NEW n \in Ttis
  PROVE  Age(t, n) = (IF t >= n THEN t - n ELSE t + TtiMod - n) /\ Age(t, n) \in 0 .. TtiMod - 1
  <1>1. TtiMod \in Nat \ {0} /\ t \in 0 .. TtiMod - 1 /\ n \in 0 .. TtiMod - 1
    BY Sizes
  <1>2. CASE t >= n
    <2>1. t - n \in 0 .. TtiMod - 1 /\ t - n \in Nat /\ (t - n) + TtiMod = t + TtiMod - n
      BY <1>1, <1>2
    <2>2. (TtiMod * 0 + (t - n)) % TtiMod = t - n
      BY <1>1, <2>1, Remainder
    <2>3. ((t - n) + TtiMod) % TtiMod = (t - n) % TtiMod
      BY <1>1, <2>1, ModPlus
    <2>4. QED
      BY <1>1, <1>2, <2>1, <2>2, <2>3 DEF Age
  <1>3. CASE ~(t >= n)
    <2>1. t + TtiMod - n \in 0 .. TtiMod - 1
      BY <1>1, <1>3
    <2>2. (TtiMod * 0 + (t + TtiMod - n)) % TtiMod = t + TtiMod - n
      BY <1>1, <2>1, Remainder
    <2>3. QED
      BY <1>1, <1>3, <2>1, <2>2 DEF Age
  <1>4. QED
    BY <1>2, <1>3

LEMMA TtiAddIs ==
  ASSUME NEW t \in Ttis, NEW d \in Nat
  PROVE  /\ TtiAdd(t, d) \in Ttis
         /\ t + d < TtiMod => TtiAdd(t, d) = t + d
         /\ t + d >= TtiMod /\ d <= TtiMod => TtiAdd(t, d) = t + d - TtiMod
  <1>1. TtiMod \in Nat \ {0} /\ t \in 0 .. TtiMod - 1 /\ Ttis = 0 .. TtiMod - 1 /\ t + d \in Nat
    BY Sizes
  <1>2. TtiAdd(t, d) \in Ttis
    BY <1>1, ModRange DEF TtiAdd
  <1>3. ASSUME t + d < TtiMod PROVE TtiAdd(t, d) = t + d
    <2>1. (TtiMod * 0 + (t + d)) % TtiMod = t + d
      BY <1>1, <1>3, Remainder
    <2>2. QED
      BY <1>1, <2>1 DEF TtiAdd
  <1>4. ASSUME t + d >= TtiMod, d <= TtiMod PROVE TtiAdd(t, d) = t + d - TtiMod
    <2>1. t + d - TtiMod \in 0 .. TtiMod - 1 /\ t + d - TtiMod \in Nat
      BY <1>1, <1>4
    <2>2. (TtiMod * 0 + (t + d - TtiMod)) % TtiMod = t + d - TtiMod
      BY <1>1, <2>1, Remainder
    <2>3. ((t + d - TtiMod) + TtiMod) % TtiMod = (t + d - TtiMod) % TtiMod
      BY <1>1, <2>1, ModPlus
    <2>4. (t + d - TtiMod) + TtiMod = t + d
      BY <1>1
    <2>5. QED
      BY <1>1, <2>2, <2>3, <2>4 DEF TtiAdd
  <1>5. QED
    BY <1>2, <1>3, <1>4

\* What is n TTIs old is d TTIs older d TTIs later.
LEMMA Ageing ==
  ASSUME NEW t \in Ttis, NEW n \in Ttis, NEW d \in Nat, Age(t, n) + d < TtiMod
  PROVE  /\ Age(TtiAdd(t, d), n) = Age(t, n) + d
         /\ TtiAdd(n, Age(t, n) + d) = TtiAdd(t, d)
  <1>1. /\ TtiMod \in Nat \ {0} /\ t \in 0 .. TtiMod - 1 /\ n \in 0 .. TtiMod - 1
        /\ Age(t, n) \in 0 .. TtiMod - 1
        /\ Age(t, n) = IF t >= n THEN t - n ELSE t + TtiMod - n
    BY Sizes, AgeIs
  <1>2. PICK u \in Ttis : u = TtiAdd(t, d)
    BY TtiAddIs
  <1>3. u = IF t + d < TtiMod THEN t + d ELSE t + d - TtiMod
    BY <1>1, <1>2, TtiAddIs
  <1>4. Age(u, n) = IF u >= n THEN u - n ELSE u + TtiMod - n
    BY AgeIs
  <1>5. u \in 0 .. TtiMod - 1
    BY Sizes
  <1>6. Age(u, n) = Age(t, n) + d
    BY <1>1, <1>3, <1>4, <1>5
  <1>7. TtiAdd(n, Age(t, n) + d) = u
    <2>0. Age(t, n) + d \in Nat
      BY <1>1
    <2>1. PICK a \in Nat : a = Age(t, n) + d
      BY <2>0
    <2>2. a < TtiMod
      BY <1>1, <2>1
    <2>3. TtiAdd(n, a) = IF n + a < TtiMod THEN n + a ELSE n + a - TtiMod
      BY <1>1, <2>1, <2>2, TtiAddIs
    <2>4. u = IF n + a < TtiMod THEN n + a ELSE n + a - TtiMod
      BY <1>1, <1>3, <2>1
    <2>5. QED
      BY <2>1, <2>3, <2>4
  <1>8. QED
    BY <1>2, <1>6, <1>7

LEMMA AgesApart ==
  ASSUME NEW t \in Ttis, NEW n \in Ttis, NEW m \in Ttis
  PROVE  /\ Age(t, n) >= Age(t, m) => Age(m, n) = Age(t, n) - Age(t, m)
         /\ Age(t, n) = Age(t, m) => n = m
         /\ Age(t, t) = 0
  <1>1. /\ TtiMod \in Nat \ {0} /\ t \in 0 .. TtiMod - 1 /\ n \in 0 .. TtiMod - 1
        /\ m \in 0 .. TtiMod - 1
    BY Sizes
  <1>2. /\ Age(t, n) = IF t >= n THEN t - n ELSE t + TtiMod - n
        /\ Age(t, m) = IF t >= m THEN t - m ELSE t + TtiMod - m
        /\ Age(m, n) = IF m >= n THEN m - n ELSE m + TtiMod - n
        /\ Age(t, t) = IF t >= t THEN t - t ELSE t + TtiMod - t
    BY AgeIs
  <1>3. QED
    BY <1>1, <1>2

-----------------------------------------------------------------------------
(* The loop of dl_sched_rar.                                               *)

Msg3s == [enabled : BOOLEAN, rnti : Rntis \cup {NoRnti}]
LoopState == [pend : [Indices -> Requests], msg3 : [Slots -> Msg3s], list : Seq(Rar)]

\* A slot of pending_rar is freed.
Freed(p, j) == [p EXCEPT ![j].on = FALSE, ![j].tti = 0]

LEMMA FreedIs ==
  ASSUME NEW p \in [Indices -> Requests], NEW j \in Indices
  PROVE  /\ Freed(p, j) \in [Indices -> Requests]
         /\ \A l \in Indices : Freed(p, j)[l].ra_id = p[l].ra_id /\ Freed(p, j)[l].rnti = p[l].rnti
         /\ \A l \in Indices : l # j => Freed(p, j)[l] = p[l]
         /\ ~Freed(p, j)[j].on /\ Freed(p, j)[j].tti = 0
  <1>1. 0 \in Ttis
    BY Sizes
  <1>2. Freed(p, j) = [p EXCEPT ![j] = [p[j] EXCEPT !.on = FALSE, !.tti = 0]]
    BY DEF Freed
  <1>3. p[j] \in Requests
    OBVIOUS
  <1>4. [p[j] EXCEPT !.on = FALSE, !.tti = 0] \in Requests
    BY <1>1, <1>3 DEF Requests
  <1>5. QED
    BY <1>2, <1>3, <1>4 DEF Requests

\* The requests of the same TTI as that of slot i, of which the first is answered.
Group(st, i) == {j \in Indices : st.pend[j].tti = st.pend[i].tti}

LEMMA GroupMin ==
  ASSUME NEW st, NEW i \in Indices
  PROVE  /\ Min(Group(st, i)) \in Group(st, i) /\ Group(st, i) \subseteq Indices
         /\ Cardinality(Group(st, i)) \in Nat
  <1>1. Group(st, i) \subseteq Indices /\ i \in Group(st, i) /\ Indices \subseteq Nat
    BY Sizes DEF Group, Indices
  <1> HIDE DEF Group
  <1>2. \E n \in Group(st, i) : \A m \in Group(st, i) : n <= m
    BY <1>1, LeastNat
  <1>3. Min(Group(st, i)) \in Group(st, i)
    BY <1>2 DEF Min
  <1>4. IsFiniteSet(Indices)
    BY Sizes, FS_Interval DEF Indices
  <1>5. Cardinality(Group(st, i)) \in Nat
    BY <1>1, <1>4, FS_Subset, FS_CardinalityType
  <1>6. QED
    BY <1>1, <1>3, <1>5

RarOf(st, i, j) == [ra_id |-> st.pend[j].ra_id, rnti |-> st.pend[j].rnti,
                    tti |-> st.pend[i].tti, n |-> Cardinality(Group(st, i))]

LEMMA AnswerIs ==
  ASSUME NEW st \in LoopState, NEW i \in Indices, NEW t \in Ttis
  PROVE  \E j \in Group(st, i) :
           /\ Answer(st, i, t) \in LoopState /\ RarOf(st, i, j) \in Rar
           /\ Answer(st, i, t).pend = Freed(st.pend, j)
           /\ Answer(st, i, t).msg3 = [st.msg3 EXCEPT ![Msg3Slot(t)] =
                                         [enabled |-> TRUE, rnti |-> st.pend[j].rnti]]
           /\ Answer(st, i, t).list = Append(st.list, RarOf(st, i, j))
  <1>1. /\ st.pend \in [Indices -> Requests] /\ st.msg3 \in [Slots -> Msg3s]
        /\ st.list \in Seq(Rar)
    BY DEF LoopState
  <1>2. PICK j \in Group(st, i) : j = Min(Group(st, i)) /\ j \in Indices
    BY GroupMin
  <1>3. Cardinality(Group(st, i)) \in Nat
    BY GroupMin
  <1>4. RarOf(st, i, j) \in Rar
    BY <1>1, <1>2, <1>3 DEF RarOf, Rar, Requests
  <1>5. Answer(st, i, t) =
          [pend |-> Freed(st.pend, j),
           msg3 |-> [st.msg3 EXCEPT ![Msg3Slot(t)] = [enabled |-> TRUE, rnti |-> st.pend[j].rnti]],
           list |-> Append(st.list, RarOf(st, i, j))]
    BY <1>2 DEF Answer, Group, RarOf, Freed
  <1>6. Freed(st.pend, j) \in [Indices -> Requests]
    BY <1>1, <1>2, FreedIs
  <1>7. [enabled |-> TRUE, rnti |-> st.pend[j].rnti] \in Msg3s
    BY <1>1, <1>2 DEF Msg3s, Requests
  <1>8. [st.msg3 EXCEPT ![Msg3Slot(t)] = [enabled |-> TRUE, rnti |-> st.pend[j].rnti]]
          \in [Slots -> Msg3s]
    BY <1>1, <1>7
  <1>9. Append(st.list, RarOf(st, i, j)) \in Seq(Rar)
    BY <1>1, <1>4, AppendProperties
  <1>10. Answer(st, i, t) \in LoopState
    BY <1>5, <1>6, <1>8, <1>9 DEF LoopState
  <1>11. /\ Answer(st, i, t).pend = Freed(st.pend, j)
         /\ Answer(st, i, t).msg3 = [st.msg3 EXCEPT ![Msg3Slot(t)] =
                                       [enabled |-> TRUE, rnti |-> st.pend[j].rnti]]
         /\ Answer(st, i, t).list = Append(st.list, RarOf(st, i, j))
    BY <1>5
  <1>12. QED
    BY <1>2, <1>4, <1>10, <1>11, Zenon

LEMMA DiscardIs ==
  ASSUME NEW st \in LoopState, NEW i \in Indices
  PROVE  /\ Discard(st, i) \in LoopState /\ Discard(st, i).pend = Freed(st.pend, i)
         /\ Discard(st, i).msg3 = st.msg3 /\ Discard(st, i).list = st.list
  <1>1. Discard(st, i) = [st EXCEPT !.pend = Freed(st.pend, i)]
    BY DEF Discard, Freed, LoopState
  <1>2. Freed(st.pend, i) \in [Indices -> Requests]
    BY FreedIs DEF LoopState
  <1>3. QED
    BY <1>1, <1>2 DEF LoopState

\* The window test of dl_sched_rar, with TTIs that wrap: a request that passes is of the right age.
LEMMA WindowAge ==
  ASSUME NEW t \in Ttis, NEW n \in Ttis, InWindow(n, t)
  PROVE  Age(t, n) \in Lead .. Lead + Window
  <1>1. /\ TtiMod \in Nat \ {0} /\ t \in 0 .. TtiMod - 1 /\ n \in 0 .. TtiMod - 1
        /\ Lead \in Nat /\ Window \in Nat
    BY Sizes
  <1>2. t >= n + Lead /\ t <= (n + Window + Lead) % TtiMod
    BY DEF InWindow
  <1>3. Age(t, n) = t - n
    BY <1>1, <1>2, AgeIs
  <1>4. CASE n + Window + Lead < TtiMod
    <2>1. (TtiMod * 0 + (n + Window + Lead)) % TtiMod = n + Window + Lead
      BY <1>1, <1>4, Remainder
    <2>2. t <= n + Window + Lead
      BY <1>1, <1>2, <2>1
    <2>3. QED
      BY <1>1, <1>2, <1>3, <2>2
  <1>5. CASE ~(n + Window + Lead < TtiMod)
    BY <1>1, <1>2, <1>3, <1>5
  <1>6. QED
    BY <1>4, <1>5

\* After k iterations of which the first "room" found resource blocks: requests that are still
\* pending are as they were; one that is not was answered, or found past its window.
Looped(st, k, room, t) ==
    /\ st \in LoopState
    /\ \A x \in DOMAIN st.list : Age(t, st.list[x].tti) \in Lead .. Lead + Window
    /\ \A j \in Indices : /\ st.pend[j].rnti = pend[j].rnti /\ st.pend[j].ra_id = pend[j].ra_id
                          /\ st.pend[j] = pend[j] \/ (~st.pend[j].on /\ st.pend[j].tti = 0)
    /\ \A j \in Indices : pend[j].on /\ ~st.pend[j].on =>
         (\E x \in DOMAIN st.list : st.list[x].rnti = pend[j].rnti) \/ ~InWindow(pend[j].tti, t)
    /\ \A j \in Indices : j < k /\ j < room /\ st.pend[j].on => InWindow(pend[j].tti, t)

LEMMA LoopStart ==
  ASSUME RaTypes, NEW t, NEW room
  PROVE  Looped(Start, 0, room, t)
  <1>1. /\ pend \in [Indices -> Requests] /\ msg3 \in [Slots -> Msg3s]
        /\ Indices \subseteq Nat
    BY Sizes DEF RaTypes, TypeOK, Msg3s, Indices
  <1>2. Start \in LoopState
    BY <1>1, EmptySeq DEF Start, LoopState
  <1>3. Start.pend = pend /\ Start.list = << >> /\ DOMAIN Start.list = {}
    BY EmptySeq DEF Start
  <1>4. \A j \in Indices : ~(j < 0)
    BY <1>1
  <1>5. QED
    BY <1>2, <1>3, <1>4 DEF Looped

\* The three ways an iteration may go.
LEMMA VisitCases ==
  ASSUME NEW st, NEW i \in Indices, NEW t, NEW room, NEW dci
  PROVE  \/ /\ Visit(st, i, t, room, dci) = st
            /\ room /\ st.pend[i].on => InWindow(st.pend[i].tti, t)
         \/ /\ Visit(st, i, t, room, dci) = Discard(st, i)
            /\ st.pend[i].on /\ ~InWindow(st.pend[i].tti, t)
         \/ /\ Visit(st, i, t, room, dci) = Answer(st, i, t)
            /\ st.pend[i].on /\ InWindow(st.pend[i].tti, t)
  BY DEF Visit

LEMMA LoopStep ==
  ASSUME RaTypes, NEW t \in Ttis, NEW room \in Nat, NEW k \in Indices, NEW dci, NEW st,
         Looped(st, k, room, t)
  PROVE  Looped(Visit(st, k, t, k + 1 <= room, dci), k + 1, room, t)
  <1>1. PICK v : v = Visit(st, k, t, k + 1 <= room, dci)
    OBVIOUS
  <1>2. /\ st \in LoopState /\ st.pend \in [Indices -> Requests] /\ st.list \in Seq(Rar)
        /\ pend \in [Indices -> Requests]
        /\ k \in Nat /\ Indices \subseteq Nat
        /\ \A j \in Indices : st.pend[j].on => st.pend[j] = pend[j]
    BY Sizes DEF Looped, LoopState, RaTypes, TypeOK, Indices
  <1>3. CASE v = st /\ (k + 1 <= room /\ st.pend[k].on => InWindow(st.pend[k].tti, t))
    <2>1. \A j \in Indices : j < k + 1 /\ j < room /\ st.pend[j].on => InWindow(pend[j].tti, t)
      <3>1. SUFFICES ASSUME NEW j \in Indices, j < k + 1, j < room, st.pend[j].on
                     PROVE  InWindow(pend[j].tti, t)
        OBVIOUS
      <3>2. CASE j = k
        BY <1>2, <1>3, <3>1, <3>2
      <3>3. CASE j # k
        <4>1. j < k
          BY <1>2, <3>1, <3>3
        <4>2. QED
          BY <3>1, <4>1 DEF Looped
      <3>4. QED
        BY <3>2, <3>3
    <2>2. QED
      BY <1>1, <1>3, <2>1 DEF Looped
  <1>4. ASSUME NEW j \in Indices, v \in LoopState, v.pend = Freed(st.pend, j),
               \A x \in DOMAIN v.list : Age(t, v.list[x].tti) \in Lead .. Lead + Window,
               \A x \in DOMAIN st.list : x \in DOMAIN v.list /\ v.list[x] = st.list[x],
               pend[j].on => (\/ \E x \in DOMAIN v.list : v.list[x].rnti = pend[j].rnti
                              \/ ~InWindow(pend[j].tti, t)),
               st.pend[k].on => (j = k \/ InWindow(st.pend[k].tti, t))
        PROVE  Looped(v, k + 1, room, t)
    <2>1. /\ v.pend \in [Indices -> Requests]
          /\ \A l \in Indices : v.pend[l].ra_id = st.pend[l].ra_id /\ v.pend[l].rnti = st.pend[l].rnti
          /\ \A l \in Indices : l # j => v.pend[l] = st.pend[l]
          /\ ~v.pend[j].on /\ v.pend[j].tti = 0
      <3>1. PICK p \in [Indices -> Requests] : p = st.pend
        BY <1>2
      <3>2. /\ Freed(p, j) \in [Indices -> Requests]
            /\ \A l \in Indices : /\ Freed(p, j)[l].ra_id = p[l].ra_id
                                  /\ Freed(p, j)[l].rnti = p[l].rnti
            /\ \A l \in Indices : l # j => Freed(p, j)[l] = p[l]
            /\ ~Freed(p, j)[j].on /\ Freed(p, j)[j].tti = 0
        BY FreedIs
      <3>3. v.pend = Freed(p, j)
        BY <1>4, <3>1
      <3>4. QED
        BY <3>1, <3>2, <3>3
    <2>2. \A l \in Indices :
            /\ v.pend[l].rnti = pend[l].rnti /\ v.pend[l].ra_id = pend[l].ra_id
            /\ v.pend[l] = pend[l] \/ (~v.pend[l].on /\ v.pend[l].tti = 0)
      BY <2>1 DEF Looped
    <2>3. ASSUME NEW l \in Indices, pend[l].on, ~v.pend[l].on
          PROVE  \/ \E x \in DOMAIN v.list : v.list[x].rnti = pend[l].rnti
                 \/ ~InWindow(pend[l].tti, t)
      <3>1. CASE l = j
        BY <1>4, <2>3, <3>1
      <3>2. CASE l # j
        <4>1. ~st.pend[l].on
          BY <2>1, <2>3, <3>2
        <4>2. \/ \E x \in DOMAIN st.list : st.list[x].rnti = pend[l].rnti
              \/ ~InWindow(pend[l].tti, t)
          BY <2>3, <4>1 DEF Looped
        <4>3. QED
          BY <1>4, <4>2
      <3>3. QED
        BY <3>1, <3>2
    <2>4. ASSUME NEW l \in Indices, l < k + 1, l < room, v.pend[l].on
          PROVE  InWindow(pend[l].tti, t)
      <3>1. l # j /\ st.pend[l].on
        BY <2>1, <2>4
      <3>2. CASE l = k
        BY <1>2, <1>4, <3>1, <3>2
      <3>3. CASE l # k
        <4>1. l < k
          BY <1>2, <2>4, <3>3
        <4>2. QED
          BY <2>4, <3>1, <4>1 DEF Looped
      <3>4. QED
        BY <3>2, <3>3
    <2>5. QED
      BY <1>4, <2>2, <2>3, <2>4 DEF Looped
  <1>5. CASE v = Discard(st, k) /\ st.pend[k].on /\ ~InWindow(st.pend[k].tti, t)
    <2>1. v \in LoopState /\ v.pend = Freed(st.pend, k) /\ v.list = st.list
      BY <1>2, <1>5, DiscardIs
    <2>2. ~InWindow(pend[k].tti, t)
      BY <1>2, <1>5
    <2>3. \A x \in DOMAIN st.list : Age(t, st.list[x].tti) \in Lead .. Lead + Window
      BY DEF Looped
    <2>4. QED
      BY <1>1, <1>4, <2>1, <2>2, <2>3
  <1>6. CASE v = Answer(st, k, t) /\ st.pend[k].on /\ InWindow(st.pend[k].tti, t)
    <2>1. PICK j \in Group(st, k) :
            /\ v \in LoopState /\ v.pend = Freed(st.pend, j) /\ RarOf(st, k, j) \in Rar
            /\ v.list = Append(st.list, RarOf(st, k, j))
      <3>1. \E j \in Group(st, k) :
              /\ Answer(st, k, t) \in LoopState /\ RarOf(st, k, j) \in Rar
              /\ Answer(st, k, t).pend = Freed(st.pend, j)
              /\ Answer(st, k, t).list = Append(st.list, RarOf(st, k, j))
        <4>1. PICK j \in Group(st, k) :
              /\ Answer(st, k, t) \in LoopState /\ RarOf(st, k, j) \in Rar
              /\ Answer(st, k, t).pend = Freed(st.pend, j)
              /\ Answer(st, k, t).msg3 = [st.msg3 EXCEPT ![Msg3Slot(t)] =
                                            [enabled |-> TRUE, rnti |-> st.pend[j].rnti]]
              /\ Answer(st, k, t).list = Append(st.list, RarOf(st, k, j))
          BY <1>2, AnswerIs, Zenon
        <4>2. QED
          BY <4>1, Zenon
      <3>2. PICK a : a = Answer(st, k, t)
        OBVIOUS
      <3>3. \E j \in Group(st, k) :
              /\ a \in LoopState /\ RarOf(st, k, j) \in Rar
              /\ a.pend = Freed(st.pend, j) /\ a.list = Append(st.list, RarOf(st, k, j))
        BY <3>1, <3>2
      <3>4. v = a
        BY <1>6, <3>2
      <3>5. QED
        BY <3>3, <3>4
    <2>2. j \in Indices
      BY DEF Group
    <2> DEFINE n == Len(st.list)
    <2>3. /\ DOMAIN st.list = 1 .. n /\ n \in Nat /\ DOMAIN v.list = 1 .. n + 1
          /\ \A x \in 1 .. n : v.list[x] = st.list[x]
          /\ v.list[n + 1] = RarOf(st, k, j)
      <3>1. /\ v.list \in Seq(Rar) /\ Len(v.list) = n + 1
            /\ \A x \in 1 .. n : v.list[x] = st.list[x]
            /\ v.list[n + 1] = RarOf(st, k, j)
        BY <1>2, <2>1, AppendProperties
      <3>2. QED
        BY <1>2, <3>1, LenProperties
    <2> HIDE DEF n
    <2>4. RarOf(st, k, j).tti = st.pend[k].tti /\ RarOf(st, k, j).rnti = st.pend[j].rnti
      BY DEF RarOf
    <2>5. Age(t, st.pend[k].tti) \in Lead .. Lead + Window
      BY <1>2, <1>6, WindowAge DEF Requests
    <2>6. \A x \in 1 .. n + 1 : x \in 1 .. n \/ x = n + 1
      BY <2>3
    <2>7. \A x \in DOMAIN v.list : Age(t, v.list[x].tti) \in Lead .. Lead + Window
      <3>1. \A x \in 1 .. n : Age(t, st.list[x].tti) \in Lead .. Lead + Window
        BY <2>3 DEF Looped
      <3>2. QED
        BY <2>3, <2>4, <2>5, <2>6, <3>1
    <2>8. \E x \in DOMAIN v.list : v.list[x].rnti = pend[j].rnti
      <3>1. n + 1 \in DOMAIN v.list /\ v.list[n + 1].rnti = pend[j].rnti
        BY <2>2, <2>3, <2>4 DEF Looped
      <3>2. QED
        BY <3>1
    <2>9. \A x \in DOMAIN st.list : x \in DOMAIN v.list /\ v.list[x] = st.list[x]
      BY <2>3
    <2>10. QED
      BY <1>1, <1>4, <1>6, <2>1, <2>2, <2>7, <2>8, <2>9
  <1>7. \/ v = st /\ (k + 1 <= room /\ st.pend[k].on => InWindow(st.pend[k].tti, t))
        \/ v = Discard(st, k) /\ st.pend[k].on /\ ~InWindow(st.pend[k].tti, t)
        \/ v = Answer(st, k, t) /\ st.pend[k].on /\ InWindow(st.pend[k].tti, t)
    <2>1. PICK b : b = (k + 1 <= room)
      OBVIOUS
    <2>2. \/ Visit(st, k, t, b, dci) = st /\ (b /\ st.pend[k].on => InWindow(st.pend[k].tti, t))
          \/ Visit(st, k, t, b, dci) = Discard(st, k) /\ st.pend[k].on /\ ~InWindow(st.pend[k].tti, t)
          \/ Visit(st, k, t, b, dci) = Answer(st, k, t) /\ st.pend[k].on /\ InWindow(st.pend[k].tti, t)
      BY VisitCases
    <2>3. v = Visit(st, k, t, b, dci)
      BY <1>1, <2>1
    <2>4. QED
      BY <2>1, <2>2, <2>3
  <1>8. QED
    BY <1>1, <1>3, <1>5, <1>6, <1>7

\* Slots that share the TTI of a pending request are pending themselves.
LEMMA GroupPending ==
  ASSUME RaTypes, Stored, 0 \notin PrachTtis, NEW st, NEW k, NEW room, NEW t, Looped(st, k, room, t),
         NEW i \in Indices, st.pend[i].on, NEW j \in Group(st, i)
  PROVE  /\ j \in Indices /\ st.pend[i] = pend[i] /\ st.pend[j] = pend[j]
         /\ pend[j].on /\ pend[j].tti = pend[i].tti
  <1>1. j \in Indices /\ st.pend[j].tti = st.pend[i].tti
    BY DEF Group
  <1>2. st.pend[i] = pend[i]
    BY DEF Looped
  <1>3. pend[i].tti \in PrachTtis
    BY <1>2 DEF Stored
  <1>4. st.pend[j] = pend[j]
    BY <1>1, <1>2, <1>3 DEF Looped
  <1>5. pend[j].on
    BY <1>1, <1>2, <1>3, <1>4 DEF Stored
  <1>6. QED
    BY <1>1, <1>2, <1>4, <1>5

\* What is answered was pending before the loop.
Named(st) == \A x \in DOMAIN st.list : \E j \in Indices : pend[j].on /\ pend[j].rnti = st.list[x].rnti

LEMMA NamedStep ==
  ASSUME RaTypes, Stored, 0 \notin PrachTtis, NEW t \in Ttis, NEW room, NEW k \in Indices,
         NEW dci, NEW go, NEW st, Looped(st, k, room, t), Named(st)
  PROVE  Named(Visit(st, k, t, go, dci))
  <1>1. st \in LoopState /\ st.list \in Seq(Rar)
    BY DEF Looped, LoopState
  <1>2. CASE Visit(st, k, t, go, dci) = st
    BY <1>2
  <1>3. CASE Visit(st, k, t, go, dci) = Discard(st, k)
    <2>1. Discard(st, k).list = st.list
      BY <1>1, DiscardIs
    <2>2. QED
      BY <1>3, <2>1 DEF Named
  <1>4. CASE Visit(st, k, t, go, dci) = Answer(st, k, t) /\ st.pend[k].on
    <2>1. PICK j \in Group(st, k) :
            /\ Answer(st, k, t) \in LoopState /\ RarOf(st, k, j) \in Rar
            /\ Answer(st, k, t).pend = Freed(st.pend, j)
            /\ Answer(st, k, t).msg3 = [st.msg3 EXCEPT ![Msg3Slot(t)] =
                                          [enabled |-> TRUE, rnti |-> st.pend[j].rnti]]
            /\ Answer(st, k, t).list = Append(st.list, RarOf(st, k, j))
      BY <1>1, AnswerIs, Zenon
    <2>2. j \in Indices /\ st.pend[j] = pend[j] /\ pend[j].on
      BY <1>4, GroupPending
    <2> DEFINE n == Len(st.list)
    <2>3. PICK l : l = Append(st.list, RarOf(st, k, j))
      OBVIOUS
    <2>4. /\ l \in Seq(Rar) /\ Len(l) = n + 1 /\ n \in Nat
          /\ \A x \in 1 .. n : l[x] = st.list[x]
          /\ l[n + 1] = RarOf(st, k, j) /\ DOMAIN st.list = 1 .. n
      BY <1>1, <2>1, <2>3, AppendProperties, LenProperties
    <2>5. DOMAIN l = 1 .. n + 1
      BY <2>4, LenProperties
    <2> HIDE DEF n
    <2>6. RarOf(st, k, j).rnti = pend[j].rnti
      BY <2>2 DEF RarOf
    <2>7. \A x \in DOMAIN l : \E i \in Indices : pend[i].on /\ pend[i].rnti = l[x].rnti
      <3>1. ASSUME NEW x \in 1 .. n + 1
            PROVE  \E i \in Indices : pend[i].on /\ pend[i].rnti = l[x].rnti
        <4>1. CASE x = n + 1
          BY <2>2, <2>4, <2>6, <4>1
        <4>2. CASE x # n + 1
          <5>1. x \in DOMAIN st.list /\ l[x] = st.list[x]
            BY <2>4, <3>1, <4>2
          <5>2. QED
            BY <5>1 DEF Named
        <4>3. QED
          BY <4>1, <4>2
      <3>2. QED
        BY <2>5, <3>1
    <2>8. Visit(st, k, t, go, dci).list = l
      BY <1>4, <2>1, <2>3
    <2>9. QED
      BY <2>7, <2>8 DEF Named
  <1>5. QED
    BY <1>2, <1>3, <1>4, VisitCases

\* The slot of the message 3 of this TTI is the only one written, and is when something is answered.
Booked(st, t) ==
    /\ \A s \in Slots : s # Msg3Slot(t) => st.msg3[s] = msg3[s]
    /\ IF st.list = << >> THEN st.msg3 = msg3 ELSE st.msg3[Msg3Slot(t)].enabled

LEMMA BookedStep ==
  ASSUME NEW t \in Ttis, NEW room, NEW k \in Indices, NEW dci, NEW go, NEW st,
         Looped(st, k, room, t), Booked(st, t)
  PROVE  Booked(Visit(st, k, t, go, dci), t)
  <1>1. /\ st \in LoopState /\ st.list \in Seq(Rar) /\ st.msg3 \in [Slots -> Msg3s]
        /\ Msg3Slot(t) \in Slots
    <2>1. t + Msg3Delay + HarqDelay \in Nat /\ SlotMod \in Nat \ {0}
      BY Sizes, RaConstantsOK DEF RaConstantsOK
    <2>2. Msg3Slot(t) \in 0 .. SlotMod - 1
      BY <2>1, ModRange DEF Msg3Slot
    <2>3. QED
      BY <2>2 DEF Looped, LoopState, Slots
  <1>2. CASE Visit(st, k, t, go, dci) = st
    BY <1>2
  <1>3. CASE Visit(st, k, t, go, dci) = Discard(st, k)
    <2>1. Discard(st, k).list = st.list /\ Discard(st, k).msg3 = st.msg3
      BY <1>1, DiscardIs
    <2>2. QED
      BY <1>3, <2>1 DEF Booked
  <1>4. CASE Visit(st, k, t, go, dci) = Answer(st, k, t)
    <2>1. PICK j \in Group(st, k) :
            /\ Answer(st, k, t) \in LoopState /\ RarOf(st, k, j) \in Rar
            /\ Answer(st, k, t).pend = Freed(st.pend, j)
            /\ Answer(st, k, t).msg3 = [st.msg3 EXCEPT ![Msg3Slot(t)] =
                                          [enabled |-> TRUE, rnti |-> st.pend[j].rnti]]
            /\ Answer(st, k, t).list = Append(st.list, RarOf(st, k, j))
      BY <1>1, AnswerIs, Zenon
    <2>2. Append(st.list, RarOf(st, k, j)) # << >>
      BY <1>1, <2>1
    <2>3. PICK v : v = Answer(st, k, t)
      OBVIOUS
    <2>4. /\ v.list # << >> /\ v.msg3[Msg3Slot(t)].enabled
          /\ \A s \in Slots : s # Msg3Slot(t) => v.msg3[s] = st.msg3[s]
      BY <1>1, <2>1, <2>2, <2>3
    <2>5. Booked(v, t)
      BY <2>4 DEF Booked
    <2>6. QED
      BY <1>4, <2>3, <2>5
  <1>5. QED
    BY <1>2, <1>3, <1>4, VisitCases

\* With at most one request in its window, at most one is answered, alone in its response.
RarFor(j) == [ra_id |-> pend[j].ra_id, rnti |-> pend[j].rnti, tti |-> pend[j].tti, n |-> 1]
Answered(st, t, j) ==
    pend[j].on /\ InWindow(pend[j].tti, t) /\ ~st.pend[j].on /\ st.list = <<RarFor(j)>>
Single(st, t) == st.list = << >> \/ \E j \in Indices : Answered(st, t, j)

Distinct == \A j, l \in Indices : pend[j].on /\ pend[l].on /\ pend[j].tti = pend[l].tti => j = l
Alone(t) == \A j, l \in Indices : pend[j].on /\ InWindow(pend[j].tti, t)
                                    /\ pend[l].on /\ InWindow(pend[l].tti, t) => j = l

LEMMA SingleStep ==
  ASSUME RaTypes, Stored, 0 \notin PrachTtis, NEW t \in Ttis, Distinct, Alone(t),
         NEW room, NEW k \in Indices, NEW dci, NEW go, NEW st, Looped(st, k, room, t), Single(st, t)
  PROVE  Single(Visit(st, k, t, go, dci), t)
  <1>1. /\ st \in LoopState /\ st.list \in Seq(Rar) /\ st.pend \in [Indices -> Requests]
        /\ st.pend[k].on => st.pend[k] = pend[k]
    BY DEF Looped, LoopState
  <1>2. CASE Visit(st, k, t, go, dci) = st
    BY <1>2
  <1>3. CASE Visit(st, k, t, go, dci) = Discard(st, k) /\ st.pend[k].on
    <2>1. PICK v : v = Discard(st, k)
      OBVIOUS
    <2>2. v.list = st.list /\ v.pend = Freed(st.pend, k)
      BY <1>1, <2>1, DiscardIs
    <2>3. \A j \in Indices : j # k => Freed(st.pend, k)[j] = st.pend[j]
      BY <1>1, FreedIs
    <2>4. ASSUME NEW j \in Indices, Answered(st, t, j)
          PROVE  Answered(v, t, j)
      <3>1. j # k
        BY <1>3, <2>4 DEF Answered
      <3>2. QED
        BY <2>2, <2>3, <2>4, <3>1 DEF Answered
    <2>5. Single(v, t)
      BY <2>2, <2>4 DEF Single
    <2>6. QED
      BY <1>3, <2>1, <2>5
  <1>4. CASE /\ Visit(st, k, t, go, dci) = Answer(st, k, t)
             /\ st.pend[k].on /\ InWindow(st.pend[k].tti, t)
    <2>1. st.list = << >>
      <3>1. ASSUME NEW j \in Indices, Answered(st, t, j)
            PROVE  FALSE
        <4>1. j = k
          BY <1>1, <1>4, <3>1 DEF Answered, Alone
        <4>2. QED
          BY <1>4, <3>1, <4>1 DEF Answered
      <3>2. QED
        BY <3>1 DEF Single
    <2>2. PICK j \in Group(st, k) :
            /\ Answer(st, k, t) \in LoopState /\ RarOf(st, k, j) \in Rar
            /\ Answer(st, k, t).pend = Freed(st.pend, j)
            /\ Answer(st, k, t).msg3 = [st.msg3 EXCEPT ![Msg3Slot(t)] =
                                          [enabled |-> TRUE, rnti |-> st.pend[j].rnti]]
            /\ Answer(st, k, t).list = Append(st.list, RarOf(st, k, j))
      BY <1>1, AnswerIs, Zenon
    <2>3. \A l \in Group(st, k) : l = k
      <3>1. ASSUME NEW l \in Group(st, k)
            PROVE  l = k
        <4>1. l \in Indices /\ pend[l].on /\ pend[l].tti = pend[k].tti /\ pend[k].on
          BY <1>1, <1>4, GroupPending
        <4>2. QED
          BY <4>1 DEF Distinct
      <3>2. QED
        BY <3>1
    <2>4. Cardinality(Group(st, k)) = 1 /\ j = k
      <3>1. Group(st, k) = {k}
        BY <2>3 DEF Group
      <3>2. Cardinality({k}) = 1
        BY FS_Singleton
      <3>3. QED
        BY <2>3, <3>1, <3>2
    <2>5. RarOf(st, k, j) = RarFor(k)
      BY <1>1, <1>4, <2>4 DEF RarOf, RarFor
    <2>6. Append(<< >>, RarFor(k)) = <<RarFor(k)>>
      OBVIOUS
    <2>7. ~Freed(st.pend, k)[k].on
      BY <1>1, FreedIs
    <2>8. PICK v : v = Answer(st, k, t)
      OBVIOUS
    <2>9. v.list = <<RarFor(k)>> /\ v.pend = Freed(st.pend, k)
      BY <1>1, <1>4, <2>1, <2>2, <2>4, <2>5, <2>6, <2>8
    <2>10. Answered(v, t, k)
      BY <1>1, <1>4, <2>7, <2>9 DEF Answered
    <2>11. QED
      BY <1>4, <2>8, <2>10 DEF Single
  <1>5. QED
    BY <1>2, <1>3, <1>4, VisitCases

\* What the loop of dl_sched_rar leaves.
LEMMA LoopResult ==
  ASSUME RaTypes, NEW t \in Ttis, NEW room \in Nat, NEW dci
  PROVE  LET st == Visited(t, room, dci)
         IN  /\ Looped(st, MaxPending, room, t) /\ Booked(st, t)
             /\ Stored /\ 0 \notin PrachTtis => Named(st)
             /\ Stored /\ 0 \notin PrachTtis /\ Distinct /\ Alone(t) => Single(st, t)
  <1>1. PICK a : Runs(a, t, room, dci) /\ Visited(t, room, dci) = a[MaxPending]
    BY LoopRuns
  <1> DEFINE Good(k) == /\ Looped(a[k], k, room, t) /\ Booked(a[k], t)
                        /\ Stored /\ 0 \notin PrachTtis => Named(a[k])
                        /\ Stored /\ 0 \notin PrachTtis /\ Distinct /\ Alone(t) => Single(a[k], t)
             S == {k \in 0 .. MaxPending : Good(k)}
  <1>2. MaxPending \in Nat /\ 0 \in 0 .. MaxPending /\ MaxPending \in 0 .. MaxPending
    BY Sizes
  <1>3. 0 \in S
    <2>1. a[0] = Start
      BY <1>1 DEF Runs
    <2>2. Looped(Start, 0, room, t)
      BY LoopStart
    <2>3. Start.list = << >> /\ Start.msg3 = msg3 /\ DOMAIN Start.list = {}
      BY EmptySeq DEF Start
    <2>4. Named(Start) /\ Booked(Start, t) /\ Single(Start, t)
      BY <2>3 DEF Named, Booked, Single
    <2>5. QED
      BY <1>2, <2>1, <2>2, <2>4
  <1>4. ASSUME NEW k \in 0 .. MaxPending - 1, k \in S
        PROVE  k + 1 \in S
    <2>1. Good(k)
      BY <1>4
    <2> HIDE DEF S
    <2>2. k \in Indices /\ k + 1 \in 1 .. MaxPending /\ (k + 1) - 1 = k
      BY <1>2 DEF Indices
    <2>3. PICK m : m = k + 1
      OBVIOUS
    <2>4. a[m] = Visit(a[m - 1], m - 1, t, m <= room, m - 1 \in dci)
      BY <1>1, <2>2, <2>3 DEF Runs
    <2>5. PICK go, d : go = (m <= room) /\ d = (k \in dci)
      OBVIOUS
    <2>6. a[m] = Visit(a[k], k, t, k + 1 <= room, k \in dci) /\ a[m] = Visit(a[k], k, t, go, d)
      BY <2>2, <2>3, <2>4, <2>5
    <2>7. Looped(a[m], m, room, t)
      <3>1. Looped(Visit(a[k], k, t, k + 1 <= room, d), k + 1, room, t)
        BY <2>1, <2>2, <2>5, LoopStep
      <3>2. QED
        BY <2>3, <2>5, <2>6, <3>1
    <2>11. Booked(a[m], t)
      BY <2>1, <2>2, <2>6, BookedStep
    <2>8. Stored /\ 0 \notin PrachTtis => Named(a[m])
      BY <2>1, <2>2, <2>6, NamedStep
    <2>9. Stored /\ 0 \notin PrachTtis /\ Distinct /\ Alone(t) => Single(a[m], t)
      BY <2>1, <2>2, <2>6, SingleStep
    <2>10. QED
      BY <2>2, <2>3, <2>7, <2>8, <2>9, <2>11 DEF S
  <1>5. MaxPending \in S
    <2> HIDE DEF S
    <2>1. \A k \in 0 .. MaxPending - 1 : k \in S => k + 1 \in S
      BY <1>4
    <2>2. QED
      BY <1>2, <1>3, <2>1, UpTo
  <1>6. QED
    BY <1>1, <1>5

-----------------------------------------------------------------------------
(* What the steps do.                                                      *)

\* The downlink TTI that the worker schedules.
DlTti == TtiAdd(tti, HarqDelay)

LEMMA Scheduled ==
  ASSUME RaTypes, DlSchedRar
  PROVE  \E st, room :
           /\ pend' = st.pend /\ msg3' = st.msg3 /\ granted' = st.list
           /\ DlTti \notin BusyTtis => room = MaxPending
           /\ Looped(st, MaxPending, room, DlTti) /\ Booked(st, DlTti)
           /\ Stored /\ 0 \notin PrachTtis => Named(st)
           /\ Stored /\ 0 \notin PrachTtis /\ Distinct /\ Alone(DlTti) => Single(st, DlTti)
  <1>1. PICK t \in Ttis : t = DlTti
    BY Sizes, TtiAddIs DEF DlTti, RaTypes, TypeOK
  <1>2. PICK room \in 0 .. MaxPending, dci \in SUBSET Indices :
          LET st == Visited(t, room, dci)
          IN  /\ t \in BusyTtis \/ (room = MaxPending /\ dci = Indices)
              /\ pend' = st.pend /\ msg3' = st.msg3 /\ granted' = st.list
    BY <1>1 DEF DlSchedRar, DlTti
  <1>3. room \in Nat
    BY Sizes
  <1>4. PICK st : st = Visited(t, room, dci)
    OBVIOUS
  <1>5. /\ Looped(st, MaxPending, room, t) /\ Booked(st, t)
        /\ Stored /\ 0 \notin PrachTtis => Named(st)
        /\ Stored /\ 0 \notin PrachTtis /\ Distinct /\ Alone(t) => Single(st, t)
    BY <1>3, <1>4, LoopResult
  <1>6. QED
    BY <1>1, <1>2, <1>4, <1>5

LEMMA FreeRarIs ==
  ASSUME RaTypes
  PROVE  FreeRar \in 0 .. MaxRars - 1
  <1> DEFINE T == {k \in 0 .. MaxRars - 1 : rars[k] = NoRnti \/ k = MaxRars - 1}
  <1>1. MaxRars \in Nat \ {0}
    BY Sizes
  <1>2. T \in SUBSET Nat /\ MaxRars - 1 \in T
    BY <1>1
  <1>3. PICK k \in T : \A l \in T : k <= l
    BY <1>2, LeastNat
  <1>4. \A l \in 0 .. k - 1 : rars[l] # NoRnti
    BY <1>1, <1>2, <1>3
  <1>5. \E n \in 0 .. MaxRars - 1 : /\ \A l \in 0 .. n - 1 : rars[l] # NoRnti
                                    /\ rars[n] = NoRnti \/ n = MaxRars - 1
    BY <1>3, <1>4
  <1>6. QED
    BY <1>5 DEF FreeRar

LEMMA RequestAdded ==
  ASSUME RaTypes, NEW request, AddRequest(request)
  PROVE  \/ pend' = pend
         \/ \E i \in Indices : ~pend[i].on /\ pend' = [pend EXCEPT ![i] = request]
  <1> DEFINE T == {j \in Indices : ~pend[j].on}
  <1>1. CASE T = {}
    BY <1>1 DEF AddRequest
  <1>2. CASE T # {}
    <2>1. T \in SUBSET Nat /\ Indices \subseteq Nat /\ \A j \in Indices : 0 .. j - 1 \subseteq Indices
      BY Sizes DEF Indices
    <2>2. PICK j \in T : \A l \in T : j <= l
      BY <1>2, <2>1, LeastNat
    <2>3. \A l \in 0 .. j - 1 : pend[l].on
      <3>1. \A l \in 0 .. j - 1 : l \in Indices /\ ~(j <= l)
        BY <2>1, <2>2
      <3>2. QED
        BY <2>2, <3>1
    <2>4. \E i \in Indices : ~pend[i].on /\ \A l \in 0 .. i - 1 : pend[l].on
      BY <2>2, <2>3
    <2> DEFINE i == CHOOSE i \in Indices : ~pend[i].on /\ \A l \in 0 .. i - 1 : pend[l].on
    <2>5. i \in Indices /\ ~pend[i].on
      BY <2>4
    <2>6. pend' = [pend EXCEPT ![i] = request]
      BY <2>4 DEF AddRequest
    <2>7. QED
      BY <2>5, <2>6
  <1>3. QED
    BY <1>1, <1>2

-----------------------------------------------------------------------------
(* Types, and what is scheduled is assembled at once.                      *)

LEMMA ReceiveTypes ==
  ASSUME RaTypes, Receive
  PROVE  RaTypes'
  <1>1. TypeOK /\ granted = << >>
    BY DEF RaTypes, Receive
  <1>2. tti' \in Ttis
    BY <1>1, TtiAddIs DEF TypeOK, Receive
  <1>3. buffers' \in Seq(PrachTtis) /\ Len(buffers') <= NofBuffers
    <2>1. NofBuffers \in Nat /\ buffers \in Seq(PrachTtis) /\ Len(buffers) \in Nat
      BY <1>1, Sizes, LenProperties DEF TypeOK
    <2>2. CASE buffers' = buffers
      BY <1>1, <2>2 DEF TypeOK
    <2>3. CASE /\ buffers' = Append(buffers, tti') /\ tti' \in PrachTtis
               /\ Len(buffers) + (IF prach.busy THEN 1 ELSE 0) < NofBuffers
      <3>1. Append(buffers, tti') \in Seq(PrachTtis) /\ Len(Append(buffers, tti')) = Len(buffers) + 1
        BY <2>1, <2>3, AppendProperties
      <3>2. QED
        BY <2>1, <2>3, <3>1
    <2>4. QED
      BY <2>2, <2>3 DEF Receive
  <1>4. /\ UNCHANGED <<prach, lastRnti, rars, pend, msg3, granted, due>>
        /\ sent' = {} /\ pc' = "dl"
    BY DEF Receive
  <1>5. TypeOK'
    BY <1>1, <1>2, <1>3, <1>4 DEF TypeOK
  <1>6. QED
    BY <1>1, <1>4, <1>5 DEF RaTypes

LEMMA PrachTypes ==
  ASSUME RaTypes, Prach
  PROVE  RaTypes'
  <1>1. /\ TypeOK
        /\ prach \in [busy : BOOLEAN, tti : Ttis, left : 0 .. MaxPreambles, ra_id : 0 .. MaxRars]
    BY DEF RaTypes, TypeOK
  <1>2. UNCHANGED <<tti, pc, worker>>
    BY DEF Prach, Detect, SaveRar, TriggerRach, BufferDone
  <1>3. CASE Detect
    <2>1. buffers \in Seq(PrachTtis) /\ buffers # << >>
      BY <1>1, <1>3 DEF Detect, TypeOK
    <2>2. /\ Head(buffers) \in PrachTtis /\ buffers' \in Seq(PrachTtis)
          /\ Len(buffers') = Len(buffers) - 1 /\ Len(buffers) \in Nat
      BY <1>3, <2>1, HeadTailProperties, LenProperties DEF Detect
    <2>3. PICK n \in 0 .. MaxPreambles :
            prach' = [busy |-> TRUE, tti |-> Head(buffers), left |-> n, ra_id |-> MaxRars]
      BY <1>3 DEF Detect
    <2>4. MaxRars \in 0 .. MaxRars /\ Head(buffers) \in Ttis /\ NofBuffers \in Nat
      <3>1. MaxRars \in Nat /\ NofBuffers \in Nat /\ PrachTtis \subseteq Ttis
        BY Sizes
      <3>2. QED
        BY <2>2, <3>1
    <2>5. prach' \in [busy : BOOLEAN, tti : Ttis, left : 0 .. MaxPreambles, ra_id : 0 .. MaxRars]
      BY <2>3, <2>4
    <2>6. TypeOK'
      BY <1>1, <1>2, <1>3, <2>2, <2>4, <2>5 DEF TypeOK, Detect, worker
    <2>7. QED
      BY <1>2, <2>3, <2>6 DEF RaTypes, worker
  <1>4. CASE SaveRar
    <2>1. FreeRar \in 0 .. MaxRars - 1 /\ FreeRar \in 0 .. MaxRars
      BY FreeRarIs, Sizes
    <2>2. /\ prach.left > 0 /\ prach' = [prach EXCEPT !.ra_id = FreeRar]
          /\ rars' = [rars EXCEPT ![FreeRar] = lastRnti]
          /\ UNCHANGED <<buffers, lastRnti, pend>>
      BY <1>4 DEF SaveRar
    <2>3. prach' \in [busy : BOOLEAN, tti : Ttis, left : 0 .. MaxPreambles, ra_id : 0 .. MaxRars]
      BY <1>1, <2>1, <2>2
    <2>4. rars' \in [0 .. MaxRars - 1 -> Rntis \cup {NoRnti}]
      BY <1>1, <2>2 DEF TypeOK
    <2>5. TypeOK'
      BY <1>1, <1>2, <2>2, <2>3, <2>4 DEF TypeOK, worker
    <2>6. prach'.left = prach.left /\ prach'.busy = prach.busy
      BY <1>1, <2>2
    <2>7. QED
      BY <1>2, <2>2, <2>5, <2>6 DEF RaTypes, worker
  <1>5. CASE TriggerRach
    <2>1. /\ prach.ra_id # MaxRars /\ prach.left > 0
          /\ prach' = [prach EXCEPT !.ra_id = MaxRars, !.left = @ - 1]
          /\ lastRnti' = (IF lastRnti = NofRntis THEN 1 ELSE lastRnti + 1)
          /\ UNCHANGED <<buffers, rars>>
      BY <1>5 DEF TriggerRach, RaTypes
    <2>2. /\ prach.left - 1 \in 0 .. MaxPreambles /\ MaxRars \in 0 .. MaxRars
          /\ prach.ra_id \in 0 .. MaxRars - 1
      <3>1. prach.left \in 0 .. MaxPreambles /\ prach.ra_id \in 0 .. MaxRars
        BY <1>1
      <3>2. MaxPreambles \in Nat /\ MaxRars \in Nat \ {0}
        BY Sizes
      <3>3. QED
        BY <2>1, <3>1, <3>2
    <2>3. prach' \in [busy : BOOLEAN, tti : Ttis, left : 0 .. MaxPreambles, ra_id : 0 .. MaxRars]
      BY <1>1, <2>1, <2>2
    <2>4. lastRnti' \in Rntis
      <3>1. lastRnti \in 1 .. NofRntis /\ NofRntis \in Nat \ {0}
        BY <1>1, Sizes DEF TypeOK, Rntis
      <3>2. lastRnti' \in 1 .. NofRntis
        BY <2>1, <3>1
      <3>3. QED
        BY <3>2 DEF Rntis
    <2> DEFINE request == [on |-> TRUE, ra_id |-> prach.ra_id, rnti |-> lastRnti, tti |-> prach.tti]
    <2>5. request \in Requests
      BY <1>1, <2>2 DEF TypeOK, Requests
    <2>6. AddRequest(request)
      BY <1>5 DEF TriggerRach
    <2> HIDE DEF request
    <2>7. pend' \in [Indices -> Requests]
      BY <1>1, <2>5, <2>6, RequestAdded DEF TypeOK
    <2>8. TypeOK'
      BY <1>1, <1>2, <2>1, <2>3, <2>4, <2>7 DEF TypeOK, worker
    <2>9. prach'.ra_id = MaxRars /\ prach'.busy = prach.busy /\ prach.busy
      BY <1>1, <2>1 DEF RaTypes
    <2>10. UNCHANGED <<tti, pc, granted, sent, msg3, due>>
      BY <1>2 DEF worker
    <2>11. QED
      BY <2>8, <2>9, <2>10 DEF RaTypes
  <1>6. CASE BufferDone
    <2>1. prach' = Idle /\ UNCHANGED <<buffers, lastRnti, rars, pend>>
      BY <1>6 DEF BufferDone
    <2>2. Idle \in [busy : BOOLEAN, tti : Ttis, left : 0 .. MaxPreambles, ra_id : 0 .. MaxRars]
      BY Sizes DEF Idle
    <2>3. TypeOK'
      BY <1>1, <1>2, <2>1, <2>2 DEF TypeOK, worker
    <2>4. QED
      BY <1>2, <2>1, <2>3 DEF RaTypes, worker, Idle
  <1>7. QED
    BY <1>3, <1>4, <1>5, <1>6 DEF Prach

LEMMA WorkerTypes ==
  ASSUME RaTypes, DlSchedRar \/ AssembleRar \/ Assembled \/ UlSched
  PROVE  RaTypes'
  <1>1. TypeOK /\ granted \in Seq(Rar) /\ sent \subseteq Sent
    BY DEF RaTypes
  <1>2. CASE DlSchedRar
    <2>1. PICK st : /\ pend' = st.pend /\ msg3' = st.msg3 /\ granted' = st.list
                    /\ st \in LoopState
      BY <1>2, Scheduled DEF Looped
    <2>2. /\ pend' \in [Indices -> Requests] /\ granted' \in Seq(Rar)
          /\ msg3' \in [Slots -> [enabled : BOOLEAN, rnti : Rntis \cup {NoRnti}]]
      BY <2>1 DEF LoopState, Msg3s
    <2>3. /\ UNCHANGED <<tti, buffers, prach, lastRnti, rars, sent, due>> /\ pc' = "rar"
      BY <1>2 DEF DlSchedRar
    <2>4. TypeOK'
      BY <1>1, <2>2, <2>3 DEF TypeOK
    <2>5. QED
      BY <1>1, <2>2, <2>3, <2>4 DEF RaTypes
  <1>3. CASE AssembleRar
    <2>1. PICK rar : rar = Head(granted)
      OBVIOUS
    <2>2. rar \in Rar /\ granted' \in Seq(Rar) /\ pc = "rar"
      BY <1>1, <1>3, <2>1, HeadTailProperties DEF AssembleRar
    <2>3. /\ rar.ra_id \in 0 .. MaxRars - 1 /\ rar.rnti \in Rntis \cup {NoRnti} /\ rar.tti \in Ttis
          /\ rars[rar.ra_id] \in Rntis \cup {NoRnti}
      BY <1>1, <2>2 DEF Rar, TypeOK
    <2>4. sent' = sent \cup {[rnti |-> rar.rnti, crnti |-> rars[rar.ra_id], tti |-> rar.tti]}
      BY <1>3, <2>1 DEF AssembleRar
    <2>5. sent' \subseteq Sent
      BY <1>1, <2>3, <2>4 DEF Sent
    <2>6. PICK s : due' = [due EXCEPT ![s] = @ \cup {rars[rar.ra_id]}]
      BY <1>3, <2>1 DEF AssembleRar
    <2>7. due' \in [Slots -> SUBSET (Rntis \cup {NoRnti})]
      BY <1>1, <2>3, <2>6 DEF TypeOK
    <2>8. rars' \in [0 .. MaxRars - 1 -> Rntis \cup {NoRnti}]
      <3>1. PICK K : rars' = [k \in DOMAIN rars |-> IF k \in K THEN NoRnti ELSE rars[k]]
        <4>1. PICK blank \in BOOLEAN :
                rars' = [k \in DOMAIN rars |->
                           IF k = rar.ra_id \/ (k = 0 /\ Blank(rar, blank)) THEN NoRnti ELSE rars[k]]
          BY <1>3, <2>1 DEF AssembleRar
        <4> DEFINE L == {k \in DOMAIN rars : k = rar.ra_id \/ (k = 0 /\ Blank(rar, blank))}
        <4>2. rars' = [k \in DOMAIN rars |-> IF k \in L THEN NoRnti ELSE rars[k]]
          BY <4>1
        <4> HIDE DEF L
        <4>3. QED
          BY <4>2
      <3>2. QED
        BY <1>1, <3>1 DEF TypeOK
    <2>9. UNCHANGED <<tti, pc, buffers, prach, lastRnti, pend, msg3>>
      BY <1>3 DEF AssembleRar
    <2>10. TypeOK'
      BY <1>1, <2>7, <2>8, <2>9 DEF TypeOK
    <2>11. QED
      BY <2>2, <2>5, <2>9, <2>10 DEF RaTypes
  <1>4. CASE Assembled
    <2>1. /\ UNCHANGED <<tti, buffers, prach, lastRnti, rars, pend, granted, sent, msg3, due>>
          /\ pc' = "ul" /\ granted = << >>
      BY <1>4 DEF Assembled, worker
    <2>2. TypeOK'
      BY <1>1, <2>1 DEF TypeOK
    <2>3. QED
      BY <2>1, <2>2 DEF RaTypes
  <1>5. CASE UlSched
    <2>1. PICK s : /\ msg3' = [msg3 EXCEPT ![s].enabled = FALSE]
                   /\ due' = [due EXCEPT ![s] = {}]
      BY <1>5 DEF UlSched
    <2>2. /\ UNCHANGED <<tti, buffers, prach, lastRnti, rars, pend, granted, sent>>
          /\ pc' = "rx" /\ pc = "ul" /\ granted = << >>
      BY <1>5 DEF UlSched, RaTypes
    <2>3. msg3' = [msg3 EXCEPT ![s] = [msg3[s] EXCEPT !.enabled = FALSE]]
      BY <2>1
    <2>4. msg3' \in [Slots -> [enabled : BOOLEAN, rnti : Rntis \cup {NoRnti}]]
      BY <1>1, <2>3 DEF TypeOK
    <2>5. due' \in [Slots -> SUBSET (Rntis \cup {NoRnti})]
      BY <1>1, <2>1 DEF TypeOK
    <2>6. TypeOK'
      BY <1>1, <2>2, <2>4, <2>5 DEF TypeOK
    <2>7. QED
      BY <2>2, <2>6 DEF RaTypes
  <1>6. QED
    BY <1>2, <1>3, <1>4, <1>5

LEMMA TypesNext ==
  ASSUME RaTypes, [Next]_vars
  PROVE  RaTypes'
  <1>1. CASE UNCHANGED vars
    BY <1>1 DEF vars, RaTypes, TypeOK
  <1>2. QED
    BY <1>1, ReceiveTypes, PrachTypes, WorkerTypes DEF Next, Worker

LEMMA TypesInit == Init => RaTypes
  <1> SUFFICES ASSUME Init PROVE RaTypes
    OBVIOUS
  <1>1. /\ tti \in Ttis /\ pc = "rx" /\ buffers = << >> /\ prach = Idle /\ lastRnti = 1
        /\ rars = [k \in 0 .. MaxRars - 1 |-> NoRnti] /\ pend = [j \in Indices |-> NoRequest]
        /\ msg3 = [s \in Slots |-> NoMsg3] /\ granted = << >> /\ sent = {}
        /\ due = [s \in Slots |-> {}]
    BY DEF Init
  <1>2. buffers \in Seq(PrachTtis) /\ Len(buffers) <= NofBuffers /\ granted \in Seq(Rar)
    BY <1>1, EmptySeq, Sizes
  <1>3. NoRequest \in Requests /\ 1 \in Rntis
    BY Sizes DEF NoRequest, Requests, Rntis
  <1>4. prach \in [busy : BOOLEAN, tti : Ttis, left : 0 .. MaxPreambles, ra_id : 0 .. MaxRars]
    BY <1>1, Sizes DEF Idle
  <1>5. NoMsg3 \in [enabled : BOOLEAN, rnti : Rntis \cup {NoRnti}]
    BY DEF NoMsg3
  <1>6. TypeOK
    BY <1>1, <1>2, <1>3, <1>4, <1>5 DEF TypeOK
  <1>7. QED
    BY <1>1, <1>2, <1>6 DEF RaTypes, Idle

-----------------------------------------------------------------------------
(* The window, and the requests that are stored.                           *)

\* The worker's handlers leave the TTI as it is.
LEMMA TtiStays ==
  ASSUME Prach \/ DlSchedRar \/ AssembleRar \/ Assembled \/ UlSched \/ UNCHANGED vars
  PROVE  tti' = tti
  BY DEF Prach, Detect, SaveRar, TriggerRach, BufferDone, DlSchedRar, AssembleRar, Assembled,
         UlSched, vars

LEMMA InTimeNext ==
  ASSUME RaTypes, InTime, [Next]_vars
  PROVE  InTime'
  <1>1. CASE Receive
    <2>1. granted = << >> /\ granted' = granted /\ sent' = {}
      BY <1>1 DEF Receive, RaTypes
    <2>2. DOMAIN granted' = {}
      BY <2>1, EmptySeq
    <2>3. QED
      BY <2>1, <2>2 DEF InTime
  <1>2. CASE DlSchedRar
    <2>1. PICK st, room : granted' = st.list /\ Looped(st, MaxPending, room, DlTti)
      BY <1>2, Scheduled
    <2>2. tti' = tti /\ sent' = sent
      BY <1>2 DEF DlSchedRar
    <2>3. \A k \in DOMAIN granted' : Age(DlTti, granted'[k].tti) \in Lead .. Lead + Window
      BY <2>1 DEF Looped
    <2>4. QED
      BY <2>2, <2>3 DEF InTime, Answerable, DlTti
  <1>3. CASE AssembleRar
    <2>1. granted \in Seq(Rar) /\ granted # << >> /\ granted' = Tail(granted) /\ tti' = tti
      BY <1>3 DEF RaTypes, AssembleRar
    <2>2. PICK rar : /\ rar = Head(granted)
                     /\ sent' = sent \cup {[rnti |-> rar.rnti, crnti |-> rars[rar.ra_id],
                                            tti |-> rar.tti]}
      BY <1>3 DEF AssembleRar
    <2>3. /\ Len(granted) \in Nat \ {0} /\ DOMAIN granted = 1 .. Len(granted) /\ rar = granted[1]
          /\ granted' \in Seq(Rar) /\ Len(granted') = Len(granted) - 1
          /\ \A i \in 1 .. Len(granted') : granted'[i] = granted[i + 1]
      BY <2>1, <2>2, HeadTailProperties, LenProperties, EmptySeq
    <2>4. DOMAIN granted' = 1 .. Len(granted')
      BY <2>3, LenProperties
    <2>5. 1 \in DOMAIN granted /\ \A i \in DOMAIN granted' : i + 1 \in DOMAIN granted
      BY <2>3, <2>4
    <2>6. \A r \in sent' : r \in sent \/ r.tti = granted[1].tti
      BY <2>2, <2>3
    <2>7. QED
      BY <2>1, <2>3, <2>4, <2>5, <2>6 DEF InTime, Answerable
  <1>4. CASE Prach \/ Assembled \/ UlSched \/ UNCHANGED vars
    <2>1. tti' = tti /\ granted' = granted /\ sent' = sent
      BY <1>4 DEF Prach, Detect, SaveRar, TriggerRach, BufferDone, Assembled, UlSched, vars, worker
    <2>2. QED
      BY <2>1 DEF InTime, Answerable
  <1>5. QED
    BY <1>1, <1>2, <1>3, <1>4 DEF Next, Worker

LEMMA StoredNext ==
  ASSUME RaTypes, Stored, [Next]_vars
  PROVE  Stored'
  <1>1. CASE Detect
    <2>1. Head(buffers) \in PrachTtis
      BY <1>1, HeadTailProperties DEF Detect, RaTypes, TypeOK
    <2>2. prach'.tti = Head(buffers) /\ pend' = pend
      BY <1>1 DEF Detect
    <2>3. QED
      BY <2>1, <2>2 DEF Stored
  <1>2. CASE TriggerRach
    <2> DEFINE request == [on |-> TRUE, ra_id |-> prach.ra_id, rnti |-> lastRnti, tti |-> prach.tti]
    <2>1. /\ AddRequest(request) /\ prach.ra_id # MaxRars
          /\ prach' = [prach EXCEPT !.ra_id = MaxRars, !.left = @ - 1]
      BY <1>2 DEF TriggerRach
    <2>2. /\ prach'.busy = prach.busy /\ prach'.tti = prach.tti /\ prach.busy
          /\ prach.tti \in PrachTtis /\ pend \in [Indices -> Requests]
      BY <2>1 DEF RaTypes, TypeOK, Stored
    <2>3. request.on /\ request.tti = prach.tti
      OBVIOUS
    <2> HIDE DEF request
    <2>4. \A j \in Indices : pend'[j] = pend[j] \/ pend'[j] = request
      BY <2>1, <2>2, RequestAdded
    <2>5. \A j \in Indices : IF pend'[j].on THEN pend'[j].tti \in PrachTtis ELSE pend'[j].tti = 0
      BY <2>2, <2>3, <2>4 DEF Stored
    <2>6. QED
      BY <2>2, <2>5 DEF Stored
  <1>3. CASE DlSchedRar
    <2>1. PICK st, room : pend' = st.pend /\ Looped(st, MaxPending, room, DlTti)
      BY <1>3, Scheduled
    <2>2. \A j \in Indices : pend'[j] = pend[j] \/ (~pend'[j].on /\ pend'[j].tti = 0)
      BY <2>1 DEF Looped
    <2>3. prach' = prach
      BY <1>3 DEF DlSchedRar
    <2>4. QED
      BY <2>2, <2>3 DEF Stored
  <1>4. CASE SaveRar \/ BufferDone
    <2>1. pend' = pend /\ (prach'.busy => prach.busy /\ prach'.tti = prach.tti)
      BY <1>4 DEF SaveRar, BufferDone, Idle, RaTypes, TypeOK
    <2>2. QED
      BY <2>1 DEF Stored
  <1>5. CASE Receive \/ AssembleRar \/ Assembled \/ UlSched \/ UNCHANGED vars
    <2>1. pend' = pend /\ prach' = prach
      BY <1>5 DEF Receive, AssembleRar, Assembled, UlSched, vars
    <2>2. QED
      BY <2>1 DEF Stored
  <1>6. QED
    BY <1>1, <1>2, <1>3, <1>4, <1>5 DEF Next, Worker, Prach

LEMMA BaseIsInvariant == Spec => [](RaTypes /\ InTime /\ Stored)
  <1>1. Init => RaTypes /\ InTime /\ Stored
    <2> SUFFICES ASSUME Init PROVE InTime /\ Stored
      BY TypesInit
    <2>1. granted = << >> /\ sent = {} /\ prach = Idle /\ pend = [j \in Indices |-> NoRequest]
      BY DEF Init
    <2>2. DOMAIN granted = {}
      BY <2>1, EmptySeq
    <2>3. QED
      BY <2>1, <2>2 DEF InTime, Stored, Idle, NoRequest
  <1>2. RaTypes /\ InTime /\ Stored /\ [Next]_vars => (RaTypes /\ InTime /\ Stored)'
    BY TypesNext, InTimeNext, StoredNext
  <1>3. QED
    BY <1>1, <1>2, PTL DEF Spec

\* What the PRACH thread and the scheduler share has its types, and a random access response
\* is assembled in the TTI it was scheduled in.
THEOREM RaTypeCorrect == Spec => []TypeOK
  <1>1. RaTypes => TypeOK
    BY DEF RaTypes
  <1>2. QED
    BY <1>1, BaseIsInvariant, PTL

\* The window test of dl_sched_rar (scheduler.cc:607), on TTIs that wrap, with requests stored
\* late and kept for want of room: a response is sent within the window of its preamble.
THEOREM AnswersInWindow == Spec => []AnsweredInWindow
  <1>1. InTime => AnsweredInWindow
    BY DEF InTime, Answerable, AnsweredInWindow
  <1>2. QED
    BY <1>1, BaseIsInvariant, PTL

\* "Find all pending RARs with same transmission TTI" (scheduler.cc:613) compares the TTIs of all
\* slots, also of free ones, which hold TTI 0: when that is no opportunity, what is
\* answered was pending.
THEOREM AnswersArePending ==
  ASSUME 0 \notin PrachTtis
  PROVE  Spec => AnswersPending
  <1> DEFINE A == \A k \in DOMAIN granted' \ DOMAIN granted :
                    \E j \in Indices : pend[j].on /\ pend[j].rnti = granted'[k].rnti
  <1>1. ASSUME RaTypes, Stored, [Next]_vars
        PROVE  A
    <2>1. CASE DlSchedRar
      <3>1. PICK st, room : granted' = st.list /\ Named(st)
        BY <1>1, <2>1, Scheduled
      <3>2. QED
        BY <3>1 DEF Named
    <2>2. CASE AssembleRar
      <3>1. granted \in Seq(Rar) /\ granted # << >> /\ granted' = Tail(granted)
        BY <1>1, <2>2 DEF RaTypes, AssembleRar
      <3>2. DOMAIN granted' \subseteq DOMAIN granted
        <4>1. /\ granted' \in Seq(Rar) /\ Len(granted') = Len(granted) - 1 /\ Len(granted) \in Nat
              /\ DOMAIN granted = 1 .. Len(granted)
          BY <3>1, HeadTailProperties, LenProperties
        <4>2. DOMAIN granted' = 1 .. Len(granted')
          BY <4>1, LenProperties
        <4>3. QED
          BY <4>1, <4>2
      <3>3. QED
        BY <3>2
    <2>3. CASE Prach \/ Receive \/ Assembled \/ UlSched \/ UNCHANGED vars
      <3>1. granted' = granted
        BY <2>3 DEF Prach, Detect, SaveRar, TriggerRach, BufferDone, Receive, Assembled, UlSched,
                    vars, worker
      <3>2. QED
        BY <3>1
    <2>4. QED
      BY <1>1, <2>1, <2>2, <2>3 DEF Next, Worker
  <1>2. (RaTypes /\ Stored) /\ [Next]_vars => [A]_vars
    BY <1>1
  <1>3. Spec => [][A]_vars
    BY <1>2, BaseIsInvariant, PTL DEF Spec
  <1>4. QED
    BY <1>3 DEF AnswersPending

-----------------------------------------------------------------------------
(* The order of the opportunities.                                         *)

\* What is in the hands of the PRACH thread or requested is less than a hyperframe old.
LEMMA Young ==
  ASSUME RaTypes, RoomComes, Stored, Ordered
  PROVE  /\ \A n \in Late : /\ n \in PrachTtis /\ n \in Ttis /\ Old(n) \in Nat /\ Old(n) <= MaxLag
                            /\ MaxLag + HarqDelay + 1 < TtiMod
         /\ \A j \in Indices : pend[j].on =>
              /\ pend[j].tti \in PrachTtis /\ pend[j].tti \in Ttis /\ Old(pend[j].tti) \in Nat
              /\ Old(pend[j].tti) + HarqDelay < TtiMod
              /\ Age(DlTti, pend[j].tti) = Old(pend[j].tti) + HarqDelay
  <1>1. tti \in Ttis /\ buffers \in Seq(PrachTtis)
    BY DEF RaTypes, TypeOK
  <1>2. \A n \in PrachTtis : /\ n \in Ttis /\ Old(n) \in Nat
                             /\ \E d \in Clear(n) : TRUE
    BY <1>1, Sizes, AgeIs DEF Old, RoomComes
  <1>3. ASSUME NEW n \in PrachTtis, NEW d \in Clear(n)
        PROVE  d \in Nat /\ d > MaxLag /\ d + HarqDelay < TtiMod /\ MaxLag + HarqDelay + 1 < TtiMod
    BY Sizes DEF Clear
  <1>4. \A n \in Late : n \in PrachTtis
    <2>1. \A i \in DOMAIN buffers : buffers[i] \in PrachTtis
      BY <1>1
    <2>2. QED
      BY <2>1 DEF Late, ToSet, Stored
  <1>5. ASSUME NEW j \in Indices, pend[j].on
        PROVE  /\ pend[j].tti \in PrachTtis /\ pend[j].tti \in Ttis /\ Old(pend[j].tti) \in Nat
               /\ Old(pend[j].tti) + HarqDelay < TtiMod
               /\ Age(DlTti, pend[j].tti) = Old(pend[j].tti) + HarqDelay
    <2>1. PICK n \in PrachTtis : n = pend[j].tti
      BY <1>5 DEF Stored
    <2>2. PICK d \in Clear(n) : TRUE
      BY <1>2
    <2>3. Old(n) < d \/ Old(n) = d
      BY <1>5, <2>1, <2>2 DEF Ordered
    <2>4. Old(n) + HarqDelay < TtiMod
      BY <1>2, <1>3, <2>2, <2>3, Sizes
    <2>5. Age(DlTti, n) = Old(n) + HarqDelay
      BY <1>1, <1>2, <2>4, Sizes, Ageing DEF Old, DlTti
    <2>6. QED
      BY <1>2, <2>1, <2>4, <2>5
  <1>6. ASSUME NEW n \in Late
        PROVE  /\ n \in PrachTtis /\ n \in Ttis /\ Old(n) \in Nat /\ Old(n) <= MaxLag
               /\ MaxLag + HarqDelay + 1 < TtiMod
    <2>1. n \in PrachTtis
      BY <1>4
    <2>2. PICK d \in Clear(n) : TRUE
      BY <1>2, <2>1
    <2>3. QED
      BY <1>2, <1>3, <2>1, <2>2 DEF Ordered
  <1>7. QED
    BY <1>5, <1>6

\* A TTI later.
LEMMA ReceiveAges ==
  ASSUME RaTypes, RoomComes, Stored, Ordered, Receive
  PROVE  /\ \A n \in Late : Old(n)' = Old(n) + 1 /\ Old(n) < MaxLag
         /\ \A j \in Indices : pend[j].on => Age(tti', pend[j].tti) = Old(pend[j].tti) + 1
         /\ Age(tti', tti') = 0 /\ tti' \in Ttis
  <1>1. tti \in Ttis /\ tti' = TtiAdd(tti, 1) /\ tti' \in Ttis
    BY TtiAddIs DEF RaTypes, TypeOK, Receive
  <1>2. ASSUME NEW n \in Ttis, Old(n) + 1 < TtiMod
        PROVE  Age(tti', n) = Old(n) + 1
    BY <1>1, <1>2, Ageing DEF Old
  <1>3. ASSUME NEW n \in Late
        PROVE  Old(n)' = Old(n) + 1 /\ Old(n) < MaxLag
    <2>1. n \in Ttis /\ Old(n) \in Nat /\ Old(n) <= MaxLag /\ MaxLag + HarqDelay + 1 < TtiMod
      BY Young
    <2>2. Old(n) < MaxLag
      BY DEF Receive, Old
    <2>3. Age(tti', n) = Old(n) + 1
      BY <1>2, <2>1, Sizes
    <2>4. QED
      BY <2>2, <2>3 DEF Old
  <1>4. ASSUME NEW j \in Indices, pend[j].on
        PROVE  Age(tti', pend[j].tti) = Old(pend[j].tti) + 1
    <2>1. PICK n : n = pend[j].tti
      OBVIOUS
    <2>2. n \in PrachTtis /\ n \in Ttis /\ Old(n) \in Nat
      BY <1>4, <2>1, Young
    <2>3. PICK d \in Clear(n) : TRUE
      BY <2>2 DEF RoomComes
    <2>4. Old(n) < d
      BY <1>4, <2>1, <2>3 DEF Ordered, Receive
    <2>5. d + HarqDelay < TtiMod /\ d \in Nat
      BY <2>3, Sizes DEF Clear
    <2>6. Age(tti', n) = Old(n) + 1
      BY <1>2, <2>2, <2>4, <2>5, Sizes
    <2>7. QED
      BY <2>1, <2>6
  <1>5. QED
    BY <1>1, <1>3, <1>4, AgesApart

LEMMA OrderedReceive ==
  ASSUME RaTypes, RoomComes, Stored, Ordered, Receive
  PROVE  Ordered'
  <1>1. /\ \A n \in Late : Old(n)' = Old(n) + 1 /\ Old(n) < MaxLag
        /\ \A j \in Indices : pend[j].on => Age(tti', pend[j].tti) = Old(pend[j].tti) + 1
        /\ Age(tti', tti') = 0 /\ MaxLag \in Nat
    BY ReceiveAges, Sizes
  <1>2. /\ \A n \in Late : Old(n) \in Nat
        /\ \A j \in Indices : pend[j].on => Old(pend[j].tti) \in Nat
    BY Young
  <1>3. prach' = prach /\ pend' = pend /\ pc = "rx" /\ pc' = "dl"
    BY DEF Receive
  <1> DEFINE n == Len(buffers)
  <1>4. /\ n \in Nat /\ DOMAIN buffers = 1 .. n
        /\ \A i \in 1 .. n : buffers[i] \in Late
        /\ prach.busy => prach.tti \in Late
    BY LenProperties DEF RaTypes, TypeOK, Late, ToSet
  <1>5. \/ buffers' = buffers
        \/ /\ DOMAIN buffers' = 1 .. n + 1 /\ buffers'[n + 1] = tti'
           /\ \A i \in 1 .. n : buffers'[i] = buffers[i]
    <2>1. CASE buffers' = buffers
      BY <2>1
    <2>2. CASE buffers' = Append(buffers, tti') /\ tti' \in PrachTtis
      <3>1. buffers \in Seq(PrachTtis)
        BY DEF RaTypes, TypeOK
      <3>2. PICK s : s = Append(buffers, tti')
        OBVIOUS
      <3>3. PICK x \in PrachTtis : x = tti'
        BY <2>2
      <3>4. /\ s \in Seq(PrachTtis) /\ Len(s) = n + 1 /\ s[n + 1] = x
            /\ \A i \in 1 .. n : s[i] = buffers[i]
        BY <3>1, <3>2, <3>3, AppendProperties
      <3>5. DOMAIN s = 1 .. n + 1
        BY <3>4, LenProperties
      <3>6. QED
        BY <2>2, <3>2, <3>3, <3>4, <3>5
    <2>3. QED
      BY <2>1, <2>2 DEF Receive
  <1> HIDE DEF n
  <1>6. \A i \in DOMAIN buffers' :
          \/ /\ i \in 1 .. n /\ buffers'[i] = buffers[i]
             /\ Age(tti', buffers'[i]) = Old(buffers[i]) + 1
          \/ i = n + 1 /\ buffers'[i] = tti'
    <2>1. \A i \in 1 .. n : Age(tti', buffers[i]) = Old(buffers[i]) + 1
      BY <1>1, <1>4 DEF Old
    <2>2. QED
      BY <1>4, <1>5, <2>1
  <1>7. \A m \in Late' : Age(tti', m) <= MaxLag
    <2>1. \A m \in Late' : m \in Late \/ m = tti'
      BY <1>3, <1>4, <1>6 DEF Late, ToSet
    <2>2. \A m \in Late : Age(tti', m) = Old(m) + 1
      BY <1>1 DEF Old
    <2>3. QED
      BY <1>1, <1>2, <2>1, <2>2
  <1>8. \A i, k \in DOMAIN buffers' : i < k => Age(tti', buffers'[i]) > Age(tti', buffers'[k])
    <2>1. SUFFICES ASSUME NEW i \in DOMAIN buffers', NEW k \in DOMAIN buffers', i < k
                   PROVE  Age(tti', buffers'[i]) > Age(tti', buffers'[k])
      OBVIOUS
    <2>2. i \in 1 .. n /\ Age(tti', buffers'[i]) = Old(buffers[i]) + 1 /\ Old(buffers[i]) \in Nat
      BY <1>2, <1>4, <1>6, <2>1
    <2>3. CASE k \in 1 .. n /\ Age(tti', buffers'[k]) = Old(buffers[k]) + 1
      <3>1. Old(buffers[i]) > Old(buffers[k]) /\ Old(buffers[k]) \in Nat
        BY <1>2, <1>4, <2>1, <2>2, <2>3 DEF Ordered
      <3>2. QED
        BY <2>2, <2>3, <3>1
    <2>4. CASE buffers'[k] = tti'
      BY <1>1, <2>2, <2>4
    <2>5. QED
      BY <1>6, <2>3, <2>4
  <1>9. ASSUME NEW x, NEW a \in Nat, Age(tti', x) = a + 1,
               \A i \in DOMAIN buffers : a > Old(buffers[i])
        PROVE  \A i \in DOMAIN buffers' : Age(tti', x) > Age(tti', buffers'[i])
    <2>1. SUFFICES ASSUME NEW i \in DOMAIN buffers'
                   PROVE  Age(tti', x) > Age(tti', buffers'[i])
      OBVIOUS
    <2>2. CASE i \in 1 .. n /\ Age(tti', buffers'[i]) = Old(buffers[i]) + 1
      <3>1. a > Old(buffers[i]) /\ Old(buffers[i]) \in Nat
        BY <1>2, <1>4, <1>9, <2>2
      <3>2. QED
        BY <1>9, <2>2, <3>1
    <2>3. CASE buffers'[i] = tti'
      BY <1>1, <1>9, <2>3
    <2>4. QED
      BY <1>6, <2>2, <2>3
  <1>10. prach'.busy => \A i \in DOMAIN buffers' : Age(tti', prach'.tti) > Age(tti', buffers'[i])
    <2>1. ASSUME prach.busy
          PROVE  \A i \in DOMAIN buffers' : Age(tti', prach.tti) > Age(tti', buffers'[i])
      <3>1. /\ Age(tti', prach.tti) = Old(prach.tti) + 1 /\ Old(prach.tti) \in Nat
            /\ \A i \in DOMAIN buffers : Old(prach.tti) > Old(buffers[i])
        BY <1>1, <1>2, <1>4, <2>1 DEF Ordered, Old
      <3>2. QED
        BY <1>9, <3>1
    <2>2. QED
      BY <1>3, <2>1
  <1>11. ASSUME NEW j \in Indices, pend'[j].on
         PROVE  /\ \A i \in DOMAIN buffers' : Age(tti', pend'[j].tti) > Age(tti', buffers'[i])
                /\ \A d \in Clear(pend'[j].tti) : \/ Age(tti', pend'[j].tti) < d
                                                  \/ Age(tti', pend'[j].tti) = d /\ pc' = "dl"
    <2>1. PICK x : x = pend[j].tti /\ x = pend'[j].tti
      BY <1>3
    <2>2. /\ Age(tti', x) = Old(x) + 1 /\ Old(x) \in Nat
          /\ \A i \in DOMAIN buffers : Old(x) > Old(buffers[i])
          /\ \A d \in Clear(x) : Old(x) < d
      BY <1>1, <1>2, <1>3, <1>11, <2>1 DEF Ordered
    <2>3. \A i \in DOMAIN buffers' : Age(tti', x) > Age(tti', buffers'[i])
      BY <1>9, <2>2
    <2>4. \A d \in Clear(x) : d \in Nat
      BY Sizes DEF Clear
    <2>5. \A d \in Clear(x) : Age(tti', x) < d \/ Age(tti', x) = d
      BY <2>2, <2>4
    <2>6. QED
      BY <1>3, <2>1, <2>3, <2>5
  <1>12. QED
    BY <1>7, <1>8, <1>10, <1>11 DEF Ordered, Old

\* A step within the TTI that stores no request and takes no buffer.
LEMMA OrderedStays ==
  ASSUME Ordered, tti' = tti, buffers' = buffers,
         prach'.busy => prach.busy /\ prach'.tti = prach.tti,
         \A j \in Indices : pend'[j].on => pend'[j] = pend[j],
         pc = "dl" => pc' = "dl"
  PROVE  Ordered'
  <1>1. Late' \subseteq Late
    BY DEF Late, ToSet
  <1>2. \A n \in Late' : Age(tti', n) <= MaxLag
    BY <1>1 DEF Ordered, Old
  <1>3. /\ \A i, k \in DOMAIN buffers' : i < k => Age(tti', buffers'[i]) > Age(tti', buffers'[k])
        /\ prach'.busy => \A i \in DOMAIN buffers' : Age(tti', prach'.tti) > Age(tti', buffers'[i])
    BY DEF Ordered, Old
  <1>4. ASSUME NEW j \in Indices, pend'[j].on
        PROVE  /\ \A i \in DOMAIN buffers' : Age(tti', pend'[j].tti) > Age(tti', buffers'[i])
               /\ \A d \in Clear(pend'[j].tti) : \/ Age(tti', pend'[j].tti) < d
                                                 \/ Age(tti', pend'[j].tti) = d /\ pc' = "dl"
    <2>1. pend'[j] = pend[j]
      BY <1>4
    <2>2. QED
      BY <1>4, <2>1 DEF Ordered, Old
  <1>5. QED
    BY <1>2, <1>3, <1>4 DEF Ordered, Old

LEMMA OrderedDetect ==
  ASSUME RaTypes, Ordered, Detect
  PROVE  Ordered'
  <1>1. /\ tti' = tti /\ pc' = pc /\ pend' = pend /\ buffers' = Tail(buffers)
        /\ prach'.tti = Head(buffers) /\ buffers # << >> /\ buffers \in Seq(PrachTtis)
    BY DEF Detect, RaTypes, TypeOK
  <1>2. /\ Len(buffers) \in Nat \ {0} /\ DOMAIN buffers = 1 .. Len(buffers)
        /\ prach'.tti = buffers[1]
        /\ buffers' \in Seq(PrachTtis) /\ Len(buffers') = Len(buffers) - 1
        /\ \A i \in 1 .. Len(buffers') : buffers'[i] = buffers[i + 1]
    BY <1>1, HeadTailProperties, LenProperties, EmptySeq
  <1>3. DOMAIN buffers' = 1 .. Len(buffers')
    BY <1>2, LenProperties
  <1>4. /\ 1 \in DOMAIN buffers
        /\ \A i \in DOMAIN buffers' : /\ i + 1 \in DOMAIN buffers /\ i \in Nat /\ 1 < i + 1
                                      /\ buffers'[i] = buffers[i + 1]
    BY <1>2, <1>3
  <1>5. \A n \in Late' : Age(tti', n) <= MaxLag
    <2>1. Late' \subseteq Late
      BY <1>2, <1>4 DEF Late, ToSet
    <2>2. QED
      BY <1>1, <2>1 DEF Ordered, Old
  <1>6. \A i, k \in DOMAIN buffers' : i < k => Age(tti', buffers'[i]) > Age(tti', buffers'[k])
    <2>1. \A i, k \in DOMAIN buffers' : i < k => i + 1 < k + 1
      BY <1>4
    <2>2. QED
      BY <1>1, <1>4, <2>1 DEF Ordered, Old
  <1>7. \A i \in DOMAIN buffers' : Age(tti', prach'.tti) > Age(tti', buffers'[i])
    BY <1>1, <1>2, <1>4 DEF Ordered, Old
  <1>8. ASSUME NEW j \in Indices, pend[j].on
        PROVE  /\ \A i \in DOMAIN buffers' : Age(tti', pend[j].tti) > Age(tti', buffers'[i])
               /\ \A d \in Clear(pend[j].tti) : \/ Age(tti', pend[j].tti) < d
                                                \/ Age(tti', pend[j].tti) = d /\ pc' = "dl"
    BY <1>1, <1>4, <1>8 DEF Ordered, Old
  <1>9. QED
    BY <1>1, <1>5, <1>6, <1>7, <1>8 DEF Ordered, Old

LEMMA OrderedTrigger ==
  ASSUME RaTypes, Stored, RoomComes, Ordered, TriggerRach
  PROVE  Ordered'
  <1> DEFINE request == [on |-> TRUE, ra_id |-> prach.ra_id, rnti |-> lastRnti, tti |-> prach.tti]
  <1>1. /\ tti' = tti /\ pc' = pc /\ buffers' = buffers
        /\ prach'.busy = prach.busy /\ prach'.tti = prach.tti /\ prach.busy
        /\ pend \in [Indices -> Requests] /\ AddRequest(request)
    BY DEF TriggerRach, RaTypes, TypeOK, worker
  <1>2. request.tti = prach.tti
    OBVIOUS
  <1> HIDE DEF request
  <1>3. \A j \in Indices : pend'[j] = pend[j] \/ pend'[j].tti = prach.tti
    BY <1>1, <1>2, RequestAdded
  <1>4. Late' = Late
    BY <1>1 DEF Late, ToSet
  <1>5. Old(prach.tti) \in Nat /\ Old(prach.tti) <= MaxLag
    <2>1. prach.tti \in Late
      BY <1>1 DEF Late
    <2>2. QED
      BY <2>1, Young
  <1>6. \A d \in Clear(prach.tti) : Old(prach.tti) < d
    BY <1>5, Sizes DEF Clear
  <1>7. ASSUME NEW j \in Indices, pend'[j].on
        PROVE  /\ \A i \in DOMAIN buffers' : Age(tti', pend'[j].tti) > Age(tti', buffers'[i])
               /\ \A d \in Clear(pend'[j].tti) : \/ Age(tti', pend'[j].tti) < d
                                                 \/ Age(tti', pend'[j].tti) = d /\ pc' = "dl"
    <2>1. CASE pend'[j] = pend[j]
      BY <1>1, <1>7, <2>1 DEF Ordered, Old
    <2>2. CASE pend'[j].tti = prach.tti
      BY <1>1, <1>6, <2>2 DEF Ordered, Old
    <2>3. QED
      BY <1>3, <2>1, <2>2
  <1>8. QED
    BY <1>1, <1>4, <1>7 DEF Ordered, Old

\* A request whose TTI is clear is out of its window, and the loop comes to it.
LEMMA OrderedSched ==
  ASSUME RaTypes, Stored, RoomComes, Ordered, DlSchedRar
  PROVE  Ordered'
  <1>1. PICK st, room : /\ pend' = st.pend /\ (DlTti \notin BusyTtis => room = MaxPending)
                        /\ Looped(st, MaxPending, room, DlTti)
    BY Scheduled
  <1>2. /\ tti' = tti /\ pc' = "rar" /\ buffers' = buffers /\ prach' = prach /\ tti \in Ttis
    BY DEF DlSchedRar, RaTypes, TypeOK
  <1>3. \A j \in Indices : pend'[j].on => pend'[j] = pend[j]
    BY <1>1 DEF Looped
  <1>4. ASSUME NEW j \in Indices, pend'[j].on, NEW d \in Clear(pend[j].tti)
        PROVE  Old(pend[j].tti) < d
    <2>1. SUFFICES ASSUME Old(pend[j].tti) = d PROVE FALSE
      BY <1>3, <1>4 DEF Ordered
    <2>2. PICK n : n = pend[j].tti
      OBVIOUS
    <2>3. /\ pend[j].on /\ n \in Ttis /\ Old(n) \in Nat
          /\ Age(DlTti, n) = Old(n) + HarqDelay /\ Old(n) + HarqDelay < TtiMod
      BY <1>3, <1>4, <2>2, Young
    <2>4. d + HarqDelay > Lead + Window /\ TtiAdd(n, d + HarqDelay) \notin BusyTtis /\ d = Old(n)
      BY <1>4, <2>1, <2>2 DEF Clear
    <2>5. TtiAdd(n, d + HarqDelay) = DlTti /\ DlTti \in Ttis
      BY <1>2, <2>3, <2>4, Sizes, Ageing, TtiAddIs DEF Old, DlTti
    <2>6. room = MaxPending /\ MaxPending \in Nat /\ j < MaxPending
      BY <1>1, <2>4, <2>5, Sizes DEF Indices
    <2>7. InWindow(n, DlTti)
      BY <1>1, <1>4, <2>2, <2>6 DEF Looped
    <2>8. Age(DlTti, n) <= Lead + Window
      BY <2>3, <2>5, <2>7, WindowAge, Sizes
    <2>9. QED
      BY <2>3, <2>4, <2>8, Sizes
  <1>5. \A n \in Late' : Age(tti', n) <= MaxLag
    BY <1>2 DEF Ordered, Old, Late, ToSet
  <1>6. ASSUME NEW j \in Indices, pend'[j].on
        PROVE  /\ \A i \in DOMAIN buffers' : Age(tti', pend'[j].tti) > Age(tti', buffers'[i])
               /\ \A d \in Clear(pend'[j].tti) : Age(tti', pend'[j].tti) < d
    <2>1. pend'[j] = pend[j]
      BY <1>3, <1>6
    <2>2. QED
      BY <1>2, <1>4, <1>6, <2>1 DEF Ordered, Old
  <1>7. QED
    BY <1>2, <1>5, <1>6 DEF Ordered, Old

LEMMA OrderedNext ==
  ASSUME RaTypes, Stored, RoomComes, Ordered, [Next]_vars
  PROVE  Ordered'
  <1>1. CASE SaveRar \/ BufferDone \/ AssembleRar \/ Assembled \/ UlSched \/ UNCHANGED vars
    <2>1. /\ tti' = tti /\ buffers' = buffers /\ pend' = pend
          /\ prach'.busy => prach.busy /\ prach'.tti = prach.tti
          /\ pc = "dl" => pc' = "dl"
      BY <1>1 DEF SaveRar, BufferDone, AssembleRar, Assembled, UlSched, vars, worker, Idle,
                  RaTypes, TypeOK
    <2>2. QED
      BY <2>1, OrderedStays
  <1>2. QED
    BY <1>1, OrderedReceive, OrderedDetect, OrderedTrigger, OrderedSched DEF Next, Worker, Prach

LEMMA OrderIsInvariant ==
  ASSUME RoomComes
  PROVE  Spec => [](RaTypes /\ InTime /\ Stored /\ Ordered)
  <1>1. Init => Ordered
    <2> SUFFICES ASSUME Init PROVE Ordered
      OBVIOUS
    <2>1. /\ buffers = << >> /\ DOMAIN buffers = {} /\ ~prach.busy
          /\ \A j \in Indices : ~pend[j].on
      BY EmptySeq DEF Init, Idle, NoRequest
    <2>2. QED
      BY <2>1 DEF Ordered, Late, ToSet
  <1>2. RaTypes /\ Stored /\ Ordered /\ [Next]_vars => Ordered'
    BY OrderedNext
  <1>3. QED
    BY <1>1, <1>2, BaseIsInvariant, PTL DEF Spec

\* A request is at least HARQ_DELAY_MS old in the TTI it is tested for, so it is never too early.
LEMMA WindowPassed ==
  ASSUME Lead <= HarqDelay, NEW t \in Ttis, NEW n \in PrachTtis, Age(t, n) >= HarqDelay,
         ~InWindow(n, t)
  PROVE  Age(t, n) > Lead + Window \/ n + Lead + Window >= TtiMod
  <1>0. SUFFICES ASSUME n + Lead + Window < TtiMod
                 PROVE  Age(t, n) > Lead + Window
    BY Sizes
  <1>1. /\ TtiMod \in Nat \ {0} /\ t \in 0 .. TtiMod - 1 /\ n \in 0 .. TtiMod - 1 /\ n \in Ttis
        /\ Lead \in Nat /\ Window \in Nat /\ HarqDelay \in Nat
        /\ Lead <= HarqDelay /\ n + Lead + Window < TtiMod
    BY <1>0, Sizes
  <1>2. Age(t, n) = IF t >= n THEN t - n ELSE t + TtiMod - n
    BY <1>1, AgeIs
  <1>3. (n + Window + Lead) % TtiMod = n + Window + Lead
    <2>1. n + Window + Lead \in 0 .. TtiMod - 1
      BY <1>1
    <2>2. QED
      BY <1>1, <2>1, Remainder
  <1>4. t > n + Window + Lead \/ t < n + Lead
    BY <1>1, <1>3 DEF InWindow
  <1>5. QED
    BY <1>1, <1>2, <1>4

\* The window test (scheduler.cc:607) with opportunities in any TTIs, also at the end of the
\* hyperframe: the PRACH thread may store a request late and the scheduler keep it for want of
\* room, but it is given up only when the UE has stopped listening for its response, or
\* when the window ends where the TTIs start again at 0. A worker is HARQ_DELAY_MS ahead of
\* the UE, so that no request is tested before its window.
THEOREM KeepsInWindow ==
  ASSUME RoomComes, Lead <= HarqDelay
  PROVE  Spec => KeptInWindow
  <1> DEFINE A == \A j \in Indices :
                    GivenUp(j) => \/ Age(TtiAdd(tti, HarqDelay), pend[j].tti) > Lead + Window
                                  \/ pend[j].tti + Lead + Window >= TtiMod
  <1>1. ASSUME RaTypes, Stored, Ordered, Next
        PROVE  A
    <2>0. (\A j \in Indices : pend[j].on => pend'[j].on) => A
      BY DEF GivenUp
    <2> HIDE DEF A
    <2>1. CASE DlSchedRar
      <3>1. PICK st, room : /\ pend' = st.pend /\ granted' = st.list
                            /\ Looped(st, MaxPending, room, DlTti)
        BY <1>1, <2>1, Scheduled
      <3>2. SUFFICES ASSUME NEW j \in Indices, pend[j].on, ~pend'[j].on,
                            \A k \in DOMAIN granted' : granted'[k].rnti # pend[j].rnti
                     PROVE  \/ Age(DlTti, pend[j].tti) > Lead + Window
                            \/ pend[j].tti + Lead + Window >= TtiMod
        BY DEF DlTti, A, GivenUp
      <3>3. ~InWindow(pend[j].tti, DlTti)
        BY <3>1, <3>2 DEF Looped
      <3>4. /\ pend[j].tti \in PrachTtis /\ Old(pend[j].tti) \in Nat
            /\ Age(DlTti, pend[j].tti) = Old(pend[j].tti) + HarqDelay
        BY <1>1, <3>2, Young
      <3>5. DlTti \in Ttis
        BY <1>1, Sizes, TtiAddIs DEF DlTti, RaTypes, TypeOK
      <3>6. PICK t \in Ttis, n \in PrachTtis : t = DlTti /\ n = pend[j].tti
        BY <3>4, <3>5
      <3>7. Age(t, n) >= HarqDelay /\ ~InWindow(n, t)
        BY <3>3, <3>4, <3>6, Sizes
      <3>8. Age(t, n) > Lead + Window \/ n + Lead + Window >= TtiMod
        BY <3>7, WindowPassed
      <3>9. QED
        BY <3>6, <3>8
    <2>2. CASE TriggerRach
      <3>1. PICK request : request.on /\ AddRequest(request) /\ pend \in [Indices -> Requests]
        BY <1>1, <2>2 DEF TriggerRach, RaTypes, TypeOK
      <3>2. \A j \in Indices : pend'[j] = pend[j] \/ pend'[j] = request
        BY <1>1, <3>1, RequestAdded
      <3>3. \A j \in Indices : pend[j].on => pend'[j].on
        BY <3>1, <3>2
      <3>4. QED
        BY <2>0, <3>3
    <2>3. CASE ~(DlSchedRar \/ TriggerRach)
      <3>1. pend' = pend
        BY <1>1, <2>3 DEF Next, Worker, Prach, Receive, AssembleRar, Assembled, UlSched, Detect,
                          SaveRar, BufferDone
      <3>2. \A j \in Indices : pend[j].on => pend'[j].on
        BY <3>1
      <3>3. QED
        BY <2>0, <3>2
    <2>4. QED
      BY <2>1, <2>2, <2>3
  <1> HIDE DEF A
  <1>2. (RaTypes /\ Stored /\ Ordered) /\ [Next]_vars => [A]_vars
    BY <1>1
  <1>3. Spec => [][A]_vars
    BY <1>2, OrderIsInvariant, PTL DEF Spec
  <1>4. QED
    BY <1>3 DEF KeptInWindow, A

-----------------------------------------------------------------------------
(* One request at a time: the tables of mac and sched stay linked.         *)

\* No opportunity is as young as one whose requests can still be answered.
LEMMA Spread ==
  ASSUME RaTypes, OneAtATime, NEW n \in PrachTtis, NEW m \in PrachTtis, Fresh(n), Old(n) >= Old(m)
  PROVE  n = m
  <1>1. tti \in Ttis /\ n \in Ttis /\ m \in Ttis /\ Old(n) \in Nat /\ Old(m) \in Nat
    BY Sizes, AgeIs DEF RaTypes, TypeOK, Old
  <1>2. Age(m, n) = Old(n) - Old(m)
    BY <1>1, AgesApart DEF Old
  <1>3. Age(m, n) <= Lead + Window - HarqDelay
    BY <1>1, <1>2, Sizes DEF Fresh
  <1>4. Age(m, n) \in Nat /\ (n # m => Age(m, n) > Lead + Window - HarqDelay)
    BY <1>1, <1>2 DEF OneAtATime
  <1>5. QED
    BY <1>3, <1>4, Sizes

\* Two such opportunities are the same.
LEMMA FreshIsOne ==
  ASSUME RaTypes, OneAtATime, NEW n \in PrachTtis, NEW m \in PrachTtis, Fresh(n), Fresh(m)
  PROVE  n = m
  <1>1. Old(n) \in Nat /\ Old(m) \in Nat
    BY Sizes, AgeIs DEF RaTypes, TypeOK, Old
  <1>2. Old(n) >= Old(m) \/ Old(m) >= Old(n)
    BY <1>1
  <1>3. QED
    BY <1>2, Spread

\* While the PRACH thread has preambles left, nothing it finished before can be answered.
LEMMA NothingFresh ==
  ASSUME RaTypes, Stored, OneAtATime, prach.left > 0, NEW n \in PrachTtis, Before(n)
  PROVE  ~Fresh(n) /\ Old(n) > Old(prach.tti) /\ n # prach.tti
  <1>1. prach.busy /\ prach.left # 0
    BY Sizes DEF RaTypes, TypeOK
  <1>2. prach.tti \in PrachTtis
    BY <1>1 DEF Stored
  <1>3. Old(n) > Old(prach.tti)
    BY <1>1 DEF Before
  <1>4. Old(n) \in Nat /\ Old(prach.tti) \in Nat
    BY <1>2, Sizes, AgeIs DEF RaTypes, TypeOK, Old
  <1>5. n # prach.tti
    BY <1>3, <1>4
  <1>6. QED
    BY <1>2, <1>3, <1>4, <1>5, Spread

LEMMA QueuedReceive ==
  ASSUME RaTypes, Stored, RoomComes, Ordered, Queued, Receive
  PROVE  Queued'
  <1>1. /\ \A n \in Late : Age(tti', n) = Old(n) + 1
        /\ \A j \in Indices : pend[j].on => Age(tti', pend[j].tti) = Old(pend[j].tti) + 1
    BY ReceiveAges DEF Old
  <1>2. /\ \A n \in Late : Old(n) \in Nat
        /\ \A j \in Indices : pend[j].on => Old(pend[j].tti) \in Nat
    BY Young
  <1>3. prach' = prach /\ pend' = pend
    BY DEF Receive
  <1>4. prach.busy => prach.tti \in Late
    BY DEF Late
  <1>5. ASSUME NEW j \in Indices, pend[j].on
        PROVE  Before(pend[j].tti)'
    <2>1. CASE prach.busy /\ Old(pend[j].tti) > Old(prach.tti)
      <3>1. Age(tti', pend[j].tti) > Age(tti', prach.tti)
        BY <1>1, <1>2, <1>4, <1>5, <2>1
      <3>2. QED
        BY <1>3, <3>1 DEF Before, Old
    <2>2. CASE ~prach.busy \/ (pend[j].tti = prach.tti /\ prach.left = 0)
      BY <1>3, <2>2 DEF Before
    <2>3. QED
      BY <1>5, <2>1, <2>2 DEF Queued, Before
  <1>6. QED
    BY <1>3, <1>5 DEF Queued

LEMMA QueuedTrigger ==
  ASSUME RaTypes, Stored, RoomComes, Ordered, OneAtATime, Queued, TriggerRach
  PROVE  Queued'
  <1> DEFINE request == [on |-> TRUE, ra_id |-> prach.ra_id, rnti |-> lastRnti, tti |-> prach.tti]
  <1>1. /\ tti' = tti /\ prach.left > 0 /\ prach.left \in 0 .. MaxPreambles
        /\ prach'.tti = prach.tti /\ prach'.left = prach.left - 1
        /\ pend \in [Indices -> Requests] /\ AddRequest(request)
    BY DEF TriggerRach, RaTypes, TypeOK
  <1>2. prach'.left = 0
    BY <1>1, Sizes DEF OneAtATime
  <1>3. request.tti = prach.tti
    OBVIOUS
  <1> HIDE DEF request
  <1>4. \/ pend' = pend
        \/ \E i \in Indices : ~pend[i].on /\ pend' = [pend EXCEPT ![i] = request]
    BY <1>1, RequestAdded, Zenon
  <1>5. ASSUME NEW j \in Indices, pend[j].on
        PROVE  Old(pend[j].tti) > Old(prach.tti) /\ pend[j].tti # prach.tti
    <2>1. pend[j].tti \in PrachTtis /\ Before(pend[j].tti)
      BY <1>5 DEF Stored, Queued
    <2>2. QED
      BY <1>1, <2>1, NothingFresh
  <1>6. \A j \in Indices : pend'[j].on => \/ pend[j].on /\ pend'[j] = pend[j]
                                          \/ ~pend[j].on /\ pend'[j].tti = prach.tti
    BY <1>1, <1>3, <1>4
  <1>7. \A j \in Indices : pend'[j].on => Before(pend[j].tti)'
    BY <1>1, <1>2, <1>5, <1>6 DEF Before, Old
  <1>8. ASSUME NEW j \in Indices, NEW k \in Indices, pend'[j].on, pend'[k].on,
               pend'[j].tti = pend'[k].tti
        PROVE  j = k
    <2>1. CASE pend' = pend
      BY <1>8, <2>1 DEF Queued
    <2>2. ASSUME NEW i \in Indices, ~pend[i].on, pend' = [pend EXCEPT ![i] = request]
          PROVE  j = k
      <3>1. \A l \in Indices : l # i => pend'[l] = pend[l]
        BY <1>1, <2>2
      <3>2. pend'[i].tti = prach.tti
        BY <1>1, <1>3, <2>2
      <3>3. CASE j # i /\ k # i
        BY <1>8, <3>1, <3>3 DEF Queued
      <3>4. CASE j # i /\ k = i
        BY <1>5, <1>8, <3>1, <3>2, <3>4
      <3>5. CASE j = i /\ k # i
        BY <1>5, <1>8, <3>1, <3>2, <3>5
      <3>6. QED
        BY <3>3, <3>4, <3>5
    <2>3. QED
      BY <1>4, <2>1, <2>2
  <1>9. QED
    BY <1>7, <1>8 DEF Queued

LEMMA QueuedNext ==
  ASSUME RaTypes, Stored, RoomComes, Ordered, OneAtATime, Queued, [Next]_vars
  PROVE  Queued'
  <1>1. CASE Detect
    <2>1. /\ tti' = tti /\ pend' = pend /\ prach'.tti = Head(buffers) /\ buffers # << >>
          /\ buffers \in Seq(PrachTtis)
      BY <1>1 DEF Detect, RaTypes, TypeOK
    <2>2. prach'.tti = buffers[1] /\ 1 \in DOMAIN buffers
      BY <2>1, HeadTailProperties, LenProperties, EmptySeq
    <2>3. \A j \in Indices : pend[j].on => Old(pend[j].tti) > Old(buffers[1])
      BY <2>2 DEF Ordered
    <2>4. QED
      BY <2>1, <2>2, <2>3 DEF Queued, Before, Old
  <1>2. CASE DlSchedRar
    <2>1. PICK st, room : pend' = st.pend /\ Looped(st, MaxPending, room, DlTti)
      BY <1>2, Scheduled
    <2>2. \A j \in Indices : pend'[j].on => pend'[j] = pend[j]
      BY <2>1 DEF Looped
    <2>3. tti' = tti /\ prach' = prach
      BY <1>2 DEF DlSchedRar
    <2>4. \A j \in Indices : pend'[j].on => Before(pend[j].tti)'
      BY <2>2, <2>3 DEF Queued, Before, Old
    <2>5. \A j, k \in Indices : pend'[j].on /\ pend'[k].on /\ pend'[j].tti = pend'[k].tti => j = k
      BY <2>2 DEF Queued
    <2>6. QED
      BY <2>4, <2>5 DEF Queued
  <1>3. CASE SaveRar \/ BufferDone \/ AssembleRar \/ Assembled \/ UlSched \/ UNCHANGED vars
    <2>1. /\ tti' = tti /\ pend' = pend
          /\ prach'.busy => prach.busy /\ prach'.tti = prach.tti /\ prach'.left = prach.left
      BY <1>3 DEF SaveRar, BufferDone, AssembleRar, Assembled, UlSched, vars, Idle, RaTypes, TypeOK
    <2>2. QED
      BY <2>1 DEF Queued, Before, Old
  <1>4. QED
    BY <1>1, <1>2, <1>3, QueuedReceive, QueuedTrigger DEF Next, Worker, Prach

\* What dl_sched_rar grants: the one request that is in its window.
LEMMA Granted ==
  ASSUME RaTypes, Stored, RoomComes, Ordered, OneAtATime, Queued, DlSchedRar
  PROVE  /\ \A j \in Indices : pend'[j].on => pend[j].on /\ pend'[j] = pend[j]
         /\ \/ granted' = << >>
            \/ \E j \in Indices : /\ pend[j].on /\ Fresh(pend[j].tti) /\ ~pend'[j].on
                                  /\ granted' = <<RarFor(j)>>
  <1>1. DlTti \in Ttis /\ 0 \notin PrachTtis
    BY Sizes, TtiAddIs DEF DlTti, RaTypes, TypeOK, OneAtATime
  <1>2. ASSUME NEW j \in Indices, pend[j].on, InWindow(pend[j].tti, DlTti)
        PROVE  Fresh(pend[j].tti) /\ pend[j].tti \in PrachTtis
    <2>1. /\ pend[j].tti \in PrachTtis /\ pend[j].tti \in Ttis
          /\ Age(DlTti, pend[j].tti) = Old(pend[j].tti) + HarqDelay
      BY <1>2, Young
    <2>2. PICK t \in Ttis, n \in Ttis : t = DlTti /\ n = pend[j].tti
      BY <1>1, <2>1
    <2>3. Age(t, n) \in Lead .. Lead + Window
      BY <1>2, <2>2, WindowAge
    <2>4. QED
      BY <2>1, <2>2, <2>3, Sizes DEF Fresh
  <1>3. Alone(DlTti)
    <2>1. ASSUME NEW j \in Indices, NEW l \in Indices,
                 pend[j].on /\ InWindow(pend[j].tti, DlTti),
                 pend[l].on /\ InWindow(pend[l].tti, DlTti)
          PROVE  j = l
      <3>1. pend[j].tti = pend[l].tti
        BY <1>2, <2>1, FreshIsOne
      <3>2. QED
        BY <2>1, <3>1 DEF Queued
    <2>2. QED
      BY <2>1, Zenon DEF Alone
  <1>4. Distinct
    BY DEF Queued, Distinct
  <1>5. PICK st, room : /\ pend' = st.pend /\ granted' = st.list
                        /\ Looped(st, MaxPending, room, DlTti) /\ Single(st, DlTti)
    BY <1>1, <1>3, <1>4, Scheduled
  <1>6. \A j \in Indices : pend'[j].on => pend[j].on /\ pend'[j] = pend[j]
    BY <1>5 DEF Looped
  <1>7. ASSUME NEW j \in Indices, Answered(st, DlTti, j)
        PROVE  pend[j].on /\ Fresh(pend[j].tti) /\ ~pend'[j].on /\ granted' = <<RarFor(j)>>
    BY <1>2, <1>5, <1>7 DEF Answered
  <1>8. QED
    BY <1>5, <1>6, <1>7 DEF Single

LEMMA LinkedReceive ==
  ASSUME RaTypes, Stored, RoomComes, Ordered, Linked, Receive
  PROVE  Linked'
  <1>1. /\ prach' = prach /\ pend' = pend /\ rars' = rars /\ lastRnti' = lastRnti
        /\ granted' = granted /\ sent' = {} /\ granted = << >>
    BY DEF Receive, RaTypes
  <1>2. ASSUME NEW j \in Indices, pend[j].on, Fresh(pend[j].tti)'
        PROVE  Fresh(pend[j].tti)
    <2>1. Age(tti', pend[j].tti) = Old(pend[j].tti) + 1 /\ Old(pend[j].tti) \in Nat
      BY <1>2, ReceiveAges, Young
    <2>2. Age(tti', pend[j].tti) + HarqDelay <= Lead + Window
      BY <1>1, <1>2 DEF Fresh, Old
    <2>3. QED
      BY <2>1, <2>2, Sizes DEF Fresh
  <1>3. GrantedOne'
    BY <1>1 DEF GrantedOne
  <1>4. \A j \in Indices : pend[j].on /\ Fresh(pend[j].tti)' => rars[pend[j].ra_id] = pend[j].rnti
    BY <1>2 DEF Linked
  <1>5. QED
    BY <1>1, <1>3, <1>4 DEF Linked

LEMMA LinkedDetect ==
  ASSUME RaTypes, Linked, Detect
  PROVE  Linked'
  <1>1. /\ tti' = tti /\ pend' = pend /\ rars' = rars /\ lastRnti' = lastRnti
        /\ granted' = granted /\ sent' = sent
        /\ buffers' = Tail(buffers) /\ prach'.tti = Head(buffers) /\ prach'.ra_id = MaxRars
        /\ buffers # << >> /\ buffers \in Seq(PrachTtis)
    BY DEF Detect, RaTypes, TypeOK, worker
  <1>2. /\ Len(buffers) \in Nat \ {0} /\ DOMAIN buffers = 1 .. Len(buffers)
        /\ prach'.tti = buffers[1]
        /\ buffers' \in Seq(PrachTtis) /\ Len(buffers') = Len(buffers) - 1
        /\ \A i \in 1 .. Len(buffers') : buffers'[i] = buffers[i + 1]
    BY <1>1, HeadTailProperties, LenProperties, EmptySeq
  <1>3. DOMAIN buffers' = 1 .. Len(buffers')
    BY <1>2, LenProperties
  <1>4. 1 \in DOMAIN buffers /\ \A i \in DOMAIN buffers' : /\ i + 1 \in DOMAIN buffers
                                                           /\ buffers'[i] = buffers[i + 1]
    BY <1>2, <1>3
  <1>5. GrantedOne'
    <2>1. SUFFICES ASSUME granted # << >> PROVE GrantedOne'
      BY <1>1 DEF GrantedOne
    <2>2. \A i \in DOMAIN buffers : Old(granted[1].tti) > Old(buffers[i])
      BY <2>1 DEF Linked, GrantedOne
    <2>3. Before(granted[1].tti)'
      BY <1>1, <1>2, <1>4, <2>2 DEF Before, Old
    <2>4. \A i \in DOMAIN buffers' : Age(tti', granted[1].tti) > Age(tti', buffers'[i])
      BY <1>1, <1>4, <2>2 DEF Old
    <2>5. QED
      BY <1>1, <2>1, <2>3, <2>4 DEF GrantedOne, Linked, Old, Fresh
  <1>6. \A j \in Indices : pend[j].on /\ Fresh(pend[j].tti)' => rars[pend[j].ra_id] = pend[j].rnti
    BY <1>1 DEF Linked, Fresh, Old
  <1>7. QED
    BY <1>1, <1>5, <1>6 DEF Linked, GrantedOne

\* SaveRar and TriggerRach: nothing else can be answered.
LEMMA LinkedPreamble ==
  ASSUME RaTypes, Stored, OneAtATime, Queued, Linked, prach.left > 0
  PROVE  granted = << >> /\ \A j \in Indices : pend[j].on => ~Fresh(pend[j].tti)
  <1>1. granted = << >>
    BY NothingFresh DEF Linked, GrantedOne
  <1>2. ASSUME NEW j \in Indices, pend[j].on
        PROVE  ~Fresh(pend[j].tti)
    <2>1. pend[j].tti \in PrachTtis /\ Before(pend[j].tti)
      BY <1>2 DEF Stored, Queued
    <2>2. QED
      BY <2>1, NothingFresh
  <1>3. QED
    BY <1>1, <1>2

LEMMA LinkedSave ==
  ASSUME RaTypes, Stored, OneAtATime, Queued, Linked, SaveRar
  PROVE  Linked'
  <1>1. /\ prach.left > 0 /\ rars \in [0 .. MaxRars - 1 -> Rntis \cup {NoRnti}]
        /\ prach'.ra_id = FreeRar /\ rars' = [rars EXCEPT ![FreeRar] = lastRnti]
        /\ UNCHANGED <<tti, lastRnti, pend, granted, sent>>
    BY DEF SaveRar, RaTypes, TypeOK, worker
  <1>2. granted = << >> /\ \A j \in Indices : pend[j].on => ~Fresh(pend[j].tti)
    BY <1>1, LinkedPreamble
  <1>3. rars'[prach'.ra_id] = lastRnti'
    BY <1>1, FreeRarIs
  <1>4. \A j \in Indices : pend[j].on => ~Fresh(pend[j].tti)'
    BY <1>1, <1>2 DEF Fresh, Old
  <1>5. GrantedOne'
    BY <1>1, <1>2 DEF GrantedOne
  <1>6. QED
    BY <1>1, <1>3, <1>4, <1>5 DEF Linked

LEMMA LinkedTrigger ==
  ASSUME RaTypes, Stored, OneAtATime, Queued, Linked, TriggerRach
  PROVE  Linked'
  <1> DEFINE request == [on |-> TRUE, ra_id |-> prach.ra_id, rnti |-> lastRnti, tti |-> prach.tti]
  <1>1. /\ prach.left > 0 /\ prach.ra_id # MaxRars /\ prach'.ra_id = MaxRars
        /\ pend \in [Indices -> Requests] /\ AddRequest(request)
        /\ UNCHANGED <<tti, rars, granted, sent>>
    BY DEF TriggerRach, RaTypes, TypeOK, worker
  <1>2. granted = << >> /\ \A j \in Indices : pend[j].on => ~Fresh(pend[j].tti)
    BY <1>1, LinkedPreamble
  <1>3. rars[request.ra_id] = request.rnti
    BY <1>1 DEF Linked
  <1> HIDE DEF request
  <1>4. \A j \in Indices : pend'[j] = pend[j] \/ pend'[j] = request
    BY <1>1, RequestAdded
  <1>5. ASSUME NEW j \in Indices, pend'[j].on, Fresh(pend[j].tti)'
        PROVE  rars[pend'[j].ra_id] = pend'[j].rnti
    <2>1. CASE pend'[j] = pend[j]
      <3>1. ~Fresh(pend[j].tti)
        BY <1>2, <1>5, <2>1
      <3>2. QED
        BY <1>1, <1>5, <2>1, <3>1 DEF Fresh, Old
    <2>2. CASE pend'[j] = request
      BY <1>3, <2>2
    <2>3. QED
      BY <1>4, <2>1, <2>2
  <1>6. GrantedOne'
    BY <1>1, <1>2 DEF GrantedOne
  <1>7. QED
    BY <1>1, <1>5, <1>6 DEF Linked

LEMMA LinkedSched ==
  ASSUME RaTypes, Stored, RoomComes, Ordered, OneAtATime, Queued, Linked, DlSchedRar
  PROVE  Linked'
  <1>1. /\ \A j \in Indices : pend'[j].on => pend[j].on /\ pend'[j] = pend[j]
        /\ \/ granted' = << >>
           \/ \E j \in Indices : /\ pend[j].on /\ Fresh(pend[j].tti) /\ ~pend'[j].on
                                 /\ granted' = <<RarFor(j)>>
    BY Granted, Zenon
  <1>2. UNCHANGED <<tti, buffers, prach, lastRnti, rars, sent>>
    BY DEF DlSchedRar
  <1>3. ASSUME NEW j \in Indices, pend'[j].on, Fresh(pend[j].tti)'
        PROVE  rars[pend'[j].ra_id] = pend'[j].rnti
    <2>1. pend[j].on /\ pend'[j] = pend[j]
      BY <1>1, <1>3
    <2>2. Fresh(pend[j].tti)
      BY <1>2, <1>3, <2>1 DEF Fresh, Old
    <2>3. QED
      BY <2>1, <2>2 DEF Linked
  <1>4. GrantedOne'
    <2>1. CASE granted' = << >>
      BY <2>1 DEF GrantedOne
    <2>2. ASSUME NEW j \in Indices, pend[j].on, Fresh(pend[j].tti), ~pend'[j].on,
                 granted' = <<RarFor(j)>>
          PROVE  GrantedOne'
      <3>1. PICK rar : /\ granted' = <<rar>> /\ rar.n = 1 /\ rar.tti = pend[j].tti
                       /\ rar.ra_id = pend[j].ra_id /\ rar.rnti = pend[j].rnti
        BY <2>2 DEF RarFor
      <3>2. Len(granted') = 1 /\ granted'[1] = rar
        BY <3>1
      <3>3. rar.tti \in PrachTtis /\ Before(rar.tti) /\ Fresh(rar.tti)
        BY <2>2, <3>1 DEF Stored, Queued
      <3>4. \A i \in DOMAIN buffers : Old(rar.tti) > Old(buffers[i])
        BY <2>2, <3>1 DEF Ordered
      <3>5. rars[rar.ra_id] = rar.rnti
        BY <2>2, <3>1 DEF Linked
      <3>6. \A l \in Indices : pend'[l].on => pend'[l].tti # rar.tti
        BY <1>1, <2>2, <3>1 DEF Queued
      <3>7. Fresh(granted[1].tti)' /\ Before(granted[1].tti)'
        BY <1>2, <3>2, <3>3 DEF Fresh, Before, Old
      <3>8. \A i \in DOMAIN buffers' : Age(tti', granted'[1].tti) > Age(tti', buffers'[i])
        BY <1>2, <3>2, <3>4 DEF Old
      <3>9. QED
        BY <1>2, <3>1, <3>2, <3>3, <3>5, <3>6, <3>7, <3>8 DEF GrantedOne, Old
    <2>3. QED
      BY <1>1, <2>1, <2>2
  <1>5. QED
    BY <1>2, <1>3, <1>4 DEF Linked

LEMMA LinkedAssemble ==
  ASSUME RaTypes, Stored, OneAtATime, Queued, Linked, AssembleRar
  PROVE  Linked' /\ granted' = << >> /\ rars[granted[1].ra_id] = granted[1].rnti
  <1>1. granted # << >> /\ granted \in Seq(Rar) /\ GrantedOne /\ granted' = Tail(granted)
    BY DEF AssembleRar, RaTypes, Linked
  <1>2. /\ Len(granted) = 1 /\ granted[1].n = 1 /\ granted[1].tti \in PrachTtis
        /\ Fresh(granted[1].tti) /\ Before(granted[1].tti)
        /\ rars[granted[1].ra_id] = granted[1].rnti
        /\ \A j \in Indices : pend[j].on => pend[j].tti # granted[1].tti
    BY <1>1 DEF GrantedOne
  <1>3. Head(granted) = granted[1] /\ Tail(granted) \in Seq(Rar) /\ Len(Tail(granted)) = 0
    BY <1>1, <1>2, HeadTailProperties
  <1>4. granted' = << >>
    BY <1>1, <1>3, EmptySeq
  <1>5. /\ UNCHANGED <<tti, prach, lastRnti, pend>>
        /\ sent' = sent \cup {[rnti |-> granted[1].rnti, crnti |-> rars[granted[1].ra_id],
                               tti |-> granted[1].tti]}
    BY <1>3 DEF AssembleRar
  <1>6. \A r \in sent' : r.crnti = r.rnti
    BY <1>2, <1>5 DEF Linked
  <1>7. ~(prach.left > 0)
    BY <1>2, NothingFresh
  <1>8. prach'.ra_id = MaxRars
    BY <1>5, <1>7 DEF RaTypes
  <1>9. \A j \in Indices : pend[j].on => ~Fresh(pend[j].tti)
    BY <1>2, FreshIsOne DEF Stored
  <1>10. \A j \in Indices : pend'[j].on => ~Fresh(pend[j].tti)'
    BY <1>5, <1>9 DEF Fresh, Old
  <1>11. GrantedOne'
    BY <1>4 DEF GrantedOne
  <1>12. Linked'
    BY <1>6, <1>8, <1>10, <1>11 DEF Linked
  <1>13. QED
    BY <1>2, <1>4, <1>12

LEMMA LinkedNext ==
  ASSUME RaTypes, Stored, RoomComes, Ordered, OneAtATime, Queued, Linked, [Next]_vars
  PROVE  Linked'
  <1>1. CASE BufferDone \/ Assembled \/ UlSched \/ UNCHANGED vars
    <2>1. /\ UNCHANGED <<tti, buffers, pend, rars, lastRnti, granted, sent>>
          /\ prach'.busy => prach' = prach
          /\ prach'.ra_id # MaxRars => prach' = prach
      BY <1>1 DEF BufferDone, Assembled, UlSched, vars, worker, Idle
    <2>2. GrantedOne'
      BY <2>1 DEF Linked, GrantedOne, Fresh, Before, Old
    <2>3. \A j \in Indices : pend'[j].on /\ Fresh(pend[j].tti)' => rars'[pend'[j].ra_id] = pend'[j].rnti
      BY <2>1 DEF Linked, Fresh, Old
    <2>4. QED
      BY <2>1, <2>2, <2>3 DEF Linked
  <1>2. QED
    BY <1>1, LinkedReceive, LinkedDetect, LinkedSave, LinkedTrigger, LinkedSched, LinkedAssemble
       DEF Next, Worker, Prach

LEMMA LinkIsInvariant ==
  ASSUME RoomComes, OneAtATime
  PROVE  Spec => [](RaTypes /\ Stored /\ Ordered /\ Queued /\ Linked)
  <1>1. Init => Queued /\ Linked
    <2> SUFFICES ASSUME Init PROVE Queued /\ Linked
      OBVIOUS
    <2>1. /\ granted = << >> /\ sent = {} /\ prach.ra_id = MaxRars
          /\ \A j \in Indices : ~pend[j].on
      BY DEF Init, Idle, NoRequest
    <2>2. QED
      BY <2>1 DEF Queued, Linked, GrantedOne
  <1>2. RaTypes /\ Stored /\ Ordered /\ Queued /\ Linked /\ [Next]_vars => Queued' /\ Linked'
    BY QueuedNext, LinkedNext
  <1>3. QED
    BY <1>1, <1>2, OrderIsInvariant, PTL DEF Spec

\* mac::pending_rars, filled by rach_detected in the PRACH thread and emptied by assemble_rar in a
\* worker, and sched::pending_rar are linked by an index that is used again: the response
\* carries the identity of its request, whatever the delay of the thread, when opportunities
\* are further apart than a response may be late.
THEOREM RarsKeepIdentity ==
  ASSUME RoomComes, OneAtATime
  PROVE  Spec => []RarIdentity
  <1>1. Linked => RarIdentity
    BY DEF Linked, RarIdentity
  <1>2. QED
    BY <1>1, LinkIsInvariant, PTL

-----------------------------------------------------------------------------
(* The TTI of message 3.                                                   *)

\* The slots of the last TTIs differ; they are those the handlers compute.
LEMMA SlotsOf ==
  ASSUME RaTypes, Msg3Fits
  PROVE  /\ \A e \in 0 .. Msg3Delay : SlotOf(e) \in Slots
         /\ \A e \in 0 .. Msg3Delay, f \in 0 .. Msg3Delay : SlotOf(e) = SlotOf(f) => e = f
         /\ Msg3Slot(DlTti) = SlotOf(0)
         /\ (TtiAdd(tti, HarqDelay) + 6) % SlotMod = SlotOf(0)
         /\ TtiAdd(tti, 2 * HarqDelay) % SlotMod = SlotOf(Msg3Delay)
  <1>1. /\ TtiMod \in Nat \ {0} /\ SlotMod \in Nat \ {0} /\ HarqDelay \in Nat /\ Msg3Delay \in Nat
        /\ tti \in Nat /\ TtiMod % SlotMod = 0 /\ Msg3Delay < SlotMod /\ Msg3Delay + HarqDelay = 6
        /\ Slots = 0 .. SlotMod - 1
    BY Sizes, RaConstantsOK DEF RaConstantsOK, Msg3Fits, RaTypes, TypeOK, Slots
  <1>0. PICK top : top = tti + 2 * HarqDelay + Msg3Delay
    OBVIOUS
  <1>2. \A e \in 0 .. Msg3Delay : top - e \in Nat /\ SlotOf(e) = (top - e) % SlotMod
    BY <1>0, <1>1 DEF SlotOf
  <1>3. \A e \in 0 .. Msg3Delay : SlotOf(e) \in Slots
    <2>1. \A e \in 0 .. Msg3Delay : (top - e) % SlotMod \in 0 .. SlotMod - 1
      BY <1>1, <1>2, ModRange
    <2>2. QED
      BY <1>1, <1>2, <2>1
  <1>4. ASSUME NEW e \in 0 .. Msg3Delay, NEW f \in 0 .. Msg3Delay, e < f
        PROVE  SlotOf(e) # SlotOf(f)
    <2>1. top - f \in Nat /\ f - e \in 1 .. SlotMod - 1 /\ (top - f) + (f - e) = top - e
      BY <1>0, <1>1, <1>4
    <2>2. PICK a \in Nat, d \in 1 .. SlotMod - 1 : a = top - f /\ d = f - e
      BY <2>1
    <2>3. (a + d) % SlotMod # a % SlotMod
      BY <1>1, <2>2, ModDistinct
    <2>4. a + d = top - e
      BY <2>1, <2>2
    <2>5. SlotOf(e) = (a + d) % SlotMod /\ SlotOf(f) = a % SlotMod
      BY <1>2, <1>4, <2>2, <2>4
    <2>6. QED
      BY <2>3, <2>5
  <1>5. \A e \in 0 .. Msg3Delay, f \in 0 .. Msg3Delay : SlotOf(e) = SlotOf(f) => e = f
    <2>1. \A e \in 0 .. Msg3Delay, f \in 0 .. Msg3Delay : e < f \/ f < e \/ e = f
      BY <1>1
    <2>2. QED
      BY <1>4, <2>1
  <1>6. ASSUME NEW d \in Nat, NEW b \in Nat
        PROVE  (TtiAdd(tti, d) + b) % SlotMod = (tti + d + b) % SlotMod
    <2>1. PICK a \in Nat : a = tti + d
      BY <1>1
    <2>2. a % TtiMod \in Nat /\ (a % TtiMod) % SlotMod = a % SlotMod
      <3>1. a % TtiMod \in 0 .. TtiMod - 1
        BY <1>1, ModRange
      <3>2. (a % TtiMod) % SlotMod = a % SlotMod
        BY <1>1, ModMod
      <3>3. QED
        BY <1>1, <3>1, <3>2
    <2>3. ((a % TtiMod) + b) % SlotMod = (((a % TtiMod) % SlotMod) + b) % SlotMod
      BY <1>1, <2>2, ModAdd
    <2>4. ((a % SlotMod) + b) % SlotMod = (a + b) % SlotMod
      BY <1>1, ModAdd
    <2>5. QED
      BY <2>1, <2>2, <2>3, <2>4 DEF TtiAdd
  <1>7. (TtiAdd(tti, HarqDelay) + 6) % SlotMod = SlotOf(0)
    <2>1. (TtiAdd(tti, HarqDelay) + 6) % SlotMod = (tti + HarqDelay + 6) % SlotMod
      BY <1>1, <1>6
    <2>2. tti + HarqDelay + 6 = top - 0 /\ 0 \in 0 .. Msg3Delay
      BY <1>0, <1>1
    <2>3. QED
      BY <1>2, <2>1, <2>2
  <1>8. Msg3Slot(DlTti) = SlotOf(0)
    <2>1. TtiAdd(tti, HarqDelay) \in Nat
      BY <1>1, ModRange DEF TtiAdd
    <2>2. TtiAdd(tti, HarqDelay) + Msg3Delay + HarqDelay = TtiAdd(tti, HarqDelay) + 6
      BY <1>1, <2>1
    <2>3. QED
      BY <1>7, <2>2 DEF Msg3Slot, DlTti
  <1>9. TtiAdd(tti, 2 * HarqDelay) % SlotMod = SlotOf(Msg3Delay)
    <2>1. 2 * HarqDelay \in Nat /\ TtiAdd(tti, 2 * HarqDelay) \in Nat
      BY <1>1, ModRange DEF TtiAdd
    <2>2. (TtiAdd(tti, 2 * HarqDelay) + 0) % SlotMod = (tti + 2 * HarqDelay + 0) % SlotMod
      BY <1>6, <2>1
    <2>3. tti + 2 * HarqDelay + 0 = top - Msg3Delay /\ Msg3Delay \in 0 .. Msg3Delay
      BY <1>0, <1>1
    <2>4. TtiAdd(tti, 2 * HarqDelay) + 0 = TtiAdd(tti, 2 * HarqDelay)
      BY <2>1
    <2>5. QED
      BY <1>2, <2>2, <2>3, <2>4
  <1>10. QED
    BY <1>3, <1>5, <1>7, <1>8, <1>9

\* A TTI later, the message 3 of e TTIs ago is that of e + 1.
LEMMA SlotOfNext ==
  ASSUME RaTypes, Msg3Fits, Receive, NEW e \in 0 .. Msg3Delay - 1
  PROVE  SlotOf(e + 1)' = SlotOf(e)
  <1>1. /\ TtiMod \in Nat \ {0} /\ SlotMod \in Nat \ {0} /\ HarqDelay \in Nat /\ Msg3Delay \in Nat
        /\ tti \in Nat /\ TtiMod % SlotMod = 0 /\ tti' = (tti + 1) % TtiMod
    BY Sizes, RaConstantsOK DEF RaConstantsOK, Msg3Fits, RaTypes, TypeOK, Receive, TtiAdd
  <1>2. PICK b \in Nat : b = 2 * HarqDelay + Msg3Delay - (e + 1)
    BY <1>1
  <1>3. PICK a \in Nat : a = tti + 1
    BY <1>1
  <1>4. a % TtiMod \in Nat /\ (a % TtiMod) % SlotMod = a % SlotMod
    <2>1. a % TtiMod \in 0 .. TtiMod - 1
      BY <1>1, ModRange
    <2>2. (a % TtiMod) % SlotMod = a % SlotMod
      BY <1>1, ModMod
    <2>3. QED
      BY <1>1, <2>1, <2>2
  <1>5. ((a % TtiMod) + b) % SlotMod = (((a % TtiMod) % SlotMod) + b) % SlotMod
    BY <1>1, <1>4, ModAdd
  <1>6. ((a % SlotMod) + b) % SlotMod = (a + b) % SlotMod
    BY <1>1, ModAdd
  <1>7. a + b = tti + 2 * HarqDelay + Msg3Delay - e
    BY <1>1, <1>2, <1>3
  <1>8. tti' + 2 * HarqDelay + Msg3Delay - (e + 1) = (a % TtiMod) + b
    BY <1>1, <1>2, <1>3, <1>4
  <1>9. QED
    BY <1>4, <1>5, <1>6, <1>7, <1>8 DEF SlotOf

LEMMA ReservedReceive ==
  ASSUME RaTypes, Msg3Fits, Reserved, Receive
  PROVE  Reserved'
  <1>1. /\ pc = "rx" /\ pc' = "dl" /\ msg3' = msg3 /\ due' = due /\ granted' = granted
        /\ granted = << >> /\ Msg3Delay \in Nat
    BY RaConstantsOK DEF Receive, RaTypes, RaConstantsOK
  <1>2. ASSUME NEW s \in Slots, due[s] # {}
        PROVE  \E e \in 0 .. Msg3Delay : s = SlotOf(e)' /\ e > 0
    <2>1. PICK e \in 0 .. Msg3Delay : s = SlotOf(e) /\ e # Msg3Delay
      BY <1>1, <1>2 DEF Reserved
    <2>2. e \in 0 .. Msg3Delay - 1 /\ e + 1 \in 0 .. Msg3Delay /\ e + 1 > 0
      BY <1>1, <2>1
    <2>3. s = SlotOf(e + 1)'
      BY <2>1, <2>2, SlotOfNext
    <2>4. QED
      BY <2>2, <2>3
  <1>3. \A s \in Slots : msg3'[s].enabled <=> due'[s] # {}
    BY <1>1 DEF Reserved
  <1>4. QED
    BY <1>1, <1>2, <1>3 DEF Reserved

LEMMA ReservedSched ==
  ASSUME RaTypes, Msg3Fits, Reserved, DlSchedRar
  PROVE  Reserved'
  <1>1. /\ tti' = tti /\ pc = "dl" /\ pc' = "rar" /\ due' = due /\ granted = << >>
    BY DEF DlSchedRar, RaTypes
  <1>2. PICK st, room : msg3' = st.msg3 /\ granted' = st.list /\ Booked(st, DlTti)
    BY Scheduled
  <1>3. /\ SlotOf(0) \in Slots /\ Msg3Slot(DlTti) = SlotOf(0)
        /\ 0 \in 0 .. Msg3Delay /\ Msg3Delay \in Nat
        /\ \A e \in 0 .. Msg3Delay : SlotOf(e) = SlotOf(0) => e = 0
    BY SlotsOf, RaConstantsOK DEF RaConstantsOK
  <1>4. \A e : SlotOf(e)' = SlotOf(e)
    BY <1>1 DEF SlotOf
  <1>5. \A s \in Slots : due[s] # {} => \E e \in 0 .. Msg3Delay : s = SlotOf(e) /\ e > 0
    BY <1>1 DEF Reserved
  <1>6. due[SlotOf(0)] = {} /\ ~msg3[SlotOf(0)].enabled
    BY <1>1, <1>3, <1>5 DEF Reserved
  <1>7. msg3'[SlotOf(0)].enabled <=> granted' # << >>
    BY <1>2, <1>3, <1>6 DEF Booked
  <1>8. \A s \in Slots : s # SlotOf(0) => (msg3'[s].enabled <=> due[s] # {})
    BY <1>1, <1>2, <1>3 DEF Booked, Reserved
  <1>9. \A s \in Slots :
          msg3'[s].enabled <=> due'[s] # {} \/ (granted' # << >> /\ s = SlotOf(0)')
    BY <1>1, <1>4, <1>6, <1>7, <1>8
  <1>10. \A s \in Slots : due'[s] # {} => \E e \in 0 .. Msg3Delay : s = SlotOf(e)'
    BY <1>1, <1>4, <1>5
  <1>11. QED
    BY <1>1, <1>9, <1>10 DEF Reserved

LEMMA ReservedAssemble ==
  ASSUME RaTypes, Msg3Fits, Reserved, AssembleRar
  PROVE  Reserved'
  <1>1. /\ tti' = tti /\ pc' = pc /\ pc = "rar" /\ msg3' = msg3 /\ granted # << >>
        /\ \E r : due' = [due EXCEPT ![SlotOf(0)] = @ \cup {r}]
    BY SlotsOf DEF AssembleRar
  <1>2. /\ SlotOf(0) \in Slots /\ due \in [Slots -> SUBSET (Rntis \cup {NoRnti})]
        /\ 0 \in 0 .. Msg3Delay /\ Msg3Delay \in Nat
    BY SlotsOf, RaConstantsOK DEF RaConstantsOK, RaTypes, TypeOK
  <1>3. \A e : SlotOf(e)' = SlotOf(e)
    BY <1>1 DEF SlotOf
  <1>4. \A s \in Slots : IF s = SlotOf(0) THEN due'[s] # {} ELSE due'[s] = due[s]
    BY <1>1, <1>2
  <1>5. \A s \in Slots : msg3[s].enabled <=> due[s] # {} \/ s = SlotOf(0)
    BY <1>1 DEF Reserved
  <1>6. \A s \in Slots : msg3'[s].enabled <=> due'[s] # {}
    BY <1>1, <1>4, <1>5
  <1>7. \A s \in Slots : s = SlotOf(0)' => due'[s] # {}
    BY <1>3, <1>4
  <1>8. \A s \in Slots : due'[s] # {} => \E e \in 0 .. Msg3Delay : s = SlotOf(e)'
    BY <1>2, <1>3, <1>4 DEF Reserved
  <1>9. QED
    BY <1>1, <1>6, <1>7, <1>8 DEF Reserved

LEMMA ReservedUl ==
  ASSUME RaTypes, Msg3Fits, Reserved, UlSched
  PROVE  Reserved'
  <1>1. /\ tti' = tti /\ pc' = "rx" /\ granted' = granted /\ granted = << >>
        /\ due' = [due EXCEPT ![SlotOf(Msg3Delay)] = {}]
        /\ msg3' = [msg3 EXCEPT ![SlotOf(Msg3Delay)].enabled = FALSE]
    BY SlotsOf DEF UlSched, RaTypes
  <1>2. /\ due \in [Slots -> SUBSET (Rntis \cup {NoRnti})] /\ msg3 \in [Slots -> Msg3s]
    BY DEF RaTypes, TypeOK, Msg3s
  <1>3. \A e : SlotOf(e)' = SlotOf(e)
    BY <1>1 DEF SlotOf
  <1>4. \A s \in Slots : IF s = SlotOf(Msg3Delay) THEN due'[s] = {} /\ ~msg3'[s].enabled
                         ELSE due'[s] = due[s] /\ msg3'[s] = msg3[s]
    BY <1>1, <1>2 DEF Msg3s
  <1>5. \A s \in Slots : msg3'[s].enabled <=> due'[s] # {}
    BY <1>1, <1>4 DEF Reserved
  <1>6. \A s \in Slots : due'[s] # {} => \E e \in 0 .. Msg3Delay : s = SlotOf(e)' /\ e # Msg3Delay
    BY <1>3, <1>4 DEF Reserved
  <1>7. QED
    BY <1>1, <1>5, <1>6 DEF Reserved

LEMMA ReservedNext ==
  ASSUME RaTypes, Msg3Fits, Reserved, [Next]_vars
  PROVE  Reserved'
  <1>1. CASE Assembled
    <2>1. /\ UNCHANGED <<tti, msg3, due, granted>> /\ pc = "rar" /\ pc' = "ul"
      BY <1>1 DEF Assembled, worker
    <2>2. \A e : SlotOf(e)' = SlotOf(e)
      BY <2>1 DEF SlotOf
    <2>3. QED
      BY <2>1, <2>2 DEF Reserved
  <1>2. CASE Prach \/ UNCHANGED vars
    <2>1. UNCHANGED <<tti, pc, msg3, due, granted>>
      BY <1>2 DEF Prach, Detect, SaveRar, TriggerRach, BufferDone, vars, worker
    <2>2. \A e : SlotOf(e)' = SlotOf(e)
      BY <2>1 DEF SlotOf
    <2>3. QED
      BY <2>1, <2>2 DEF Reserved
  <1>3. QED
    BY <1>1, <1>2, ReservedReceive, ReservedSched, ReservedAssemble, ReservedUl DEF Next, Worker

\* sched::pending_msg3 has one entry per TTI, written by dl_sched_rar and used up by ul_sched
\* while later responses are written: an uplink TTI is reserved for a message 3 exactly when
\* a UE was told to send one in it, however many responses share a TTI.
THEOREM Msg3HasItsTti ==
  ASSUME Msg3Fits
  PROVE  Spec => []Msg3Matched
  <1>1. Init => Reserved
    <2> SUFFICES ASSUME Init PROVE Reserved
      OBVIOUS
    <2>1. granted = << >> /\ \A s \in Slots : due[s] = {} /\ ~msg3[s].enabled
      BY DEF Init, NoMsg3
    <2>2. QED
      BY <2>1 DEF Reserved
  <1>2. RaTypes /\ Reserved /\ [Next]_vars => Reserved'
    BY ReservedNext
  <1>3. RaTypes /\ Reserved => Msg3Matched
    <2> SUFFICES ASSUME RaTypes, Reserved, Msg3Fits PROVE Msg3Matched
      OBVIOUS
    <2>1. Msg3Slot(TtiAdd(tti, HarqDelay)) = SlotOf(0)
      BY SlotsOf DEF DlTti
    <2>2. QED
      BY <2>1 DEF Reserved, Msg3Matched
  <1>4. QED
    BY <1>1, <1>2, <1>3, BaseIsInvariant, PTL DEF Spec
=============================================================================
