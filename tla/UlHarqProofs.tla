---------------------------- MODULE UlHarqProofs ----------------------------
(***************************************************************************)
(* Theorems about UlHarq, for every value of its constants: any number of  *)
(* workers, processes, retransmissions and data units.                     *)
(***************************************************************************)
EXTENDS UlHarq, ModArith, SequenceTheorems, TLAPS

LEMMA Sizes == /\ Rtt \in Nat \ {0} /\ SlotMod \in Nat \ {0} /\ TtiMod \in Nat \ {0}
               /\ HarqDelay \in Nat /\ Msg3Delay \in Nat /\ NofWorkers \in Nat \ {0}
  BY UlConstantsOK DEF UlConstantsOK, Rtt, SlotMod

LEMMA MostType == /\ Most \in Nat \ {0} /\ MaxRetx \in Nat \ {0} /\ MaxMsg3 \in Nat \ {0}
                  /\ MaxRetx <= Most /\ MaxMsg3 <= Most
  BY UlConstantsOK DEF UlConstantsOK, Most

LEMMA TtiAddType == \A t, d \in Nat : TtiAdd(t, d) \in Ttis
  BY Sizes, ModRange DEF TtiAdd, Ttis

\* The process and the slot of a TTI.
LEMMA PidType == \A t \in Nat : t % Rtt \in Pids /\ t % SlotMod \in Slots
  BY Sizes, ModRange DEF Pids, Slots

LEMMA TtiNat == Ttis \subseteq Nat
  BY Sizes DEF Ttis

LEMMA ProcTypes ==
  ASSUME NEW h \in Process
  PROVE  /\ FreshProc \in Process /\ ResetProc(h) \in Process
         /\ \A ack \in BOOLEAN : SetAck(h, ack) \in Process
         /\ \A tbs \in 1 .. MaxTbs : NewTx(h, tbs) \in Process
         /\ NewRetx(h) \in Process
         /\ HasPendingAck(h) \in Process
         /\ ResetPendingData(h) \in Process
         /\ [h EXCEPT !.max_retx = MaxRetx] \in Process
         /\ [h EXCEPT !.max_retx = MaxMsg3] \in Process
  <1>1. /\ h.active \in BOOLEAN /\ h.ack \in BOOLEAN /\ h.ack_received \in BOOLEAN
        /\ h.n_rtx \in 0 .. Most + 1 /\ h.max_retx \in {MaxRetx, MaxMsg3}
        /\ h.need_ack \in BOOLEAN /\ h.pending_data \in 0 .. MaxTbs
    BY DEF Process
  <1>2. /\ 0 \in 0 .. Most + 1 /\ 0 \in 0 .. MaxTbs /\ 1 .. MaxTbs \subseteq 0 .. MaxTbs
        /\ (IF h.n_rtx > Most THEN h.n_rtx ELSE h.n_rtx + 1) \in 0 .. Most + 1
    BY <1>1, MostType, UlConstantsOK DEF UlConstantsOK
  <1>3. FreshProc \in Process
    BY <1>2 DEF FreshProc, Process
  <1>4. ResetProc(h) \in Process
    BY <1>2 DEF ResetProc, Process
  <1>5. \A ack \in BOOLEAN : SetAck(h, ack) \in Process
    BY <1>1 DEF SetAck, Process
  <1>6. \A tbs \in 1 .. MaxTbs : NewTx(h, tbs) \in Process
    <2>1. (h.max_retx > 0) \in BOOLEAN
      OBVIOUS
    <2>2. QED
      BY <1>2, <1>4, <2>1 DEF NewTx, Process
  <1>7. NewRetx(h) \in Process
    BY <1>1, <1>2 DEF NewRetx, Process
  <1>8. HasPendingAck(h) \in Process
    BY <1>1 DEF HasPendingAck, Process
  <1>9. ResetPendingData(h) \in Process
    BY <1>1, <1>2 DEF ResetPendingData, Process
  <1>10. /\ [h EXCEPT !.max_retx = MaxRetx] \in Process
         /\ [h EXCEPT !.max_retx = MaxMsg3] \in Process
    BY DEF Process
  <1>11. QED
    BY <1>3, <1>4, <1>5, <1>6, <1>7, <1>8, <1>9, <1>10

-----------------------------------------------------------------------------
(* Types                                                                   *)

LEMMA WorkersTypes ==
  ASSUME TypeOK, NEW i \in DOMAIN workers, NEW w \in Worker,
         workers' = [workers EXCEPT ![i] = w]
  PROVE  workers' \in Seq(Worker) /\ Len(workers') <= NofWorkers
  <1>1. workers \in Seq(Worker) /\ Len(workers) <= NofWorkers
    BY DEF TypeOK
  <1>2. QED
    BY <1>1, ExceptSeq, LenProperties

LEMMA WorkerTyped ==
  ASSUME TypeOK, NEW i \in DOMAIN workers
  PROVE  /\ workers[i] \in Worker /\ workers[i].tti \in Nat
         /\ workers[i].tti % Rtt \in Pids /\ workers[i].tti % SlotMod \in Slots
         /\ \A d \in Nat : TtiAdd(workers[i].tti, d) \in Ttis
                           /\ TtiAdd(workers[i].tti, d) \in Nat
  <1>1. workers[i] \in Worker
    BY LenProperties DEF TypeOK
  <1>2. workers[i].tti \in Nat
    BY <1>1, TtiNat DEF Worker
  <1>3. QED
    BY <1>1, <1>2, PidType, TtiAddType, TtiNat

LEMMA GotoTypes ==
  ASSUME TypeOK, NEW i \in DOMAIN workers, NEW pc \in {"dl", "enter", "phich"}, Goto(i, pc)
  PROVE  workers' \in Seq(Worker) /\ Len(workers') <= NofWorkers
  <1>1. [workers[i] EXCEPT !.pc = pc] \in Worker
    BY WorkerTyped DEF Worker
  <1>2. QED
    BY <1>1, WorkersTypes DEF Goto

LEMMA DispatchTypes == ASSUME TypeOK, Dispatch PROVE TypeOK'
  <1>1. [tti |-> nextTti, pc |-> "decode", heard |-> "none", phich |-> "none",
         granted |-> "none"] \in Worker
    BY DEF TypeOK, Worker, Heard, Answers, Kinds
  <1>2. workers' \in Seq(Worker) /\ Len(workers') = Len(workers) + 1
    BY <1>1, AppendProperties DEF Dispatch, TypeOK
  <1>3. Len(workers') <= NofWorkers
    BY <1>2, Sizes, LenProperties DEF Dispatch, TypeOK
  <1>4. nextTti' \in Ttis
    BY TtiAddType, TtiNat DEF Dispatch, TypeOK
  <1>5. QED
    BY <1>2, <1>3, <1>4 DEF Dispatch, TypeOK, user

LEMMA DecodeTypes ==
  ASSUME TypeOK, NEW i, DecodePusch(i) \/ DecodePucch(i)
  PROVE  TypeOK'
  <1>1. CASE DecodePusch(i)
    <2>1. i \in DOMAIN workers
      BY <1>1 DEF DecodePusch, At
    <2>2. PICK ok \in BOOLEAN :
            /\ harq' = [harq EXCEPT ![workers[i].tti % Rtt] = SetAck(@, ok)]
            /\ workers' = [workers EXCEPT ![i].pc = "dl",
                                          ![i].heard = IF ok THEN "ok" ELSE "ko"]
      BY <1>1 DEF DecodePusch
    <2>3. harq' \in [Pids -> Process]
      <3>1. SetAck(harq[workers[i].tti % Rtt], ok) \in Process
        BY <2>1, WorkerTyped, ProcTypes DEF TypeOK
      <3>2. QED
        BY <2>2, <3>1 DEF TypeOK
    <2> DEFINE w == [workers[i] EXCEPT !.pc = "dl", !.heard = IF ok THEN "ok" ELSE "ko"]
    <2>4. w \in Worker
      BY <2>1, WorkerTyped DEF Worker, Heard
    <2>5. workers' = [workers EXCEPT ![i] = w]
      BY <2>2
    <2> HIDE DEF w
    <2>6. workers' \in Seq(Worker) /\ Len(workers') <= NofWorkers
      BY <2>1, <2>4, <2>5, WorkersTypes
    <2>7. QED
      BY <1>1, <2>3, <2>6 DEF DecodePusch, TypeOK, user
  <1>2. CASE DecodePucch(i)
    <2>1. i \in DOMAIN workers /\ Goto(i, "dl")
      BY <1>2 DEF DecodePucch, At
    <2>2. workers' \in Seq(Worker) /\ Len(workers') <= NofWorkers
      BY <2>1, GotoTypes
    <2>3. QED
      BY <1>2, <2>2 DEF DecodePucch, TypeOK
  <1>3. QED
    BY <1>1, <1>2

LEMMA EnterTypes ==
  ASSUME TypeOK, NEW i, RunDl(i) \/ EnterUl(i)
  PROVE  TypeOK'
  <1>1. i \in DOMAIN workers /\ (Goto(i, "enter") \/ Goto(i, "phich"))
    BY DEF RunDl, EnterUl, At
  <1>2. workers' \in Seq(Worker) /\ Len(workers') <= NofWorkers
    BY <1>1, GotoTypes
  <1>3. current' \in Ttis
    BY <1>1, WorkerTyped, Sizes DEF RunDl, EnterUl
  <1>4. msg3' \in [Slots -> BOOLEAN]
    BY DEF RunDl, EnterUl, TypeOK
  <1>5. QED
    BY <1>2, <1>3, <1>4 DEF RunDl, EnterUl, TypeOK, user

LEMMA CurrentPid == TypeOK => current % Rtt \in Pids
  BY PidType, TtiNat DEF TypeOK

LEMMA PhichTypes == ASSUME TypeOK, NEW i, Phich(i) PROVE TypeOK'
  <1>1. i \in DOMAIN workers
    BY DEF Phich, At
  <1> DEFINE p == current % Rtt
             a == IF ~harq[p].need_ack THEN "none" ELSE IF harq[p].ack THEN "ack" ELSE "nack"
  <1>2. HasPendingAck(harq[p]) \in Process
    BY CurrentPid, ProcTypes DEF TypeOK
  <1>3. harq' = [harq EXCEPT ![p] = HasPendingAck(harq[p])]
    BY DEF Phich
  <1>4. workers' = [workers EXCEPT ![i] = [workers[i] EXCEPT !.pc = "grant", !.phich = a]]
    BY DEF Phich
  <1>5. a \in Answers
    BY DEF Answers
  <1> HIDE DEF p, a
  <1>6. [workers[i] EXCEPT !.pc = "grant", !.phich = a] \in Worker
    BY <1>1, <1>5, WorkerTyped DEF Worker
  <1>7. workers' \in Seq(Worker) /\ Len(workers') <= NofWorkers
    BY <1>1, <1>4, <1>6, WorkersTypes
  <1>8. harq' \in [Pids -> Process]
    BY <1>2, <1>3 DEF TypeOK
  <1>9. QED
    BY <1>7, <1>8 DEF Phich, TypeOK, user

\* What the PUSCH loop makes of the process r it turns to: nothing, a reset, new data, the
\* same block again, or message 3.
Left(r, h)  == h = harq[r] \/ h = ResetProc(harq[r])
New(r, h)   == /\ Empty(harq[r])
               /\ \E tbs \in 1 .. MaxTbs : h = NewTx([harq[r] EXCEPT !.max_retx = MaxRetx], tbs)
Again(r, h) == ~Empty(harq[r]) /\ h = NewRetx(harq[r])
First(r, h) == \E tbs \in 1 .. MaxTbs :
                 h = NewTx([harq[r] EXCEPT !.max_retx = IF Empty(harq[r]) THEN MaxMsg3 ELSE @],
                           tbs)

\* The data of the process of current_tti are then forgotten if it is given up.
Updated(r, h) ==
    harq' = [q \in Pids |-> IF q = current % Rtt
                            THEN ResetPendingData(IF q = r THEN h ELSE harq[q])
                            ELSE IF q = r THEN h ELSE harq[q]]

\* One grant of "kind", for the subframe whose slot is s, that leaves process r as h.
GrantOf(i, s, r, h, kind) ==
    /\ i \in DOMAIN workers /\ workers[i].pc = "grant"
    /\ s \in Slots /\ s = TtiAdd(workers[i].tti, Rtt) % SlotMod
    /\ Updated(r, h)
    /\ \/ kind = "none" /\ Left(r, h) /\ UNCHANGED sr
       \/ kind = "new"  /\ New(r, h) /\ (attached \/ bsr # 0 \/ sr)
       \/ kind = "retx" /\ Again(r, h) /\ UNCHANGED sr
       \/ kind = "msg3" /\ First(r, h) /\ r = TtiAdd(workers[i].tti, Rtt) % Rtt /\ (sr' => sr)
    /\ r = current % Rtt \/ kind = "msg3"
    /\ (kind = "msg3") = msg3[s] /\ msg3' = [msg3 EXCEPT ![s] = FALSE]
    /\ sr' \in BOOLEAN
    /\ attached' = (attached \/ msg3[s])
    /\ grants' = [grants EXCEPT ![s] = kind]
    /\ workers' = [workers EXCEPT ![i] = [workers[i] EXCEPT !.pc = "end", !.granted = kind]]
    /\ bsr' = bsr /\ current' = current /\ nextTti' = nextTti

LEMMA GrantSteps ==
  ASSUME TypeOK, NEW i, Grant(i)
  PROVE  \E s \in Slots, r \in Pids, h \in Process, kind \in Kinds : GrantOf(i, s, r, h, kind)
  <1> DEFINE t == TtiAdd(workers[i].tti, Rtt)
             p == current % Rtt
  <1>1. /\ i \in DOMAIN workers /\ workers[i].pc = "grant"
        /\ attached' = (attached \/ msg3[t % SlotMod])
        /\ UNCHANGED <<bsr, current, nextTti>>
    BY DEF Grant, At
  <1> DEFINE Chosen(kind, tbs, cqi) ==
               /\ (kind = "msg3") = msg3[t % SlotMod]
               /\ \/ kind = "msg3" /\ GrantMsg3(t, tbs)
                  \/ kind = "new"  /\ HasNewData(cqi) /\ GrantNew(p, tbs)
                  \/ kind = "retx" /\ GrantRetx(p)
                  \/ kind = "none" /\ NoGrant(p)
                  \/ kind = "none" /\ (~Empty(harq[p]) \/ HasNewData(cqi)) /\ NoDci(p)
               /\ grants' = [grants EXCEPT ![t % SlotMod] = kind]
               /\ workers' = [workers EXCEPT ![i].pc = "end", ![i].granted = kind]
  <1>0. \E kind \in Kinds, tbs \in 1 .. MaxTbs, cqi \in BOOLEAN : Chosen(kind, tbs, cqi)
    BY Zenon DEF Grant
  <1>2. PICK kind \in Kinds, tbs \in 1 .. MaxTbs, cqi \in BOOLEAN :
          /\ (kind = "msg3") = msg3[t % SlotMod]
          /\ \/ kind = "msg3" /\ GrantMsg3(t, tbs)
             \/ kind = "new"  /\ HasNewData(cqi) /\ GrantNew(p, tbs)
             \/ kind = "retx" /\ GrantRetx(p)
             \/ kind = "none" /\ NoGrant(p)
             \/ kind = "none" /\ NoDci(p)
          /\ grants' = [grants EXCEPT ![t % SlotMod] = kind]
          /\ workers' = [workers EXCEPT ![i] = [workers[i] EXCEPT !.pc = "end",
                                                                  !.granted = kind]]
    <2> HIDE DEF t, p, Chosen
    <2>1. PICK kind \in Kinds, tbs \in 1 .. MaxTbs, cqi \in BOOLEAN : Chosen(kind, tbs, cqi)
      BY <1>0
    <2>2. workers' = [workers EXCEPT ![i] = [workers[i] EXCEPT !.pc = "end", !.granted = kind]]
      BY <1>1, <2>1 DEF Chosen
    <2>3. QED
      BY <2>1, <2>2, Zenon DEF Chosen
  <1>3. t \in Nat /\ t % SlotMod \in Slots /\ t % Rtt \in Pids /\ p \in Pids
    BY <1>1, WorkerTyped, CurrentPid, PidType, Sizes
  <1>4. /\ harq \in [Pids -> Process] /\ msg3 \in [Slots -> BOOLEAN] /\ sr \in BOOLEAN
        /\ harq[p] \in Process /\ harq[t % Rtt] \in Process
    BY <1>3 DEF TypeOK
  <1> HIDE DEF GrantOf, p
  <1>5. kind # "msg3" => UNCHANGED msg3 /\ msg3' = [msg3 EXCEPT ![t % SlotMod] = FALSE]
    <2>1. kind # "msg3" => UNCHANGED msg3
      BY <1>2 DEF GrantNew, GrantRetx, NoGrant, NoDci
    <2>2. kind # "msg3" => msg3[t % SlotMod] = FALSE
      BY <1>2, <1>3, <1>4
    <2>3. QED
      BY <1>3, <1>4, <2>1, <2>2
  \* The one process updated, as a function of all.
  <1>6. ASSUME NEW h, harq' = [harq EXCEPT ![p] = ResetPendingData(h)]
        PROVE  Updated(p, h)
    BY <1>3, <1>4, <1>6 DEF Updated, p
  <1>7. CASE kind = "msg3" /\ GrantMsg3(t, tbs)
    <2> DEFINE r == t % Rtt
               h == NewTx([harq[r] EXCEPT !.max_retx = IF Empty(harq[r]) THEN MaxMsg3 ELSE @], tbs)
    <2>1. h \in Process
      <3>1. [harq[r] EXCEPT !.max_retx = IF Empty(harq[r]) THEN MaxMsg3 ELSE @] \in Process
        BY <1>4 DEF Process
      <3>2. QED
        BY <3>1, ProcTypes
    <2>2. First(r, h)
      BY DEF First
    <2>3. Updated(r, h)
      BY <1>7 DEF GrantMsg3, Updated
    <2>4. sr' = (sr /\ ~Empty(harq[r])) /\ msg3' = [msg3 EXCEPT ![t % SlotMod] = FALSE]
      BY <1>7 DEF GrantMsg3
    <2>5. sr' \in BOOLEAN /\ (sr' => sr)
      BY <2>4, <1>4
    <2> HIDE DEF h
    <2>6. QED
      BY <1>1, <1>2, <1>3, <1>7, <2>1, <2>2, <2>3, <2>4, <2>5 DEF GrantOf, t
  <1>8. CASE kind = "new" /\ HasNewData(cqi) /\ GrantNew(p, tbs)
    <2> DEFINE h == NewTx([harq[p] EXCEPT !.max_retx = MaxRetx], tbs)
    <2>1. h \in Process
      BY <1>4, ProcTypes
    <2>2. harq' = [harq EXCEPT ![p] = ResetPendingData(h)] /\ sr' = FALSE
      BY <1>3, <1>4, <1>8 DEF GrantNew
    <2>3. New(p, h)
      BY <1>8 DEF New, GrantNew
    <2>4. attached \/ bsr # 0 \/ sr
      BY <1>8 DEF HasNewData
    <2> HIDE DEF h
    <2>5. Updated(p, h)
      BY <1>6, <2>2
    <2>6. QED
      BY <1>1, <1>2, <1>3, <1>5, <1>8, <2>1, <2>2, <2>3, <2>4, <2>5 DEF GrantOf, p
  <1>9. CASE kind = "retx" /\ GrantRetx(p)
    <2> DEFINE h == NewRetx(harq[p])
    <2>1. h \in Process
      BY <1>4, ProcTypes
    <2>2. h = ResetPendingData(h)
      <3>1. h.active
        BY <1>4, <1>9 DEF GrantRetx, Empty, NewRetx, Process
      <3>2. QED
        BY <3>1 DEF ResetPendingData
    <2>3. harq' = [harq EXCEPT ![p] = ResetPendingData(h)] /\ UNCHANGED sr
      BY <1>3, <1>4, <1>9, <2>2 DEF GrantRetx
    <2>4. Again(p, h)
      BY <1>9 DEF Again, GrantRetx
    <2> HIDE DEF h
    <2>5. Updated(p, h)
      BY <1>6, <2>3
    <2>6. QED
      BY <1>1, <1>2, <1>3, <1>4, <1>5, <1>9, <2>1, <2>3, <2>4, <2>5 DEF GrantOf, p
  <1>10. CASE kind = "none" /\ (NoGrant(p) \/ NoDci(p))
    <2>1. PICK h \in {harq[p], ResetProc(harq[p])} :
            harq' = [harq EXCEPT ![p] = ResetPendingData(h)] /\ UNCHANGED sr
      BY <1>3, <1>4, <1>10 DEF NoGrant, NoDci
    <2>2. h \in Process /\ Left(p, h)
      BY <1>4, <2>1, ProcTypes DEF Left
    <2>3. Updated(p, h)
      BY <1>6, <2>1
    <2>4. QED
      BY <1>1, <1>2, <1>3, <1>4, <1>5, <1>10, <2>1, <2>2, <2>3 DEF GrantOf, p
  <1>11. QED
    BY <1>2, <1>7, <1>8, <1>9, <1>10

\* The other processes keep what they had, but for the data of the one given up.
LEMMA UpdatedTypes ==
  ASSUME TypeOK, NEW r \in Pids, NEW h \in Process, Updated(r, h)
  PROVE  harq' \in [Pids -> Process]
  <1>1. ResetPendingData(h) \in Process
    BY ProcTypes
  <1>2. \A q \in Pids : harq[q] \in Process /\ ResetPendingData(harq[q]) \in Process
    BY ProcTypes DEF TypeOK
  <1>3. QED
    BY <1>1, <1>2 DEF Updated

LEMMA GrantTypes == ASSUME TypeOK, NEW i, Grant(i) PROVE TypeOK'
  <1>0. PICK s \in Slots, r \in Pids, h \in Process, kind \in Kinds : GrantOf(i, s, r, h, kind)
    BY GrantSteps
  <1>1. /\ i \in DOMAIN workers /\ Updated(r, h)
        /\ msg3' = [msg3 EXCEPT ![s] = FALSE]
        /\ sr' \in BOOLEAN /\ attached' = (attached \/ msg3[s])
        /\ grants' = [grants EXCEPT ![s] = kind]
        /\ workers' = [workers EXCEPT ![i] = [workers[i] EXCEPT !.pc = "end",
                                                                !.granted = kind]]
        /\ UNCHANGED <<bsr, current, nextTti>>
    BY <1>0 DEF GrantOf
  <1>2. harq' \in [Pids -> Process]
    BY <1>1, UpdatedTypes
  <1>3. [workers[i] EXCEPT !.pc = "end", !.granted = kind] \in Worker
    BY <1>1, WorkerTyped DEF Worker
  <1>4. workers' \in Seq(Worker) /\ Len(workers') <= NofWorkers
    BY <1>1, <1>3, WorkersTypes
  <1>5. msg3' \in [Slots -> BOOLEAN] /\ grants' \in [Slots -> Kinds] /\ attached' \in BOOLEAN
    BY <1>1 DEF TypeOK
  <1>6. QED
    BY <1>1, <1>2, <1>4, <1>5 DEF TypeOK

LEMMA EndTypes == ASSUME TypeOK, End PROVE TypeOK'
  <1>1. workers' \in Seq(Worker) /\ Len(workers') = Len(workers) - 1
    BY HeadTailProperties, EmptySeq DEF End, TypeOK
  <1>2. QED
    BY <1>1, Sizes, LenProperties DEF End, TypeOK, user

LEMMA UpperTypes == ASSUME TypeOK, UlBufferState \/ UeCfg PROVE TypeOK'
  <1>1. CASE UlBufferState
    BY <1>1 DEF UlBufferState, TypeOK
  <1>2. CASE UeCfg
    <2>1. harq' \in [Pids -> Process]
      <3>1. \A p \in Pids : [ResetProc(harq[p]) EXCEPT !.max_retx = MaxRetx] \in Process
        BY ProcTypes DEF TypeOK
      <3>2. QED
        BY <1>2, <3>1 DEF UeCfg
    <2>2. workers' \in Seq(Worker) /\ Len(workers') = Len(workers)
      <3>1. \A i \in 1 .. Len(workers) : [workers[i] EXCEPT !.heard = "none"] \in Worker
        <4>1. \A i \in 1 .. Len(workers) : workers[i] \in Worker
          BY LenProperties DEF TypeOK
        <4>2. QED
          BY <4>1 DEF Worker, Heard
      <3>2. workers' = [i \in 1 .. Len(workers) |-> [workers[i] EXCEPT !.heard = "none"]]
        BY <1>2, LenProperties DEF UeCfg, TypeOK
      <3>3. Len(workers) \in Nat
        BY LenProperties DEF TypeOK
      <3>4. QED
        BY <3>1, <3>2, <3>3, IsASeq
    <2>3. 0 \in 0 .. MaxBsr
      BY UlConstantsOK DEF UlConstantsOK
    <2>4. QED
      BY <1>2, <2>1, <2>2, <2>3 DEF UeCfg, TypeOK
  <1>3. QED
    BY <1>1, <1>2

\* The variables keep their types.
THEOREM UlTypeCorrect == Spec => []TypeOK
  <1>1. Init => TypeOK
    <2> SUFFICES ASSUME Init PROVE TypeOK
      OBVIOUS
    <2>1. FreshProc \in Process
      BY MostType, UlConstantsOK DEF FreshProc, Process, UlConstantsOK
    <2>2. 0 \in Ttis /\ 0 \in 0 .. MaxBsr
      BY Sizes, UlConstantsOK DEF Ttis, UlConstantsOK
    <2>3. workers \in Seq(Worker) /\ Len(workers) <= NofWorkers
      BY EmptySeq, Sizes DEF Init
    <2>4. QED
      BY <2>1, <2>2, <2>3 DEF Init, TypeOK, Kinds
  <1>2. TypeOK /\ [Next]_vars => TypeOK'
    <2> SUFFICES ASSUME TypeOK, [Next]_vars PROVE TypeOK'
      OBVIOUS
    <2>1. CASE UNCHANGED vars
      BY <2>1 DEF vars, TypeOK
    <2>2. ASSUME NEW i \in 1 .. NofWorkers, Work(i)
          PROVE  TypeOK'
      BY <2>2, DecodeTypes, EnterTypes, PhichTypes, GrantTypes DEF Work
    <2>3. QED
      BY <2>1, <2>2, DispatchTypes, EndTypes, UpperTypes DEF Next
  <1>3. QED
    BY <1>1, <1>2, PTL DEF Spec

-----------------------------------------------------------------------------
(***************************************************************************)
(* The user is unknown until message 3 is granted: no process is in use,   *)
(* nothing was reported, and at most one message 3 is waited for. Hence    *)
(* message 3, which is put into its process without a look at it, finds it *)
(* idle, and a scheduling request is never lost on the PUCCH.              *)
(***************************************************************************)

NothingKnown == ~attached => bsr = 0 /\ ~sr /\ \A p \in Pids : ~harq[p].active

OneMsg3 == \A s \in Slots : msg3[s] => ~attached /\ \A t \in Slots : msg3[t] => t = s

UnknownInv == TypeOK /\ NothingKnown /\ OneMsg3

\* What feedback, a reset and the loss of the data leave inactive.
LEMMA StaysIdle ==
  ASSUME NEW h \in Process, ~h.active
  PROVE  /\ \A ack \in BOOLEAN : ~SetAck(h, ack).active
         /\ ~ResetProc(h).active /\ ~ResetPendingData(h).active /\ ~HasPendingAck(h).active
  BY DEF Process, SetAck, ResetProc, ResetPendingData, HasPendingAck

LEMMA FeedbackKeepsUnknown ==
  ASSUME UnknownInv, NEW i, DecodePusch(i) \/ DecodePucch(i) \/ Phich(i)
  PROVE  NothingKnown' /\ OneMsg3'
  <1>1. OneMsg3'
    BY DEF UnknownInv, OneMsg3, DecodePusch, DecodePucch, Phich, user
  <1>2. ASSUME ~attached'
        PROVE  bsr' = 0 /\ ~sr' /\ \A p \in Pids : ~harq'[p].active
    <2>1. /\ ~attached /\ bsr = 0 /\ ~sr /\ \A p \in Pids : ~harq[p].active
          /\ harq \in [Pids -> Process]
      BY <1>2 DEF UnknownInv, NothingKnown, TypeOK, DecodePusch, DecodePucch, Phich, user
    <2>2. bsr' = 0 /\ ~sr'
      BY <2>1 DEF DecodePusch, DecodePucch, Phich, user
    <2>3. \A p \in Pids : /\ \A ack \in BOOLEAN : ~SetAck(harq[p], ack).active
                          /\ ~HasPendingAck(harq[p]).active
      BY <2>1, StaysIdle
    <2>4. \/ UNCHANGED harq
          \/ \E p \in Pids, ack \in BOOLEAN : harq' = [harq EXCEPT ![p] = SetAck(harq[p], ack)]
          \/ \E p \in Pids : harq' = [harq EXCEPT ![p] = HasPendingAck(harq[p])]
      <3>1. CASE DecodePusch(i)
        <4>1. workers[i].tti % Rtt \in Pids
          BY <3>1, WorkerTyped DEF DecodePusch, At, UnknownInv
        <4>2. QED
          BY <3>1, <4>1 DEF DecodePusch
      <3>2. CASE DecodePucch(i)
        BY <3>2 DEF DecodePucch
      <3>3. CASE Phich(i)
        BY <3>3, CurrentPid DEF Phich, UnknownInv
      <3>4. QED
        BY <3>1, <3>2, <3>3
    <2>5. QED
      BY <2>1, <2>2, <2>3, <2>4
  <1>3. QED
    BY <1>1, <1>2 DEF NothingKnown

LEMMA GrantKeepsUnknown ==
  ASSUME UnknownInv, NEW i, Grant(i)
  PROVE  NothingKnown' /\ OneMsg3'
  <1>0. TypeOK
    BY DEF UnknownInv
  <1>1. PICK s \in Slots, r \in Pids, h \in Process, kind \in Kinds : GrantOf(i, s, r, h, kind)
    BY <1>0, GrantSteps
  <1>2. /\ attached' = (attached \/ msg3[s]) /\ msg3' = [msg3 EXCEPT ![s] = FALSE]
        /\ (kind = "msg3") = msg3[s]
    BY <1>1 DEF GrantOf
  <1>3. OneMsg3'
    BY <1>0, <1>2 DEF UnknownInv, OneMsg3, TypeOK
  <1>4. ASSUME ~attached'
        PROVE  bsr' = 0 /\ ~sr' /\ \A p \in Pids : ~harq'[p].active
    <2>1. /\ ~attached /\ kind # "msg3" /\ bsr = 0 /\ ~sr
          /\ \A p \in Pids : ~harq[p].active /\ harq[p] \in Process
      BY <1>0, <1>2, <1>4 DEF UnknownInv, NothingKnown, TypeOK
    <2>2. Left(r, h) /\ UNCHANGED sr
      BY <1>1, <2>1 DEF GrantOf, Again, Empty
    <2>3. ~h.active
      BY <2>1, <2>2, StaysIdle DEF Left
    <2>4. \A p \in Pids : ~ResetPendingData(harq[p]).active /\ ~ResetPendingData(h).active
      BY <2>1, <2>3, StaysIdle
    <2>5. \A p \in Pids : ~harq'[p].active
      BY <1>1, <2>1, <2>3, <2>4 DEF GrantOf, Updated
    <2>6. bsr' = 0 /\ ~sr'
      BY <1>1, <2>1, <2>2 DEF GrantOf
    <2>7. QED
      BY <2>5, <2>6
  <1>5. QED
    BY <1>3, <1>4 DEF NothingKnown

LEMMA OthersKeepUnknown ==
  ASSUME UnknownInv,
         \/ Dispatch \/ End \/ UlBufferState \/ UeCfg \/ UNCHANGED vars
         \/ \E i : RunDl(i) \/ EnterUl(i)
  PROVE  NothingKnown' /\ OneMsg3'
  <1>1. CASE UlBufferState \/ UeCfg
    BY <1>1 DEF UlBufferState, UeCfg, UnknownInv, NothingKnown, OneMsg3
  <1>2. CASE Dispatch \/ End \/ UNCHANGED vars \/ \E i : EnterUl(i)
    <2>1. UNCHANGED <<harq, bsr, sr, msg3, attached>>
      BY <1>2 DEF Dispatch, End, EnterUl, vars, user
    <2>2. QED
      BY <2>1 DEF UnknownInv, NothingKnown, OneMsg3
  <1>3. ASSUME NEW i, RunDl(i)
        PROVE  NothingKnown' /\ OneMsg3'
    <2>1. UNCHANGED <<harq, bsr, sr, attached>>
      BY <1>3 DEF RunDl, user
    <2>2. OneMsg3'
      <3> DEFINE s == TtiAdd(workers[i].tti, Rtt + Msg3Delay) % SlotMod
      <3>1. \/ UNCHANGED msg3
            \/ /\ ~attached /\ \A t \in Slots : ~msg3[t]
               /\ msg3' = [msg3 EXCEPT ![s] = TRUE]
        BY <1>3 DEF RunDl
      <3> HIDE DEF s
      <3>2. QED
        BY <2>1, <3>1 DEF UnknownInv, OneMsg3, TypeOK
    <2>3. QED
      BY <2>1, <2>2 DEF UnknownInv, NothingKnown
  <1>4. QED
    BY <1>1, <1>2, <1>3

LEMMA UnknownIsInvariant == Spec => []UnknownInv
  <1>1. Init => NothingKnown /\ OneMsg3
    BY DEF Init, NothingKnown, OneMsg3, FreshProc
  <1>2. UnknownInv /\ [Next]_vars => NothingKnown' /\ OneMsg3'
    BY FeedbackKeepsUnknown, GrantKeepsUnknown, OthersKeepUnknown DEF Next, Work
  <1>3. QED
    BY <1>1, <1>2, UlTypeCorrect, PTL DEF Spec, UnknownInv

\* A scheduling request is forgotten only with a grant for new data, or when the user is
\* reconfigured ("Un-trigger SR" is in the success branch of ul_sched): for any number of
\* workers, processes and users' reports.
THEOREM RequestsAnswered == Spec => SrAnswered
  <1> DEFINE Granted == \E i \in DOMAIN workers :
                          At(i, "grant") /\ workers'[i].granted \in {"new", "msg3"}
             Kept    == UeCfg \/ (sr /\ ~sr' => Granted)
  <1>1. UnknownInv /\ [Next]_vars => [Kept]_vars
    <2> SUFFICES ASSUME UnknownInv, [Next]_vars, ~UeCfg, sr, ~sr'
                 PROVE  Granted
      OBVIOUS
    <2>1. PICK i \in 1 .. NofWorkers : Grant(i)
      <3>1. attached
        BY DEF UnknownInv, NothingKnown
      <3>2. \A i : ~DecodePucch(i)
        BY <3>1 DEF DecodePucch
      <3>3. QED
        BY <3>2 DEF Next, Work, Dispatch, DecodePusch, RunDl, EnterUl, Phich, End,
                    UlBufferState, vars, user
    <2>2. TypeOK
      BY DEF UnknownInv
    <2>3. PICK s \in Slots, r \in Pids, h \in Process, kind \in Kinds :
            GrantOf(i, s, r, h, kind)
      BY <2>1, <2>2, GrantSteps
    <2>4. kind \in {"new", "msg3"} /\ i \in DOMAIN workers /\ workers[i].pc = "grant"
      BY <2>3 DEF GrantOf
    <2>5. workers' = [workers EXCEPT ![i] = [workers[i] EXCEPT !.pc = "end", !.granted = kind]]
      BY <2>3 DEF GrantOf
    <2>6. workers[i] \in Worker
      BY <2>2, <2>4, WorkerTyped
    <2>7. workers'[i].granted = kind
      BY <2>4, <2>5, <2>6 DEF Worker
    <2>8. QED
      BY <2>4, <2>7 DEF At
  <1>2. QED
    BY <1>1, UnknownIsInvariant, PTL DEF Spec, SrAnswered

-----------------------------------------------------------------------------
(* Every step of the program is a step of stop-and-wait HARQ.              *)

\* What the operations on a process are to stop-and-wait.
LEMMA AbsBlocks ==
  ASSUME NEW h \in Process
  PROVE  /\ AbsBlock(FreshProc) = Abs!Idle /\ AbsBlock(ResetProc(h)) = Abs!Idle
         /\ AbsBlock([ResetProc(h) EXCEPT !.max_retx = MaxRetx]) = Abs!Idle
         /\ AbsBlock(h).n = h.n_rtx /\ (AbsBlock(h).st = "idle" <=> Empty(h))
         /\ AbsBlock(ResetPendingData(h)) = AbsBlock(h)
         /\ AbsBlock(HasPendingAck(h)) \in {AbsBlock(h), [st |-> "idle", n |-> h.n_rtx]}
         /\ \A tbs : AbsBlock(NewTx(h, tbs)) = [st |-> "sent", n |-> 0]
         /\ ~Empty(h) => AbsBlock(NewRetx(h)) = [st |-> "sent", n |-> Abs!Count(h.n_rtx)]
         /\ \A ack \in BOOLEAN :
              \/ AbsBlock(SetAck(h, ack)) = [st |-> "idle", n |-> h.n_rtx]
              \/ /\ AbsBlock(SetAck(h, ack)) = [st |-> "nacked", n |-> h.n_rtx]
                 /\ h.n_rtx + 1 < Most
  <1>1. /\ h.active \in BOOLEAN /\ h.ack \in BOOLEAN /\ h.ack_received \in BOOLEAN
        /\ h.n_rtx \in Nat /\ h.max_retx \in Nat \ {0} /\ h.max_retx <= Most /\ Most \in Nat
    BY MostType DEF Process
  <1>2. /\ AbsBlock(FreshProc) = Abs!Idle /\ AbsBlock(ResetProc(h)) = Abs!Idle
        /\ AbsBlock([ResetProc(h) EXCEPT !.max_retx = MaxRetx]) = Abs!Idle
    BY DEF AbsBlock, Empty, FreshProc, ResetProc, Abs!Idle, Process
  <1>3. AbsBlock(h).n = h.n_rtx /\ (AbsBlock(h).st = "idle" <=> Empty(h))
    BY DEF AbsBlock
  <1>4. AbsBlock(ResetPendingData(h)) = AbsBlock(h)
    BY DEF AbsBlock, Empty, ResetPendingData, Process
  <1>5. AbsBlock(HasPendingAck(h)) \in {AbsBlock(h), [st |-> "idle", n |-> h.n_rtx]}
    <2>1. CASE h.active /\ ~h.ack
      BY <1>1, <2>1 DEF AbsBlock, Empty, HasPendingAck, Process
    <2>2. CASE ~(h.active /\ ~h.ack)
      BY <1>1, <2>2 DEF AbsBlock, Empty, HasPendingAck, Process
    <2>3. QED
      BY <2>1, <2>2
  <1>6. ASSUME NEW tbs
        PROVE  AbsBlock(NewTx(h, tbs)) = [st |-> "sent", n |-> 0]
    <2>1. (h.max_retx > 0) = TRUE
      BY <1>1
    <2>2. /\ NewTx(h, tbs).active = TRUE /\ NewTx(h, tbs).ack_received = FALSE
          /\ NewTx(h, tbs).n_rtx = 0
      BY <2>1 DEF NewTx, ResetProc, Process
    <2>3. QED
      BY <2>2 DEF AbsBlock, Empty
  <1>7. ~Empty(h) => AbsBlock(NewRetx(h)) = [st |-> "sent", n |-> Abs!Count(h.n_rtx)]
    BY <1>1 DEF AbsBlock, Empty, NewRetx, Process, Abs!Count
  <1>8. ASSUME NEW ack \in BOOLEAN
        PROVE  \/ AbsBlock(SetAck(h, ack)) = [st |-> "idle", n |-> h.n_rtx]
               \/ /\ AbsBlock(SetAck(h, ack)) = [st |-> "nacked", n |-> h.n_rtx]
                  /\ h.n_rtx + 1 < Most
    BY <1>1 DEF AbsBlock, Empty, SetAck, Process
  <1>9. QED
    BY <1>2, <1>3, <1>4, <1>5, <1>6, <1>7, <1>8

\* Process p becomes the block v, the others stay.
Becomes(p, v) == tbBar' = [q \in Pids |-> [b \in {0} |-> IF q = p THEN v ELSE AbsBlock(harq[q])]]

LEMMA AbsOne ==
  ASSUME NEW p \in Pids, NEW h, harq \in [Pids -> Process], harq' = [harq EXCEPT ![p] = h]
  PROVE  Becomes(p, AbsBlock(h))
  BY DEF Becomes, tbBar

LEMMA AbsFeedback ==
  ASSUME NEW p \in Pids, NEW v, Becomes(p, v), harq[p] \in Process,
         \/ v = [st |-> "idle", n |-> harq[p].n_rtx]
         \/ v = [st |-> "nacked", n |-> harq[p].n_rtx] /\ harq[p].n_rtx + 1 < Most
  PROVE  Abs!Next
  <1>1. tbBar[p][0].n = harq[p].n_rtx
    BY AbsBlocks DEF tbBar
  <1>2. PICK lost \in SUBSET {0} :
          /\ \A b \in lost : tbBar[p][b].n + 1 < Most
          /\ v = IF 0 \in lost THEN [st |-> "nacked", n |-> tbBar[p][0].n]
                               ELSE [st |-> "idle", n |-> tbBar[p][0].n]
    <2>1. CASE v = [st |-> "idle", n |-> harq[p].n_rtx]
      <3>1. {} \in SUBSET {0} /\ 0 \notin {}
        OBVIOUS
      <3>2. QED
        BY <1>1, <2>1, <3>1
    <2>2. CASE v = [st |-> "nacked", n |-> harq[p].n_rtx] /\ harq[p].n_rtx + 1 < Most
      <3>1. {0} \in SUBSET {0} /\ 0 \in {0}
        OBVIOUS
      <3>2. QED
        BY <1>1, <2>2, <3>1
    <2>3. QED
      BY <2>1, <2>2
  <1>3. tbBar' = [tbBar EXCEPT ![p] = [b \in {0} |->
                    IF b \in lost THEN [st |-> "nacked", n |-> tbBar[p][b].n]
                    ELSE IF b \in {0} THEN [st |-> "idle", n |-> tbBar[p][b].n]
                    ELSE tbBar[p][b]]]
    BY <1>2 DEF Becomes, tbBar
  <1>4. {0} \in SUBSET {0} /\ lost \in SUBSET {0}
    OBVIOUS
  <1>5. QED
    BY <1>2, <1>3, <1>4 DEF Abs!Next, Abs!Feedback

\* New data in an idle block, or a block in use once more.
LEMMA AbsTransmit ==
  ASSUME NEW p \in Pids, NEW v, Becomes(p, v), harq[p] \in Process,
         \/ Empty(harq[p]) /\ v = [st |-> "sent", n |-> 0]
         \/ ~Empty(harq[p]) /\ v = [st |-> "sent", n |-> Abs!Count(harq[p].n_rtx)]
  PROVE  Abs!Next
  <1>1. /\ tbBar[p][0].n = harq[p].n_rtx
        /\ tbBar[p][0].st = "idle" <=> Empty(harq[p])
    BY AbsBlocks DEF tbBar
  <1> DEFINE again == IF Empty(harq[p]) THEN {} ELSE {0}
             fresh == {0} \ again
  <1>2. again = Abs!InUse(p)
    BY <1>1 DEF Abs!InUse
  <1>3. tbBar' = [q \in Pids |->
                   IF q = p THEN [b \in {0} |->
                       IF b \in fresh THEN [st |-> IF Most > 0 THEN "sent" ELSE "idle", n |-> 0]
                       ELSE IF b \in again THEN [st |-> "sent", n |-> Abs!Count(tbBar[p][b].n)]
                       ELSE tbBar[p][b]]
                   ELSE IF q \in {} THEN [b \in {0} |-> Abs!Idle] ELSE tbBar[q]]
    <2>1. v = IF 0 \in fresh THEN [st |-> IF Most > 0 THEN "sent" ELSE "idle", n |-> 0]
              ELSE [st |-> "sent", n |-> Abs!Count(tbBar[p][0].n)]
      BY <1>1, MostType
    <2>2. 0 \in fresh \/ 0 \in again
      OBVIOUS
    <2> HIDE DEF fresh, again
    <2>3. QED
      BY <2>1, <2>2 DEF Becomes, tbBar
  <1>4. /\ fresh \in SUBSET ({0} \ Abs!InUse(p)) /\ again \in SUBSET Abs!InUse(p)
        /\ {} \in SUBSET (Pids \ {p})
    BY <1>2
  <1> HIDE DEF fresh, again
  <1>5. Abs!Transmit(p)
    BY <1>3, <1>4, Zenon DEF Abs!Transmit
  <1>6. QED
    BY <1>5 DEF Abs!Next

LEMMA AbsReset ==
  ASSUME NEW ps \in SUBSET Pids,
         tbBar' = [q \in Pids |-> [b \in {0} |-> IF q \in ps THEN Abs!Idle ELSE AbsBlock(harq[q])]]
  PROVE  Abs!Next
  <1>1. tbBar' = [q \in Pids |-> IF q \in ps THEN [b \in {0} |-> Abs!Idle] ELSE tbBar[q]]
    BY DEF tbBar
  <1>2. QED
    BY <1>1 DEF Abs!Next, Abs!GiveUp

\* The data a process of current_tti loses is not seen by stop-and-wait.
LEMMA AbsUpdated ==
  ASSUME TypeOK, NEW r \in Pids, NEW h \in Process, Updated(r, h)
  PROVE  Becomes(r, AbsBlock(h))
  <1>1. AbsBlock(ResetPendingData(h)) = AbsBlock(h)
    BY AbsBlocks
  <1>2. \A q \in Pids : AbsBlock(ResetPendingData(harq[q])) = AbsBlock(harq[q])
    BY AbsBlocks DEF TypeOK
  <1>3. \A q \in Pids : AbsBlock(harq'[q]) = IF q = r THEN AbsBlock(h) ELSE AbsBlock(harq[q])
    BY <1>1, <1>2 DEF Updated
  <1>4. QED
    BY <1>3 DEF Becomes, tbBar

LEMMA AbsGrant ==
  ASSUME UnknownInv, NEW i, Grant(i)
  PROVE  Abs!Next \/ tbBar' = tbBar
  <1>0. TypeOK
    BY DEF UnknownInv
  <1>1. PICK s \in Slots, r \in Pids, h \in Process, kind \in Kinds : GrantOf(i, s, r, h, kind)
    BY <1>0, GrantSteps
  <1>2. Becomes(r, AbsBlock(h)) /\ harq[r] \in Process
    BY <1>0, <1>1, AbsUpdated DEF GrantOf, TypeOK
  <1>3. CASE Left(r, h)
    <2>1. CASE h = harq[r]
      <3>1. tbBar' = tbBar
        BY <1>2, <2>1 DEF Becomes, tbBar
      <3>2. QED
        BY <3>1
    <2>2. CASE h = ResetProc(harq[r])
      <3>1. AbsBlock(h) = Abs!Idle
        BY <1>2, <2>2, AbsBlocks
      <3>2. tbBar' = [q \in Pids |-> [b \in {0} |-> IF q \in {r} THEN Abs!Idle
                                                    ELSE AbsBlock(harq[q])]]
        BY <1>2, <3>1 DEF Becomes
      <3>3. QED
        BY <3>2, AbsReset
    <2>3. QED
      BY <1>3, <2>1, <2>2 DEF Left
  <1>4. CASE New(r, h) \/ (First(r, h) /\ Empty(harq[r]))
    <2>1. PICK m \in {MaxRetx, MaxMsg3}, tbs \in 1 .. MaxTbs :
            h = NewTx([harq[r] EXCEPT !.max_retx = m], tbs)
      BY <1>4 DEF New, First
    <2>2. [harq[r] EXCEPT !.max_retx = m] \in Process
      BY <1>2, ProcTypes
    <2>3. AbsBlock(h) = [st |-> "sent", n |-> 0]
      BY <2>1, <2>2, AbsBlocks
    <2>4. Empty(harq[r])
      BY <1>4 DEF New
    <2>5. QED
      BY <1>2, <2>3, <2>4, AbsTransmit
  <1>5. CASE Again(r, h)
    <2>1. ~Empty(harq[r]) /\ AbsBlock(h) = [st |-> "sent", n |-> Abs!Count(harq[r].n_rtx)]
      BY <1>2, <1>5, AbsBlocks DEF Again
    <2>2. QED
      BY <1>2, <2>1, AbsTransmit
  <1>6. CASE kind = "msg3" /\ First(r, h)
    <2>1. ~attached
      BY <1>1, <1>6 DEF UnknownInv, OneMsg3, GrantOf
    <2>2. Empty(harq[r])
      BY <2>1 DEF UnknownInv, NothingKnown, Empty
    <2>3. QED
      BY <1>4, <1>6, <2>2
  <1>7. Left(r, h) \/ New(r, h) \/ Again(r, h) \/ (kind = "msg3" /\ First(r, h))
    BY <1>1 DEF GrantOf
  <1>8. QED
    BY <1>3, <1>4, <1>5, <1>6, <1>7

LEMMA AbsOthers ==
  ASSUME TypeOK, NEW i,
         \/ DecodePusch(i) \/ DecodePucch(i) \/ RunDl(i) \/ EnterUl(i) \/ Phich(i)
         \/ Dispatch \/ End \/ UlBufferState \/ UeCfg \/ UNCHANGED vars
  PROVE  Abs!Next \/ tbBar' = tbBar
  <1>1. harq \in [Pids -> Process]
    BY DEF TypeOK
  <1>2. CASE UNCHANGED harq
    <2>1. tbBar' = tbBar
      BY <1>2 DEF tbBar
    <2>2. QED
      BY <2>1
  <1>3. CASE DecodePusch(i)
    <2>1. workers[i].tti % Rtt \in Pids
      BY <1>3, WorkerTyped DEF DecodePusch, At
    <2>2. PICK p \in Pids, ack \in BOOLEAN : harq' = [harq EXCEPT ![p] = SetAck(harq[p], ack)]
      BY <1>3, <2>1 DEF DecodePusch
    <2>3. Becomes(p, AbsBlock(SetAck(harq[p], ack)))
      BY <1>1, <2>2, AbsOne
    <2>4. \/ AbsBlock(SetAck(harq[p], ack)) = [st |-> "idle", n |-> harq[p].n_rtx]
          \/ /\ AbsBlock(SetAck(harq[p], ack)) = [st |-> "nacked", n |-> harq[p].n_rtx]
             /\ harq[p].n_rtx + 1 < Most
      BY <1>1, AbsBlocks
    <2>5. QED
      BY <1>1, <2>3, <2>4, AbsFeedback
  <1>4. CASE Phich(i)
    <2>1. PICK p \in Pids : harq' = [harq EXCEPT ![p] = HasPendingAck(harq[p])]
      BY <1>4, CurrentPid DEF Phich
    <2>2. Becomes(p, AbsBlock(HasPendingAck(harq[p])))
      BY <1>1, <2>1, AbsOne
    <2>3. CASE AbsBlock(HasPendingAck(harq[p])) = AbsBlock(harq[p])
      <3>1. tbBar' = tbBar
        BY <2>2, <2>3 DEF Becomes, tbBar
      <3>2. QED
        BY <3>1
    <2>4. CASE AbsBlock(HasPendingAck(harq[p])) = [st |-> "idle", n |-> harq[p].n_rtx]
      BY <1>1, <2>2, <2>4, AbsFeedback
    <2>5. QED
      BY <1>1, <2>3, <2>4, AbsBlocks
  <1>5. CASE UeCfg
    <2>1. \A p \in Pids : AbsBlock(harq'[p]) = Abs!Idle
      BY <1>1, <1>5, AbsBlocks DEF UeCfg
    <2>2. tbBar' = [q \in Pids |-> [b \in {0} |-> IF q \in Pids THEN Abs!Idle
                                                  ELSE AbsBlock(harq[q])]]
      BY <2>1 DEF tbBar
    <2>3. QED
      BY <2>2, AbsReset
  <1>6. QED
    BY <1>2, <1>3, <1>4, <1>5 DEF DecodePucch, RunDl, EnterUl, Dispatch, End, UlBufferState, vars

\* Whatever the workers, the CRCs and the grants: new data goes into an idle process only, a
\* block is repeated only while it is in use, and one known to be lost has a transmission left.
THEOREM UplinkIsStopAndWait == Spec => StopAndWait
  <1>1. Init => Abs!Init
    <2> SUFFICES ASSUME Init PROVE Abs!Init
      OBVIOUS
    <2>1. AbsBlock(FreshProc) = Abs!Idle
      BY DEF AbsBlock, Empty, FreshProc, Abs!Idle
    <2>2. QED
      BY <2>1 DEF Init, Abs!Init, tbBar
  <1>2. UnknownInv /\ [Next]_vars => [Abs!Next]_tbBar
    <2>1. UnknownInv /\ [Next]_vars => Abs!Next \/ tbBar' = tbBar
      BY AbsGrant, AbsOthers DEF UnknownInv, Next, Work
    <2>2. QED
      BY <2>1
  <1>3. QED
    BY <1>1, <1>2, UnknownIsInvariant, PTL DEF Spec, StopAndWait, Abs!Spec

-----------------------------------------------------------------------------
(* TTIs, processes and slots of a hyperframe that is a multiple of both.   *)

\* The subframe granted for has the process of the subframe received; the subframes
\* between the two have other processes and other slots.
LEMMA Tti ==
  ASSUME NEW t \in Ttis
  PROVE  /\ TtiAdd(t, 0) = t
         /\ TtiAdd(t, Rtt) % Rtt = t % Rtt
         /\ \A d \in Nat : TtiAdd(TtiAdd(t, 1), d) = TtiAdd(t, d + 1)
         /\ \A d \in 1 .. Rtt - 1 : /\ TtiAdd(t, d) % Rtt # t % Rtt
                                    /\ TtiAdd(t, d) % SlotMod # TtiAdd(t, Rtt) % SlotMod
  <1>1. /\ Rtt \in Nat \ {0} /\ SlotMod \in Nat \ {0} /\ TtiMod \in Nat \ {0} /\ Rtt < SlotMod
        /\ TtiMod % Rtt = 0 /\ TtiMod % SlotMod = 0 /\ t \in 0 .. TtiMod - 1 /\ t \in Nat
    BY Sizes, UlConstantsOK DEF UlConstantsOK, SlotMod, Ttis
  <1>2. \A d \in Nat : /\ TtiAdd(t, d) % Rtt = (t + d) % Rtt
                       /\ TtiAdd(t, d) % SlotMod = (t + d) % SlotMod
    <2>1. \A a \in Nat : /\ (a % TtiMod) % Rtt = a % Rtt
                         /\ (a % TtiMod) % SlotMod = a % SlotMod
      BY <1>1, ModMod
    <2>2. \A d \in Nat : t + d \in Nat
      BY <1>1
    <2>3. QED
      BY <2>1, <2>2 DEF TtiAdd
  <1>3. TtiAdd(t, 0) = t
    <2>1. (TtiMod * 0 + t) % TtiMod = t
      BY <1>1, Remainder
    <2>2. QED
      BY <1>1, <2>1 DEF TtiAdd
  <1>4. TtiAdd(t, Rtt) % Rtt = t % Rtt
    BY <1>1, <1>2, ModPlus
  <1>5. ASSUME NEW d \in Nat
        PROVE  TtiAdd(TtiAdd(t, 1), d) = TtiAdd(t, d + 1)
    <2>1. t + 1 \in Nat /\ (t + 1) + d = t + (d + 1)
      BY <1>1
    <2>2. (((t + 1) % TtiMod) + d) % TtiMod = ((t + 1) + d) % TtiMod
      BY <1>1, <2>1, ModAdd
    <2>3. QED
      BY <2>1, <2>2 DEF TtiAdd
  <1>6. ASSUME NEW d \in 1 .. Rtt - 1
        PROVE  /\ TtiAdd(t, d) % Rtt # t % Rtt
               /\ TtiAdd(t, d) % SlotMod # TtiAdd(t, Rtt) % SlotMod
    <2>1. d \in Nat /\ t + d \in Nat /\ Rtt - d \in 1 .. SlotMod - 1 /\ (t + d) + (Rtt - d) = t + Rtt
      BY <1>1
    <2>2. (t + d) % Rtt # t % Rtt
      BY <1>1, ModDistinct
    <2>3. (t + Rtt) % SlotMod # (t + d) % SlotMod
      BY <1>1, <2>1, ModDistinct
    <2>4. QED
      BY <1>1, <1>2, <2>1, <2>2, <2>3
  <1>7. QED
    BY <1>3, <1>4, <1>5, <1>6

-----------------------------------------------------------------------------
(***************************************************************************)
(* One worker. The CRC goes to the process of the received TTI, the PHICH  *)
(* and the grant to that of current_tti: with more workers another stores  *)
(* its own subframe there in between, and none of the three invariants     *)
(* below is true. With one, a grant that waits for its subframe has a      *)
(* process that owes feedback, and the worker keeps the process to itself  *)
(* from the CRC to the next grant.                                         *)
(***************************************************************************)

SingleWorker == NofWorkers = 1

\* A process in use owes the UE feedback.
FeedbackDue == \A p \in Pids : harq[p].active => harq[p].need_ack

Due(gs, hs, t) == gs[t % SlotMod] # "none" => hs[t % Rtt].need_ack

\* So does every process that a grant ahead of the reception was given to. The slot that is
\* Rtt - 1 ahead is written only at the end of a subframe.
GrantsAhead ==
    \A d \in 0 .. Rtt - 1 :
        (d = Rtt - 1 => \A i \in DOMAIN workers : workers[i].pc = "end") =>
            Due(grants, harq, TtiAdd(nextTti, d))

DataKept == \A p \in Pids : harq[p].pending_data > 0 => harq[p].need_ack \/ Updating(p)

\* What the worker knows of its process, step by step.
Turn(w, h, now, next) ==
    /\ next = TtiAdd(w.tti, 1)
    /\ w.pc \in {"phich", "grant"} => now = TtiAdd(w.tti, Rtt)
    /\ w.pc = "decode" => w.heard = "none"
    /\ w.pc \in {"dl", "enter", "phich"} =>
         /\ w.heard = "ok" => h.need_ack /\ h.ack
         /\ w.heard = "ko" => h.need_ack /\ ~h.ack
    /\ w.pc = "grant" /\ h.active => w.phich = "nack" /\ w.heard # "ok"
    /\ w.pc \in {"grant", "end"} => (w.heard = "ok" => w.phich = "ack")
                                 /\ (w.heard = "ko" => w.phich = "nack")
    /\ w.granted = "retx" => w.pc = "end" /\ w.phich = "nack" /\ w.heard # "ok"

TurnInv ==
    \A i \in DOMAIN workers :
        /\ i = 1 /\ Turn(workers[i], harq[workers[i].tti % Rtt], current, nextTti)
        /\ workers[i].pc = "decode" => Due(grants, harq, workers[i].tti)

WorkerInv == TypeOK /\ FeedbackDue /\ GrantsAhead /\ DataKept /\ TurnInv

\* The worker's step, seen as a change of its record.
LEMMA TheWorker ==
  ASSUME WorkerInv, NEW i \in DOMAIN workers
  PROVE  /\ i = 1 /\ DOMAIN workers = {1} /\ workers[1] \in Worker
         /\ Turn(workers[1], harq[workers[1].tti % Rtt], current, nextTti)
         /\ workers[1].tti \in Ttis /\ workers[1].tti % Rtt \in Pids
         /\ \A w : LET ws == [workers EXCEPT ![i] = w] IN DOMAIN ws = {1} /\ ws[1] = w
  <1>1. TypeOK /\ TurnInv
    BY DEF WorkerInv
  <1>2. i = 1 /\ DOMAIN workers = {1}
    BY <1>1 DEF TurnInv
  <1>3. workers[1] \in Worker /\ workers[1].tti \in Ttis /\ workers[1].tti % Rtt \in Pids
    BY <1>1, <1>2, WorkerTyped DEF Worker
  <1>4. QED
    BY <1>1, <1>2, <1>3 DEF TurnInv

\* All the other properties of a single worker follow.
LEMMA WorkerInvEnough ==
  ASSUME WorkerInv
  PROVE  PhichAnswers /\ RetxOnlyIfNacked /\ OldDataInFlight
  <1>1. PhichAnswers /\ RetxOnlyIfNacked
    <2> SUFFICES ASSUME NEW i \in DOMAIN workers
                 PROVE  /\ workers[i].pc \in {"grant", "end"} /\ workers[i].heard # "none" =>
                             workers[i].phich = IF workers[i].heard = "ok" THEN "ack" ELSE "nack"
                        /\ workers[i].granted = "retx" =>
                             workers[i].phich = "nack" /\ workers[i].heard # "ok"
      BY DEF PhichAnswers, RetxOnlyIfNacked
    <2>1. workers[i] \in Worker /\ i = 1
          /\ Turn(workers[1], harq[workers[1].tti % Rtt], current, nextTti)
      BY TheWorker
    <2>2. workers[i].heard \in Heard
      BY <2>1 DEF Worker
    <2>3. QED
      BY <2>1, <2>2 DEF Turn, Heard
  <1>2. OldDataInFlight
    BY DEF WorkerInv, DataKept, OldDataInFlight
  <1>3. QED
    BY <1>1, <1>2

LEMMA DispatchKeepsTurn ==
  ASSUME WorkerInv, SingleWorker, Dispatch
  PROVE  FeedbackDue' /\ GrantsAhead' /\ DataKept' /\ TurnInv'
  <1> DEFINE w == [tti |-> nextTti, pc |-> "decode", heard |-> "none", phich |-> "none",
                   granted |-> "none"]
  <1>1. workers = << >> /\ workers' = <<w>> /\ DOMAIN workers' = {1} /\ workers'[1] = w
    <2>1. workers \in Seq(Worker) /\ Len(workers) < 1
      BY DEF WorkerInv, TypeOK, SingleWorker, Dispatch
    <2>2. Len(workers) = 0
      BY <2>1, LenProperties
    <2>3. workers = << >>
      BY <2>1, <2>2, EmptySeq
    <2>4. workers' = <<w>>
      BY <2>3 DEF Dispatch
    <2> HIDE DEF w
    <2>5. QED
      BY <2>3, <2>4
  <1>2. UNCHANGED <<harq, grants, current>> /\ nextTti' = TtiAdd(nextTti, 1) /\ nextTti \in Ttis
    BY DEF Dispatch, WorkerInv, TypeOK
  <1>3. FeedbackDue'
    BY <1>2 DEF WorkerInv, FeedbackDue
  <1>4. \A d \in 0 .. Rtt - 1 : Due(grants, harq, TtiAdd(nextTti, d))
    BY <1>1 DEF WorkerInv, GrantsAhead
  <1>5. GrantsAhead'
    <2> SUFFICES ASSUME NEW d \in 0 .. Rtt - 1,
                        d = Rtt - 1 => \A i \in DOMAIN workers' : workers'[i].pc = "end"
                 PROVE  Due(grants, harq, TtiAdd(TtiAdd(nextTti, 1), d))
      BY <1>2 DEF GrantsAhead
    <2>1. d # Rtt - 1
      BY <1>1
    <2>2. d + 1 \in 0 .. Rtt - 1
      BY <2>1, Sizes
    <2>3. TtiAdd(TtiAdd(nextTti, 1), d) = TtiAdd(nextTti, d + 1)
      BY <1>2, Tti
    <2>4. QED
      BY <1>4, <2>2, <2>3
  <1>6. DataKept'
    BY <1>1, <1>2 DEF WorkerInv, DataKept, Updating
  <1>7. TurnInv'
    <2>1. Due(grants, harq, nextTti)
      <3>1. TtiAdd(nextTti, 0) = nextTti /\ 0 \in 0 .. Rtt - 1
        BY <1>2, Tti, Sizes
      <3>2. QED
        BY <1>4, <3>1
    <2>2. Turn(w, harq'[w.tti % Rtt], current', nextTti')
      BY <1>2 DEF Turn
    <2>3. w.pc = "decode" /\ w.tti = nextTti
      OBVIOUS
    <2> HIDE DEF w
    <2>4. QED
      BY <1>1, <1>2, <2>1, <2>2, <2>3 DEF TurnInv
  <1>8. QED
    BY <1>3, <1>5, <1>6, <1>7

LEMMA AheadTyped ==
  ASSUME nextTti \in Ttis
  PROVE  \A d \in 0 .. Rtt - 1 : /\ TtiAdd(nextTti, d) % Rtt \in Pids
                                 /\ TtiAdd(nextTti, d) % SlotMod \in Slots
  <1>1. nextTti \in Nat /\ \A d \in 0 .. Rtt - 1 : d \in Nat
    BY TtiNat
  <1>2. \A d \in 0 .. Rtt - 1 : TtiAdd(nextTti, d) \in Nat
    BY <1>1, TtiAddType, TtiNat
  <1>3. QED
    BY <1>2, PidType

\* A step of the worker between the reception and the grant touches its own process only.
LEMMA MoveKeepsTurn ==
  ASSUME WorkerInv, NEW i \in DOMAIN workers, NEW w, NEW h,
         workers[i].pc # "end", w.pc \notin {"decode", "end"}, w.tti = workers[i].tti,
         workers' = [workers EXCEPT ![i] = w],
         harq' = [harq EXCEPT ![workers[i].tti % Rtt] = h],
         UNCHANGED <<grants, nextTti>>,
         h.active => h.need_ack,
         Turn(w, h, current', nextTti)
  PROVE  FeedbackDue' /\ GrantsAhead' /\ DataKept' /\ TurnInv'
  <1> DEFINE p == workers[i].tti % Rtt
  <1>1. /\ i = 1 /\ DOMAIN workers = {1} /\ p \in Pids /\ workers[1].tti \in Ttis
        /\ Turn(workers[1], harq[workers[1].tti % Rtt], current, nextTti)
    BY TheWorker
  <1>2. DOMAIN workers' = {1} /\ workers'[1] = w
    BY TheWorker
  <1>3. harq \in [Pids -> Process]
    BY DEF WorkerInv, TypeOK
  <1>4. harq'[p] = h /\ \A q \in Pids \ {p} : harq'[q] = harq[q]
    BY <1>1, <1>3
  <1>5. FeedbackDue'
    BY <1>1, <1>4 DEF WorkerInv, FeedbackDue
  <1>6. GrantsAhead'
    <2> SUFFICES ASSUME NEW d \in 0 .. Rtt - 1,
                        d = Rtt - 1 => \A j \in DOMAIN workers' : workers'[j].pc = "end"
                 PROVE  Due(grants, harq', TtiAdd(nextTti, d))
      BY DEF GrantsAhead
    <2>1. d # Rtt - 1
      BY <1>2
    <2>2. d + 1 \in 1 .. Rtt - 1 /\ d \in Nat
      BY <2>1, Sizes
    <2>3. TtiAdd(nextTti, d) = TtiAdd(workers[1].tti, d + 1)
      BY <1>1, <2>2, Tti DEF Turn
    <2>4. TtiAdd(nextTti, d) % Rtt # p
      BY <1>1, <2>2, <2>3, Tti
    <2>5. TtiAdd(nextTti, d) % Rtt \in Pids
      BY AheadTyped DEF WorkerInv, TypeOK
    <2>6. Due(grants, harq, TtiAdd(nextTti, d))
      BY <2>1 DEF WorkerInv, GrantsAhead
    <2> HIDE DEF p
    <2>7. QED
      BY <1>4, <2>4, <2>5, <2>6 DEF Due
  <1>7. DataKept'
    <2>1. \A q \in Pids : q = p => Updating(q)'
      BY <1>1, <1>2 DEF Updating
    <2>2. \A q \in Pids : Updating(q) => Updating(q)'
      BY <1>1, <1>2 DEF Updating
    <2>3. \A q \in Pids \ {p} : harq'[q] = harq[q]
      BY <1>4
    <2>4. \A q \in Pids : harq[q].pending_data > 0 => harq[q].need_ack \/ Updating(q)
      BY DEF WorkerInv, DataKept
    <2> HIDE DEF p
    <2>5. ASSUME NEW q \in Pids, harq'[q].pending_data > 0
          PROVE  harq'[q].need_ack \/ Updating(q)'
      <3>1. CASE q = p
        BY <2>1, <3>1
      <3>2. CASE q # p
        BY <2>2, <2>3, <2>4, <2>5, <3>2
      <3>3. QED
        BY <3>1, <3>2
    <2>6. QED
      BY <2>5 DEF DataKept
  <1>8. TurnInv'
    BY <1>1, <1>2, <1>4 DEF TurnInv
  <1>9. QED
    BY <1>5, <1>6, <1>7, <1>8

LEMMA WorkKeepsTurn ==
  ASSUME WorkerInv, NEW i,
         DecodePusch(i) \/ DecodePucch(i) \/ RunDl(i) \/ EnterUl(i) \/ Phich(i)
  PROVE  FeedbackDue' /\ GrantsAhead' /\ DataKept' /\ TurnInv'
  <1> DEFINE p == workers[i].tti % Rtt
             h == harq[p]
  <1>1. /\ i \in DOMAIN workers
        /\ workers[i].pc \in {"decode", "dl", "enter", "phich"}
        /\ UNCHANGED <<grants, nextTti>>
    BY DEF DecodePusch, DecodePucch, RunDl, EnterUl, Phich, At
  <1>2. /\ i = 1 /\ workers[i] \in Worker /\ p \in Pids /\ workers[i].tti \in Ttis
        /\ Turn(workers[i], h, current, nextTti)
        /\ workers[i].pc = "decode" => Due(grants, harq, workers[i].tti)
    BY <1>1, TheWorker DEF WorkerInv, TurnInv
  <1>3. harq \in [Pids -> Process] /\ h \in Process /\ (h.active => h.need_ack)
    BY <1>2 DEF WorkerInv, TypeOK, FeedbackDue
  <1>4. UNCHANGED harq => harq' = [harq EXCEPT ![p] = h]
    BY <1>2, <1>3
  <1>5. workers[i].granted # "retx"
    BY <1>1, <1>2 DEF Turn
  <1>6. CASE DecodePusch(i)
    <2>1. PICK ok \in BOOLEAN :
            /\ harq' = [harq EXCEPT ![p] = SetAck(h, ok)]
            /\ workers' = [workers EXCEPT ![i] = [workers[i] EXCEPT
                             !.pc = "dl", !.heard = IF ok THEN "ok" ELSE "ko"]]
      BY <1>6 DEF DecodePusch
    <2> DEFINE w == [workers[i] EXCEPT !.pc = "dl", !.heard = IF ok THEN "ok" ELSE "ko"]
    <2>2. /\ w.tti = workers[i].tti /\ w.pc = "dl" /\ w.granted = workers[i].granted
          /\ w.heard = IF ok THEN "ok" ELSE "ko"
      BY <1>2 DEF Worker
    <2>3. h.need_ack
      BY <1>2, <1>6 DEF Due, DecodePusch, At
    <2>4. SetAck(h, ok).need_ack /\ SetAck(h, ok).ack = ok
      BY <1>3, <2>3 DEF SetAck, Process
    <2>5. current' = current
      BY <1>6 DEF DecodePusch
    <2> HIDE DEF w
    <2>6. Turn(w, SetAck(h, ok), current', nextTti)
      BY <1>2, <1>5, <2>2, <2>4 DEF Turn
    <2>7. workers' = [workers EXCEPT ![i] = w]
      BY <2>1 DEF w
    <2> HIDE DEF h
    <2>8. QED
      BY <1>1, <2>1, <2>2, <2>4, <2>6, <2>7, MoveKeepsTurn
  <1>7. CASE Phich(i)
    <2> DEFINE a == IF ~h.need_ack THEN "none" ELSE IF h.ack THEN "ack" ELSE "nack"
               w == [workers[i] EXCEPT !.pc = "grant", !.phich = a]
    <2>1. workers[i].pc = "phich" /\ current = TtiAdd(workers[i].tti, Rtt)
      BY <1>2, <1>7 DEF Phich, At, Turn
    <2>2. current % Rtt = p
      BY <1>2, <2>1, Tti
    <2>3. /\ harq' = [harq EXCEPT ![p] = HasPendingAck(h)]
          /\ workers' = [workers EXCEPT ![i] = w] /\ current' = current
      BY <1>7, <2>2 DEF Phich
    <2>4. /\ w.tti = workers[i].tti /\ w.pc = "grant" /\ w.granted = workers[i].granted
          /\ w.heard = workers[i].heard /\ w.phich = a
      BY <1>2 DEF Worker
    <2>5. HasPendingAck(h).active => HasPendingAck(h).need_ack /\ h.active /\ ~h.ack
      BY <1>3 DEF HasPendingAck, Process
    <2>6. workers[i].heard = "ok" => h.need_ack /\ h.ack
      BY <1>2, <2>1 DEF Turn
    <2>7. workers[i].heard = "ko" => h.need_ack /\ ~h.ack
      BY <1>2, <2>1 DEF Turn
    <2>8. HasPendingAck(h).active => a = "nack" /\ workers[i].heard # "ok"
      BY <1>3, <2>5, <2>6
    <2>9. (workers[i].heard = "ok" => a = "ack") /\ (workers[i].heard = "ko" => a = "nack")
      BY <2>6, <2>7
    <2> HIDE DEF w, a, h
    <2>10. Turn(w, HasPendingAck(h), current', nextTti)
      BY <1>2, <1>5, <2>1, <2>3, <2>4, <2>8, <2>9 DEF Turn
    <2>11. QED
      BY <1>1, <2>1, <2>3, <2>4, <2>5, <2>10, MoveKeepsTurn
  <1>8. CASE DecodePucch(i) \/ RunDl(i) \/ EnterUl(i)
    <2>1. PICK pc \in {"dl", "enter", "phich"} :
            /\ workers' = [workers EXCEPT ![i] = [workers[i] EXCEPT !.pc = pc]]
            /\ pc = "dl" => workers[i].pc = "decode"
            /\ pc = "phich" => current' = TtiAdd(workers[i].tti, Rtt)
      BY <1>8 DEF DecodePucch, RunDl, EnterUl, Goto, At
    <2> DEFINE w == [workers[i] EXCEPT !.pc = pc]
    <2>2. /\ w.tti = workers[i].tti /\ w.pc = pc /\ w.granted = workers[i].granted
          /\ w.heard = workers[i].heard
      BY <1>2 DEF Worker
    <2>3. workers[i].pc \in {"decode", "dl", "enter"}
      BY <1>8 DEF DecodePucch, RunDl, EnterUl, At
    <2>4. workers' = [workers EXCEPT ![i] = w]
      BY <2>1
    <2>5. UNCHANGED harq
      BY <1>8 DEF DecodePucch, RunDl, EnterUl
    <2> HIDE DEF w, h
    <2>6. Turn(w, h, current', nextTti)
      BY <1>2, <1>5, <2>1, <2>2, <2>3 DEF Turn
    <2>7. QED
      BY <1>1, <1>3, <1>4, <2>1, <2>2, <2>3, <2>4, <2>5, <2>6, MoveKeepsTurn
  <1>9. QED
    BY <1>6, <1>7, <1>8

LEMMA NewTxOwes ==
  ASSUME NEW h \in Process, NEW tbs
  PROVE  NewTx(h, tbs).need_ack
  BY DEF NewTx, ResetProc, Process

\* A process that was given a grant owes feedback; one that was given up has no data left.
LEMMA GrantedProcess ==
  ASSUME TypeOK, FeedbackDue, NEW r \in Pids, NEW h \in Process
  PROVE  LET x == ResetPendingData(h) IN
         /\ New(r, h) \/ First(r, h) \/ Again(r, h) => x.need_ack
         /\ New(r, h) \/ First(r, h) \/ Again(r, h) \/ Left(r, h) =>
              (x.active => x.need_ack) /\ (x.pending_data > 0 => x.need_ack)
  <1> DEFINE x == ResetPendingData(h)
  <1>1. harq[r] \in Process /\ (harq[r].active => harq[r].need_ack)
    BY DEF TypeOK, FeedbackDue
  <1>2. New(r, h) \/ First(r, h) => h.need_ack
    <2> SUFFICES ASSUME New(r, h) \/ First(r, h) PROVE h.need_ack
      OBVIOUS
    <2>1. PICK m \in {MaxRetx, MaxMsg3, harq[r].max_retx}, tbs \in 1 .. MaxTbs :
            h = NewTx([harq[r] EXCEPT !.max_retx = m], tbs)
      BY DEF New, First
    <2>2. [harq[r] EXCEPT !.max_retx = m] \in Process
      BY <1>1 DEF Process
    <2>3. QED
      BY <2>1, <2>2, NewTxOwes
  <1>3. Again(r, h) => h.need_ack
    BY <1>1 DEF Again, Empty, NewRetx, Process
  <1>4. Left(r, h) => (h.active => h.need_ack)
    BY <1>1 DEF Left, ResetProc, Process
  <1>5. x.active = h.active /\ x.need_ack = h.need_ack /\ (~h.active => x.pending_data = 0)
    BY DEF ResetPendingData, Process
  <1> HIDE DEF x
  <1>6. QED
    BY <1>2, <1>3, <1>4, <1>5 DEF x

LEMMA GrantKeepsTurn ==
  ASSUME WorkerInv, NEW i, Grant(i)
  PROVE  FeedbackDue' /\ GrantsAhead' /\ DataKept' /\ TurnInv'
  <1>0. TypeOK /\ FeedbackDue /\ harq \in [Pids -> Process] /\ grants \in [Slots -> Kinds]
    BY DEF WorkerInv, TypeOK
  <1>1. PICK s \in Slots, r \in Pids, h \in Process, kind \in Kinds : GrantOf(i, s, r, h, kind)
    BY <1>0, GrantSteps
  <1> DEFINE t == workers[1].tti
             p == t % Rtt
             x == ResetPendingData(h)
             w == [workers[1] EXCEPT !.pc = "end", !.granted = kind]
  <1>2. /\ i = 1 /\ DOMAIN workers = {1} /\ workers[1] \in Worker /\ workers[1].pc = "grant"
        /\ t \in Ttis /\ p \in Pids /\ Turn(workers[1], harq[p], current, nextTti)
    BY <1>1, TheWorker DEF GrantOf
  <1>3. current % Rtt = p /\ TtiAdd(t, Rtt) % Rtt = p /\ nextTti = TtiAdd(t, 1)
    BY <1>2, Tti DEF Turn
  <1>4. /\ s = TtiAdd(t, Rtt) % SlotMod /\ r = p /\ grants' = [grants EXCEPT ![s] = kind]
        /\ workers' = [workers EXCEPT ![i] = w]
        /\ current' = current /\ nextTti' = nextTti
    BY <1>1, <1>2, <1>3 DEF GrantOf
  <1>5. DOMAIN workers' = {1} /\ workers'[1] = w
    BY <1>2, <1>4, TheWorker
  <1>6. harq'[p] = x /\ \A q \in Pids \ {p} : harq'[q] = harq[q]
    BY <1>1, <1>2, <1>3, <1>4 DEF GrantOf, Updated
  <1>7. /\ x.active => x.need_ack
        /\ x.pending_data > 0 => x.need_ack
        /\ kind # "none" => x.need_ack
    <2>1. Left(r, h) \/ New(r, h) \/ Again(r, h) \/ First(r, h)
      BY <1>1 DEF GrantOf
    <2>2. kind # "none" => New(r, h) \/ Again(r, h) \/ First(r, h)
      BY <1>1 DEF GrantOf
    <2>3. QED
      BY <1>0, <2>1, <2>2, GrantedProcess
  <1>8. kind = "retx" => workers[1].phich = "nack" /\ workers[1].heard # "ok"
    <2>1. kind = "retx" => harq[p].active
      BY <1>1, <1>4 DEF GrantOf, Again, Empty
    <2>2. QED
      BY <1>2, <2>1 DEF Turn
  <1>9. /\ w.pc = "end" /\ w.tti = t /\ w.granted = kind
        /\ w.heard = workers[1].heard /\ w.phich = workers[1].phich
    BY <1>2 DEF Worker
  <1> HIDE DEF x, w
  <1>10. FeedbackDue'
    BY <1>0, <1>6, <1>7 DEF FeedbackDue
  <1>11. GrantsAhead'
    <2> SUFFICES ASSUME NEW d \in 0 .. Rtt - 1
                 PROVE  Due(grants', harq', TtiAdd(nextTti, d))
      BY <1>4 DEF GrantsAhead
    <2>0. d \in Nat /\ TtiAdd(nextTti, d) = TtiAdd(t, d + 1)
      BY <1>2, <1>3, Sizes, Tti
    <2>1. CASE d = Rtt - 1
      <3>1. TtiAdd(nextTti, d) = TtiAdd(t, Rtt)
        BY <2>0, <2>1, Sizes
      <3>2. grants'[s] = kind
        BY <1>0, <1>4
      <3>3. QED
        BY <1>3, <1>4, <1>6, <1>7, <3>1, <3>2 DEF Due
    <2>2. CASE d # Rtt - 1
      <3>1. d + 1 \in 1 .. Rtt - 1
        BY <2>2, Sizes
      <3>2. TtiAdd(nextTti, d) % Rtt # p /\ TtiAdd(nextTti, d) % SlotMod # s
        BY <1>2, <1>4, <2>0, <3>1, Tti
      <3>3. TtiAdd(nextTti, d) % Rtt \in Pids /\ TtiAdd(nextTti, d) % SlotMod \in Slots
        BY <1>0, AheadTyped DEF TypeOK
      <3>4. Due(grants, harq, TtiAdd(nextTti, d))
        BY <2>2 DEF WorkerInv, GrantsAhead
      <3> HIDE DEF p, t
      <3>5. QED
        BY <1>0, <1>4, <1>6, <3>2, <3>3, <3>4 DEF Due
    <2>3. QED
      BY <2>1, <2>2
  <1>12. DataKept'
    <2>1. \A q \in Pids \ {p} : harq[q].pending_data > 0 => harq[q].need_ack
      BY <1>2 DEF WorkerInv, DataKept, Updating
    <2> HIDE DEF p
    <2>2. \A q \in Pids : harq'[q].pending_data > 0 => harq'[q].need_ack
      BY <1>6, <1>7, <2>1
    <2>3. QED
      BY <2>2 DEF DataKept
  <1>13. TurnInv'
    <2>1. Turn(w, x, current, nextTti)
      BY <1>2, <1>8, <1>9 DEF Turn
    <2>2. QED
      BY <1>4, <1>5, <1>6, <1>9, <2>1 DEF TurnInv
  <1>14. QED
    BY <1>10, <1>11, <1>12, <1>13

LEMMA EndKeepsTurn ==
  ASSUME WorkerInv, End
  PROVE  FeedbackDue' /\ GrantsAhead' /\ DataKept' /\ TurnInv'
  <1>1. workers \in Seq(Worker) /\ workers # << >> /\ Head(workers).pc = "end"
    BY DEF WorkerInv, TypeOK, End
  <1>2. 1 \in DOMAIN workers /\ Head(workers) = workers[1]
    BY <1>1, LenProperties, HeadTailProperties
  <1>3. DOMAIN workers = {1} /\ workers[1].pc = "end"
    BY <1>1, <1>2, TheWorker
  <1>4. DOMAIN workers' = {}
    <2>1. Len(workers) = 1
      BY <1>1, <1>3, LenProperties
    <2>2. workers' \in Seq(Worker) /\ Len(workers') = 0
      BY <1>1, <2>1, HeadTailProperties DEF End
    <2>3. QED
      BY <2>2, LenProperties
  <1>5. UNCHANGED <<harq, grants, current, nextTti>>
    BY DEF End
  <1>6. FeedbackDue' /\ GrantsAhead' /\ TurnInv'
    BY <1>3, <1>4, <1>5 DEF WorkerInv, FeedbackDue, GrantsAhead, TurnInv
  <1>7. DataKept'
    BY <1>3, <1>5 DEF WorkerInv, DataKept, Updating
  <1>8. QED
    BY <1>6, <1>7

LEMMA UpperKeepsTurn ==
  ASSUME WorkerInv, UlBufferState \/ UeCfg \/ UNCHANGED vars
  PROVE  FeedbackDue' /\ GrantsAhead' /\ DataKept' /\ TurnInv'
  <1>1. CASE UlBufferState \/ UNCHANGED vars
    <2>1. UNCHANGED <<harq, grants, current, workers, nextTti>>
      BY <1>1 DEF UlBufferState, vars
    <2>2. QED
      BY <2>1 DEF WorkerInv, FeedbackDue, GrantsAhead, DataKept, Updating, TurnInv
  <1>2. CASE UeCfg
    <2>1. UNCHANGED <<grants, current, nextTti>> /\ DOMAIN workers' = DOMAIN workers
      BY <1>2 DEF UeCfg
    <2>2. \A q \in Pids : /\ ~harq'[q].active /\ harq'[q].need_ack = harq[q].need_ack
                          /\ harq'[q].pending_data = harq[q].pending_data
      BY <1>2 DEF WorkerInv, TypeOK, UeCfg, ResetProc, Process
    <2>3. \A i \in DOMAIN workers :
            /\ workers'[i].heard = "none" /\ workers'[i].tti = workers[i].tti
            /\ workers'[i].pc = workers[i].pc /\ workers'[i].phich = workers[i].phich
            /\ workers'[i].granted = workers[i].granted /\ workers[i].tti % Rtt \in Pids
      <3>1. \A i \in DOMAIN workers : workers[i] \in Worker /\ workers[i].tti % Rtt \in Pids
        BY WorkerTyped DEF WorkerInv
      <3>2. QED
        BY <1>2, <3>1 DEF UeCfg, Worker
    <2>4. FeedbackDue'
      BY <2>2 DEF FeedbackDue
    <2>5. GrantsAhead'
      <3>1. \A d \in 0 .. Rtt - 1 : TtiAdd(nextTti, d) % Rtt \in Pids
        BY AheadTyped DEF WorkerInv, TypeOK
      <3>2. QED
        BY <2>1, <2>2, <2>3, <3>1 DEF WorkerInv, GrantsAhead, Due
    <2>6. DataKept'
      BY <2>1, <2>2, <2>3 DEF WorkerInv, DataKept, Updating
    <2>7. TurnInv'
      BY <2>1, <2>2, <2>3 DEF WorkerInv, TurnInv, Turn, Due
    <2>8. QED
      BY <2>4, <2>5, <2>6, <2>7
  <1>3. QED
    BY <1>1, <1>2

LEMMA WorkerInvHolds ==
  ASSUME SingleWorker
  PROVE  Spec => []WorkerInv
  <1>1. Init => FeedbackDue /\ GrantsAhead /\ DataKept /\ TurnInv
    <2> SUFFICES ASSUME Init PROVE FeedbackDue /\ GrantsAhead /\ DataKept /\ TurnInv
      OBVIOUS
    <2>1. FeedbackDue /\ DataKept
      BY DEF Init, FeedbackDue, DataKept, FreshProc
    <2>2. GrantsAhead
      <3>1. \A d \in 0 .. Rtt - 1 : TtiAdd(nextTti, d) % SlotMod \in Slots
        BY AheadTyped DEF Init
      <3>2. QED
        BY <3>1 DEF Init, GrantsAhead, Due
    <2>3. TurnInv
      BY DEF Init, TurnInv
    <2>4. QED
      BY <2>1, <2>2, <2>3
  <1>2. WorkerInv /\ [Next]_vars => FeedbackDue' /\ GrantsAhead' /\ DataKept' /\ TurnInv'
    BY DispatchKeepsTurn, WorkKeepsTurn, GrantKeepsTurn, EndKeepsTurn, UpperKeepsTurn
       DEF Next, Work
  <1>3. QED
    BY <1>1, <1>2, UlTypeCorrect, PTL DEF Spec, WorkerInv

\* With one worker the PHICH answers what was received in the subframe.
THEOREM PhichIsRight ==
  ASSUME SingleWorker
  PROVE  Spec => []PhichAnswers
  BY WorkerInvHolds, WorkerInvEnough, PTL

\* With one worker only a block whose last reception failed is granted again.
THEOREM RetxIsRight ==
  ASSUME SingleWorker
  PROVE  Spec => []RetxOnlyIfNacked
  BY WorkerInvHolds, WorkerInvEnough, PTL

\* With one worker no data is counted as on its way for ever: its process is in use, owes
\* feedback, or is being worked on.
THEOREM OldDataIsInFlight ==
  ASSUME SingleWorker
  PROVE  Spec => []OldDataInFlight
  BY WorkerInvHolds, WorkerInvEnough, PTL
=============================================================================
