---------------------------- MODULE DlHarqProofs ----------------------------
(***************************************************************************)
(* Theorems about DlHarq, for every value of its constants: any number of  *)
(* workers, processes and TTIs, with reconfigurations; and at the end what *)
(* holds with one worker and no reconfiguration.                           *)
(***************************************************************************)
EXTENDS DlHarq, ModArith, SequenceTheorems, TLAPS

\* A TTI of the hyperframe comes out of every addition.
LEMMA TtiAddType == \A t, d \in Nat : TtiAdd(t, d) \in Ttis
  <1>1. TtiMod \in Nat \ {0}
    BY ConstantsOK DEF ConstantsOK
  <1>2. QED
    BY <1>1, ModRange DEF TtiAdd, Ttis

LEMMA IdleTypes == IdleTb \in TbState /\ IdleProc \in Process
  <1>1. IdleTb \in TbState
    BY ConstantsOK DEF ConstantsOK, IdleTb, TbState
  <1>2. 0 \in Ttis
    BY ConstantsOK DEF ConstantsOK, Ttis
  <1>3. QED
    BY <1>1, <1>2 DEF IdleProc, Process

LEMMA TbTypes ==
  ASSUME NEW s \in TbState, NEW ack \in BOOLEAN
  PROVE  SetAckTb(s, ack) \in TbState /\ NewTxTb \in TbState /\ RetxTb(s) \in TbState
  <1>1. /\ s.active \in BOOLEAN /\ s.ack \in BOOLEAN /\ s.n_rtx \in 0 .. MaxRetx + 1
        /\ s.tx_cnt \in 0 .. 1
    BY DEF TbState
  <1>2. SetAckTb(s, ack) \in TbState
    <2>1. (s.active /\ s.n_rtx + 1 < MaxRetx) \in BOOLEAN
      OBVIOUS
    <2>2. QED
      BY <2>1 DEF SetAckTb, TbState
  <1>3. NewTxTb \in TbState
    <2>1. (MaxRetx > 0) \in BOOLEAN /\ 0 \in 0 .. MaxRetx + 1
      BY ConstantsOK DEF ConstantsOK
    <2>2. 1 \in 0 .. 1
      OBVIOUS
    <2>3. QED
      BY <2>1, <2>2, Zenon DEF NewTxTb, TbState
  <1>4. RetxTb(s) \in TbState
    <2>1. (IF s.n_rtx > MaxRetx THEN s.n_rtx ELSE s.n_rtx + 1) \in 0 .. MaxRetx + 1
      BY <1>1, ConstantsOK DEF ConstantsOK
    <2>2. QED
      BY <2>1 DEF RetxTb, TbState
  <1>5. QED
    BY <1>2, <1>3, <1>4

\* The three ways a step changes the processes keep their type.
LEMMA ProcessTypes ==
  ASSUME NEW procs \in [Procs -> Process], NEW t \in Ttis
  PROVE  /\ TimeOut(procs, t) \in [Procs -> Process]
         /\ \A n, flagged : \A ack \in [TBs -> BOOLEAN] :
               AckInfo(procs, n, flagged, ack) \in [Procs -> Process]
         /\ \A p \in Procs : \A fresh, again :
               Transmit(procs[p], t, fresh, again) \in Process
  <1>1. TimeOut(procs, t) \in [Procs -> Process]
    BY IdleTypes DEF TimeOut
  <1>2. ASSUME NEW n, NEW flagged, NEW ack \in [TBs -> BOOLEAN]
        PROVE  AckInfo(procs, n, flagged, ack) \in [Procs -> Process]
    <2>1. ASSUME NEW p \in Procs
          PROVE  [tti |-> procs[p].tti,
                  tb  |-> [b \in TBs |-> IF b \in flagged THEN SetAckTb(procs[p].tb[b], ack[b])
                                                          ELSE procs[p].tb[b]]] \in Process
      <3>1. procs[p].tti \in Ttis /\ procs[p].tb \in [TBs -> TbState]
        BY DEF Process
      <3>2. \A b \in TBs : SetAckTb(procs[p].tb[b], ack[b]) \in TbState
        BY <3>1, TbTypes
      <3>3. [b \in TBs |-> IF b \in flagged THEN SetAckTb(procs[p].tb[b], ack[b])
                                            ELSE procs[p].tb[b]] \in [TBs -> TbState]
        BY <3>1, <3>2
      <3>4. QED
        BY <3>1, <3>3 DEF Process
    <2>2. QED
      BY <2>1 DEF AckInfo
  <1>3. ASSUME NEW p \in Procs, NEW fresh, NEW again
        PROVE  Transmit(procs[p], t, fresh, again) \in Process
    <2>1. procs[p].tb \in [TBs -> TbState]
      BY DEF Process
    <2>2. \A b \in TBs : NewTxTb \in TbState /\ RetxTb(procs[p].tb[b]) \in TbState
      BY <2>1, TbTypes
    <2>3. [b \in TBs |-> IF b \in fresh THEN NewTxTb
                         ELSE IF b \in again THEN RetxTb(procs[p].tb[b])
                         ELSE procs[p].tb[b]] \in [TBs -> TbState]
      BY <2>1, <2>2
    <2>4. QED
      BY <2>3 DEF Transmit, Process
  <1>4. QED
    BY <1>1, <1>2, <1>3

\* Every format makes a grant for the process it is given, or none.
LEMMA GrantTypes ==
  ASSUME TypeOK, selected \in Procs, NEW taken, NEW g \in GrantFor(taken)
  PROVE  g \in Grants /\ g.pid \in {selected, NoProc}
  <1>0. 0 \in TBs
    BY ConstantsOK DEF ConstantsOK
  <1>1. CASE dedicated /\ Mimo
    <2>1. g \in Format2(selected, taken)
      BY <1>1 DEF GrantFor
    <2>2. PICK fresh, busy \in SUBSET TBs :
            /\ fresh \in SUBSET TBs
            /\ g = [pid |-> IF busy \cup fresh = {} THEN NoProc ELSE selected,
                    fresh |-> fresh, again |-> busy, data |-> fresh # {}, conres |-> FALSE]
      <3> DEFINE busy == {b \in TBs : ~TbEmpty(harq[selected].tb[b])}
                 tbEn == IF ri = 0 THEN (IF 1 \in busy THEN {1} ELSE {0})
                         ELSE IF busy = {} THEN TBs ELSE busy
      <3>1. busy \in SUBSET TBs /\ tbEn \in SUBSET TBs
        BY <1>0
      <3>2. PICK fresh \in SUBSET (IF ri = 0 \/ busy = {} THEN tbEn \ busy ELSE {}) :
              g = [pid |-> IF busy \cup fresh = {} THEN NoProc ELSE selected,
                   fresh |-> fresh, again |-> busy, data |-> fresh # {}, conres |-> FALSE]
        BY <2>1, Zenon DEF Format2
      <3>3. fresh \in SUBSET TBs
        BY <3>1, <3>2
      <3>4. QED
        BY <3>1, <3>2, <3>3
    <2>3. (fresh # {}) \in BOOLEAN
      OBVIOUS
    <2>4. QED
      BY <2>2, <2>3 DEF Grants
  <1>2. CASE ~(dedicated /\ Mimo)
    <2>1. g = Format1(selected, taken)
      BY <1>2 DEF GrantFor
    <2>2. (taken > 0) \in BOOLEAN /\ IsFirstDlTx \in BOOLEAN
      BY DEF IsFirstDlTx
    <2>3. QED
      BY <1>0, <2>1, <2>2 DEF Format1, Grants
  <1>3. QED
    BY <1>1, <1>2

LEMMA NoProcNotProc == NoProc \notin Procs
  BY ConstantsOK DEF ConstantsOK, NoProc, Procs

\* A worker that moves on keeps the list well formed.
LEMMA WorkersTypes ==
  ASSUME TypeOK, NEW i \in DOMAIN workers, NEW w \in Worker,
         workers' = [workers EXCEPT ![i] = w]
  PROVE  workers' \in Seq(Worker) /\ Len(workers') <= NofWorkers
  <1>1. workers \in Seq(Worker) /\ Len(workers) <= NofWorkers
    BY DEF TypeOK
  <1>2. QED
    BY <1>1, ExceptSeq, LenProperties

LEMMA GotoTypes ==
  ASSUME TypeOK, NEW i \in DOMAIN workers, Goto(i, "enter") \/ Goto(i, "select")
         \/ Goto(i, "generate") \/ Goto(i, "ul") \/ Goto(i, "send") \/ Goto(i, "end")
  PROVE  workers' \in Seq(Worker) /\ Len(workers') <= NofWorkers
  <1>1. workers[i] \in Worker
    BY LenProperties DEF TypeOK
  <1>2. PICK pc \in {"enter", "select", "generate", "ul", "send", "end"} : Goto(i, pc)
    OBVIOUS
  <1>3. [workers[i] EXCEPT !.pc = pc] \in Worker
    BY <1>1 DEF Worker
  <1>4. workers' = [workers EXCEPT ![i] = [workers[i] EXCEPT !.pc = pc]]
    BY <1>2 DEF Goto
  <1>5. QED
    BY <1>3, <1>4, WorkersTypes

LEMMA GenerateTypes ==
  ASSUME TypeOK, NEW i \in 1 .. NofWorkers, Generate(i)
  PROVE  TypeOK'
  <1>0. /\ i \in DOMAIN workers /\ workers[i] \in Worker
        /\ harq \in [Procs -> Process] /\ current \in Ttis /\ buf \in Nat
        /\ selected \in Procs \cup {NoProc}
    <2>1. i \in DOMAIN workers
      BY DEF Generate, At
    <2>2. QED
      BY <2>1, LenProperties DEF TypeOK
  <1>1. CASE /\ harq' = TimeOut(NoDci, current)
             /\ UNCHANGED buf
             /\ workers' = [workers EXCEPT ![i].pc = "ul"]
    <2>1. NoDci \in [Procs -> Process]
      BY <1>0, IdleTypes, NoProcNotProc DEF NoDci
    <2>2. harq' \in [Procs -> Process]
      BY <1>0, <1>1, <2>1, ProcessTypes
    <2>3. workers' \in Seq(Worker) /\ Len(workers') <= NofWorkers
      BY <1>0, <1>1, GotoTypes DEF Goto
    <2>4. QED
      BY <1>1, <2>2, <2>3 DEF TypeOK, Generate
  <1>2. ASSUME selected # NoProc,
               NEW taken \in (IF buf = 0 THEN 0 ELSE 1) .. buf, NEW g \in GrantFor(taken),
               harq' = TimeOut(Transmitted(g, current), current),
               buf' = IF g.data THEN buf - taken ELSE buf,
               workers' = [workers EXCEPT ![i].pc = "ul", ![i].grant = g]
        PROVE  TypeOK'
    <2>1. g \in Grants /\ g.pid \in {selected, NoProc}
      BY <1>0, <1>2, GrantTypes
    <2>2. Transmitted(g, current) \in [Procs -> Process]
      <3>1. CASE g.pid = NoProc
        BY <1>0, <3>1 DEF Transmitted
      <3>2. CASE g.pid \in Procs
        <4>1. Transmit(harq[g.pid], current, g.fresh, g.again) \in Process
          BY <1>0, <3>2, ProcessTypes
        <4>2. QED
          BY <1>0, <3>2, <4>1, NoProcNotProc DEF Transmitted
      <3>3. QED
        BY <1>0, <1>2, <2>1, <3>1, <3>2
    <2>3. harq' \in [Procs -> Process]
      BY <1>0, <1>2, <2>2, ProcessTypes
    <2>4. buf' \in Nat
      BY <1>0, <1>2
    <2>5. [workers[i] EXCEPT !.pc = "ul", !.grant = g] \in Worker
      BY <1>0, <2>1 DEF Worker
    <2>6. workers' = [workers EXCEPT ![i] = [workers[i] EXCEPT !.pc = "ul", !.grant = g]]
      BY <1>2
    <2>7. workers' \in Seq(Worker) /\ Len(workers') <= NofWorkers
      BY <1>0, <2>5, <2>6, WorkersTypes
    <2>8. QED
      BY <2>3, <2>4, <2>7 DEF TypeOK, Generate
  <1>3. QED
    BY <1>1, <1>2 DEF Generate

LEMMA DecodeTypes ==
  ASSUME TypeOK, NEW i \in 1 .. NofWorkers, Decode(i)
  PROVE  TypeOK'
  <1>1. i \in DOMAIN workers
    BY DEF Decode, At
  <1>2. workers' \in Seq(Worker) /\ Len(workers') <= NofWorkers
    <2>1. Goto(i, "enter")
      BY DEF Decode
    <2>2. QED
      BY <1>1, <2>1, GotoTypes
  <1>3. harq' \in [Procs -> Process]
    <2>1. \/ UNCHANGED harq
          \/ \E n, s : \E ack \in [TBs -> BOOLEAN] : harq' = AckInfo(harq, n, pending[s], ack)
      BY DEF Decode
    <2>2. harq \in [Procs -> Process] /\ current \in Ttis
      BY DEF TypeOK
    <2>3. QED
      BY <2>1, <2>2, ProcessTypes
  <1>4. pending' \in [Slots -> SUBSET TBs]
    <2>1. \/ UNCHANGED pending
          \/ \E s : pending' = [pending EXCEPT ![s] = {}]
      BY DEF Decode
    <2>2. QED
      BY <2>1 DEF TypeOK
  <1>5. QED
    BY <1>2, <1>3, <1>4 DEF TypeOK, Decode

LEMMA SendTypes ==
  ASSUME TypeOK, NEW i \in 1 .. NofWorkers, Send(i)
  PROVE  TypeOK'
  <1>1. i \in DOMAIN workers /\ Goto(i, "end")
    BY DEF Send, At
  <1>2. workers' \in Seq(Worker) /\ Len(workers') <= NofWorkers
    BY <1>1, GotoTypes
  <1>3. workers[i] \in Worker
    BY <1>1, LenProperties DEF TypeOK
  <1>4. /\ workers[i].grant \in Grants
        /\ workers[i].tti \in Nat
    BY <1>3 DEF Worker, Ttis
  <1>5. TtiAdd(workers[i].tti, HarqDelay) \in Ttis
    BY <1>4, TtiAddType, ConstantsOK DEF ConstantsOK
  <1> DEFINE s == TtiAdd(workers[i].tti, Rtt) % SlotMod
             g == workers[i].grant
  <1>6. /\ pending' = [pending EXCEPT ![s] = g.fresh \cup g.again]
        /\ sent' = [sent EXCEPT ![s] = [pid |-> g.pid, tti |-> TtiAdd(workers[i].tti, HarqDelay)]]
    BY DEF Send
  <1>7. g.fresh \cup g.again \in SUBSET TBs /\ g.pid \in Procs \cup {NoProc}
    BY <1>4 DEF Grants
  <1> HIDE DEF s, g
  <1>8. pending' \in [Slots -> SUBSET TBs]
    BY <1>6, <1>7 DEF TypeOK
  <1>9. sent' \in [Slots -> [pid : Procs \cup {NoProc}, tti : Ttis]]
    BY <1>5, <1>6, <1>7 DEF TypeOK
  <1>10. QED
    BY <1>2, <1>8, <1>9 DEF TypeOK, Send

LEMMA EnterTypes ==
  ASSUME TypeOK, NEW i \in 1 .. NofWorkers, EnterDl(i) \/ EnterUl(i)
  PROVE  TypeOK'
  <1>1. i \in DOMAIN workers /\ (Goto(i, "select") \/ Goto(i, "send"))
    BY DEF EnterDl, EnterUl, At
  <1>2. workers' \in Seq(Worker) /\ Len(workers') <= NofWorkers
    BY <1>1, GotoTypes
  <1>3. workers[i] \in Worker
    BY <1>1, LenProperties DEF TypeOK
  <1>4. workers[i].tti \in Nat /\ HarqDelay \in Nat /\ Rtt \in Nat
    BY <1>3, ConstantsOK DEF Worker, Ttis, ConstantsOK, Rtt
  <1>5. current' \in Ttis
    BY <1>4, TtiAddType DEF EnterDl, EnterUl
  <1>6. QED
    BY <1>2, <1>5 DEF TypeOK, EnterDl, EnterUl

LEMMA SelectTypes ==
  ASSUME TypeOK, NEW i \in 1 .. NofWorkers, Select(i)
  PROVE  TypeOK'
  <1>1. i \in DOMAIN workers /\ Goto(i, "generate") /\ selected' \in Procs \cup {NoProc}
    BY DEF Select, At
  <1>2. workers' \in Seq(Worker) /\ Len(workers') <= NofWorkers
    BY <1>1, GotoTypes
  <1>3. QED
    BY <1>1, <1>2 DEF TypeOK, Select

LEMMA DispatchTypes ==
  ASSUME TypeOK, Dispatch
  PROVE  TypeOK'
  <1>1. nextTti \in Ttis /\ nextTti \in Nat
    BY DEF TypeOK, Ttis
  <1>2. nextTti' \in Ttis
    BY <1>1, TtiAddType DEF Dispatch
  <1>3. [tti |-> nextTti, grant |-> NoGrant, pc |-> "decode"] \in Worker
    BY <1>1 DEF Worker, NoGrant, Grants
  <1>4. workers \in Seq(Worker) /\ Len(workers) < NofWorkers
    BY DEF TypeOK, Dispatch
  <1>5. workers' \in Seq(Worker) /\ Len(workers') = Len(workers) + 1
    BY <1>3, <1>4, AppendProperties DEF Dispatch
  <1>6. Len(workers') <= NofWorkers
    BY <1>4, <1>5, LenProperties, ConstantsOK DEF ConstantsOK
  <1>7. QED
    BY <1>2, <1>5, <1>6 DEF TypeOK, Dispatch

LEMMA EndTypes ==
  ASSUME TypeOK, End
  PROVE  TypeOK'
  <1>1. workers \in Seq(Worker) /\ workers # << >> /\ workers' = Tail(workers)
    BY DEF TypeOK, End
  <1>2. workers' \in Seq(Worker) /\ Len(workers') = Len(workers) - 1
    BY <1>1, HeadTailProperties
  <1>3. Len(workers') <= NofWorkers
    BY <1>1, <1>2, LenProperties, ConstantsOK DEF ConstantsOK, TypeOK
  <1>4. QED
    BY <1>2, <1>3 DEF TypeOK, End

LEMMA TypeStep ==
  ASSUME TypeOK, [Next]_vars
  PROVE  TypeOK'
  <1>1. CASE Dispatch
    BY <1>1, DispatchTypes
  <1>2. ASSUME NEW i \in 1 .. NofWorkers, Work(i)
        PROVE  TypeOK'
    BY <1>2, DecodeTypes, EnterTypes, SelectTypes, GenerateTypes, SendTypes DEF Work
  <1>3. CASE End
    BY <1>3, EndTypes
  <1>4. CASE BufferState
    BY <1>4, ConstantsOK DEF BufferState, TypeOK, ConstantsOK
  <1>5. CASE PhyConfigEnabled
    BY <1>5 DEF PhyConfigEnabled, TypeOK
  <1>6. CASE SetDlRi
    BY <1>6 DEF SetDlRi, TypeOK
  <1>7. CASE UeCfg
    BY <1>7, IdleTypes DEF UeCfg, TypeOK
  <1>8. CASE UNCHANGED vars
    BY <1>8 DEF vars, TypeOK
  <1>9. QED
    BY <1>1, <1>2, <1>3, <1>4, <1>5, <1>6, <1>7, <1>8 DEF Next

LEMMA TypeInit ==
  ASSUME Init
  PROVE  TypeOK
  <1>1. 0 \in Ttis
    BY ConstantsOK DEF ConstantsOK, Ttis
  <1>2. workers \in Seq(Worker) /\ Len(workers) = 0
    BY EmptySeq DEF Init
  <1>3. harq \in [Procs -> Process]
    BY IdleTypes DEF Init
  <1>4. /\ pending \in [Slots -> SUBSET TBs]
        /\ sent \in [Slots -> [pid : Procs \cup {NoProc}, tti : Ttis]]
    BY <1>1 DEF Init, NotSent
  <1>5. 0 <= NofWorkers
    BY ConstantsOK DEF ConstantsOK
  <1>6. QED
    BY <1>1, <1>2, <1>3, <1>4, <1>5 DEF Init, TypeOK

\* Every variable keeps its type, whatever the workers do at the same time.
THEOREM TypeCorrect == Spec => []TypeOK
  BY TypeInit, TypeStep, PTL DEF Spec

-----------------------------------------------------------------------------
(***************************************************************************)
(* Every step changes the processes in one of three ways.                  *)
(***************************************************************************)

Dropped(procs) ==
    harq' = [p \in Procs |-> IF p \in procs THEN IdleProc ELSE harq[p]]

Acknowledged ==
    \E n, flagged : \E ack \in [TBs -> BOOLEAN] : harq' = AckInfo(harq, n, flagged, ack)

Sending(p, fresh, again, procs) ==
    /\ \A b \in fresh : TbEmpty(harq[p].tb[b])
    /\ \A b \in again : ~TbEmpty(harq[p].tb[b])
    /\ harq' = [q \in Procs |-> IF q = p THEN Transmit(harq[p], current, fresh, again)
                                ELSE IF q \in procs THEN IdleProc ELSE harq[q]]

HarqSteps ==
    \/ \E procs \in SUBSET Procs : Dropped(procs)
    \/ Acknowledged
    \/ \E p \in Procs, fresh, again \in SUBSET TBs : \E procs \in SUBSET (Procs \ {p}) :
          Sending(p, fresh, again, procs)

LEMMA UnchangedIsDropped ==
  ASSUME TypeOK, harq' = harq
  PROVE  HarqSteps
  <1>1. Dropped({})
    BY DEF Dropped, TypeOK
  <1>2. QED
    BY <1>1 DEF HarqSteps

\* A grant sends new data in free blocks only and repeats blocks in use only.
LEMMA GrantBlocks ==
  ASSUME selected \in Procs, NEW taken, NEW g \in GrantFor(taken)
  PROVE  /\ \A b \in g.fresh : TbEmpty(harq[selected].tb[b])
         /\ \A b \in g.again : ~TbEmpty(harq[selected].tb[b])
  <1>1. CASE dedicated /\ Mimo
    <2> DEFINE busy == {b \in TBs : ~TbEmpty(harq[selected].tb[b])}
               tbEn == IF ri = 0 THEN (IF 1 \in busy THEN {1} ELSE {0})
                       ELSE IF busy = {} THEN TBs ELSE busy
    <2>1. g \in Format2(selected, taken)
      BY <1>1 DEF GrantFor
    <2>2. PICK fresh \in SUBSET (IF ri = 0 \/ busy = {} THEN tbEn \ busy ELSE {}) :
            g = [pid |-> IF busy \cup fresh = {} THEN NoProc ELSE selected,
                 fresh |-> fresh, again |-> busy, data |-> fresh # {}, conres |-> FALSE]
      BY <2>1, Zenon DEF Format2
    <2>3. fresh \in SUBSET (tbEn \ busy)
      BY <2>2
    <2>4. tbEn \in SUBSET TBs
      BY <1>1, ConstantsOK DEF ConstantsOK
    <2>5. \A b \in fresh : TbEmpty(harq[selected].tb[b])
      BY <2>3, <2>4
    <2>6. QED
      BY <2>2, <2>5
  <1>2. CASE ~(dedicated /\ Mimo)
    <2>1. g = Format1(selected, taken)
      BY <1>2 DEF GrantFor
    <2>2. QED
      BY <2>1 DEF Format1
  <1>3. QED
    BY <1>1, <1>2

LEMMA GenerateSteps ==
  ASSUME TypeOK, NEW i \in 1 .. NofWorkers, Generate(i)
  PROVE  HarqSteps
  <1>0. /\ harq \in [Procs -> Process] /\ current \in Ttis
        /\ selected \in Procs \cup {NoProc} /\ Timeout \in Nat
    BY ConstantsOK DEF TypeOK, ConstantsOK
  <1>1. CASE harq' = TimeOut(NoDci, current)
    <2> DEFINE late == {p \in Procs : /\ ~AllEmpty(NoDci[p])
                                      /\ Interval(current, NoDci[p].tti) > Timeout}
    <2>1. NoDci = [p \in Procs |-> IF p = selected THEN IdleProc ELSE harq[p]]
      BY <1>0, NoProcNotProc DEF NoDci
    <2>2. Dropped(late \cup ({selected} \cap Procs))
      BY <1>1, <2>1 DEF Dropped, TimeOut
    <2>3. QED
      BY <2>2 DEF HarqSteps
  <1>2. ASSUME selected # NoProc, NEW taken, NEW g \in GrantFor(taken),
               harq' = TimeOut(Transmitted(g, current), current)
        PROVE  HarqSteps
    <2>1. g \in Grants /\ g.pid \in {selected, NoProc} /\ selected \in Procs
      BY <1>0, <1>2, GrantTypes
    <2>2. CASE g.pid = NoProc
      <3> DEFINE late == {p \in Procs : ~AllEmpty(harq[p]) /\ Interval(current, harq[p].tti) > Timeout}
      <3>1. Dropped(late)
        BY <1>2, <2>2 DEF Dropped, TimeOut, Transmitted
      <3>2. QED
        BY <3>1 DEF HarqSteps
    <2>3. CASE g.pid = selected
      <3> DEFINE procs == Transmitted(g, current)
                 late  == {q \in Procs \ {selected} : /\ ~AllEmpty(harq[q])
                                                      /\ Interval(current, harq[q].tti) > Timeout}
                 new   == Transmit(harq[selected], current, g.fresh, g.again)
      <3>1. procs = [harq EXCEPT ![selected] = new]
        BY <1>2, <2>3 DEF Transmitted
      <3>2. new.tti = current
        BY DEF Transmit
      <3>3. ~(Interval(current, new.tti) > Timeout)
        BY <1>0, <3>2 DEF Interval, Ttis
      <3> HIDE DEF procs, new
      <3>4. harq' = [q \in Procs |-> IF q = selected THEN new
                                     ELSE IF q \in late THEN IdleProc ELSE harq[q]]
        BY <1>0, <1>2, <2>1, <3>1, <3>3 DEF TimeOut, procs
      <3>5. Sending(selected, g.fresh, g.again, late)
        BY <2>1, <3>4, GrantBlocks DEF Sending, new
      <3>6. g.fresh \in SUBSET TBs /\ g.again \in SUBSET TBs
        BY <2>1 DEF Grants
      <3>7. QED
        BY <2>1, <3>5, <3>6 DEF HarqSteps
    <2>4. QED
      BY <2>1, <2>2, <2>3
  <1>3. QED
    BY <1>1, <1>2 DEF Generate

LEMMA StepsAreHarqSteps ==
  ASSUME TypeOK, [Next]_vars
  PROVE  HarqSteps
  <1>1. CASE harq' = harq
    BY <1>1, UnchangedIsDropped
  <1>2. ASSUME NEW i \in 1 .. NofWorkers, Decode(i)
        PROVE  HarqSteps
    <2>1. harq' = harq \/ Acknowledged
      BY <1>2 DEF Decode, Acknowledged
    <2>2. QED
      BY <1>1, <2>1 DEF HarqSteps
  <1>3. ASSUME NEW i \in 1 .. NofWorkers, Generate(i)
        PROVE  HarqSteps
    BY <1>3, GenerateSteps
  <1>4. CASE UeCfg
    <2>1. Dropped(Procs)
      BY <1>4 DEF UeCfg, Dropped
    <2>2. QED
      BY <2>1 DEF HarqSteps
  <1>5. QED
    BY <1>1, <1>2, <1>3, <1>4 DEF Next, Work, Dispatch, EnterDl, Select, EnterUl, Send, End,
       BufferState, PhyConfigEnabled, SetDlRi, vars

-----------------------------------------------------------------------------
(***************************************************************************)
(* A block known to be lost has a transmission left.                       *)
(***************************************************************************)

LEMMA NackedStep ==
  ASSUME TypeOK, NackedHasRetxLeft, HarqSteps
  PROVE  NackedHasRetxLeft'
  <1> DEFINE Ok(s) == s.active /\ s.ack_received /\ ~s.ack => s.n_rtx + 1 < MaxRetx
  <1> SUFFICES ASSUME NEW p \in Procs, NEW b \in TBs
               PROVE  Ok(harq'[p].tb[b])
    BY DEF NackedHasRetxLeft
  <1>1. Ok(harq[p].tb[b]) /\ Ok(IdleProc.tb[b])
    BY DEF NackedHasRetxLeft, IdleProc, IdleTb
  <1>2. ASSUME NEW procs, Dropped(procs)
        PROVE  Ok(harq'[p].tb[b])
    BY <1>1, <1>2 DEF Dropped
  <1>3. CASE Acknowledged
    <2>1. PICK n, flagged : \E ack \in [TBs -> BOOLEAN] : harq' = AckInfo(harq, n, flagged, ack)
      BY <1>3 DEF Acknowledged
    <2>2. PICK ack \in [TBs -> BOOLEAN] : harq' = AckInfo(harq, n, flagged, ack)
      BY <2>1
    <2>3. \/ harq'[p].tb[b] = harq[p].tb[b]
          \/ harq'[p].tb[b] = SetAckTb(harq[p].tb[b], ack[b])
      BY <2>2 DEF AckInfo
    <2>4. harq[p].tb[b] \in TbState
      BY DEF TypeOK, Process
    <2>5. Ok(SetAckTb(harq[p].tb[b], ack[b]))
      BY <2>4 DEF SetAckTb, TbState
    <2>6. QED
      BY <1>1, <2>3, <2>5
  <1>4. ASSUME NEW q \in Procs, NEW fresh, NEW again, NEW procs, Sending(q, fresh, again, procs)
        PROVE  Ok(harq'[p].tb[b])
    <2>1. \/ harq'[p].tb[b] = harq[p].tb[b]
          \/ harq'[p].tb[b] = IdleProc.tb[b]
          \/ harq'[p].tb[b] = NewTxTb
          \/ harq'[p].tb[b] = RetxTb(harq[p].tb[b])
      BY <1>4 DEF Sending, Transmit
    <2>2. harq[p].tb[b] \in TbState
      BY DEF TypeOK, Process
    <2>3. Ok(NewTxTb) /\ Ok(RetxTb(harq[p].tb[b]))
      BY <2>2 DEF NewTxTb, RetxTb, TbState
    <2>4. QED
      BY <1>1, <2>1, <2>3
  <1>5. QED
    BY <1>2, <1>3, <1>4 DEF HarqSteps

\* set_ack gives a block up exactly when new_retx could not repeat it: a process is never
\* left with a block that is lost and that no transmission can repeat.
THEOREM NackedHasRetx == Spec => []NackedHasRetxLeft
  <1>1. Init => NackedHasRetxLeft
    BY DEF Init, NackedHasRetxLeft, IdleProc, IdleTb
  <1>2. TypeOK /\ NackedHasRetxLeft /\ [Next]_vars => NackedHasRetxLeft'
    BY StepsAreHarqSteps, NackedStep
  <1>3. QED
    BY <1>1, <1>2, TypeCorrect, PTL DEF Spec

-----------------------------------------------------------------------------
(***************************************************************************)
(* The processes implement stop-and-wait HARQ.                             *)
(***************************************************************************)

\* What the abstraction sees of each change of a block.
LEMMA AbsBlocks ==
  ASSUME NEW s \in TbState, NEW ack \in BOOLEAN
  PROVE  /\ AbsTb(IdleTb) = Abs!Idle
         /\ AbsTb(s).n = s.n_rtx /\ (AbsTb(s).st = "idle" <=> TbEmpty(s))
         /\ AbsTb(NewTxTb) = [st |-> IF MaxRetx > 0 THEN "sent" ELSE "idle", n |-> 0]
         /\ ~TbEmpty(s) => AbsTb(RetxTb(s)) = [st |-> "sent", n |-> Abs!Count(s.n_rtx)]
         /\ \/ AbsTb(SetAckTb(s, ack)) = [st |-> "idle", n |-> s.n_rtx]
            \/ /\ AbsTb(SetAckTb(s, ack)) = [st |-> "nacked", n |-> s.n_rtx]
               /\ s.n_rtx + 1 < MaxRetx
  <1>0. /\ s.active \in BOOLEAN /\ s.ack \in BOOLEAN /\ s.ack_received \in BOOLEAN
        /\ s.n_rtx \in Nat /\ MaxRetx \in Nat
    BY ConstantsOK DEF TbState, ConstantsOK
  <1>1. AbsTb(IdleTb) = Abs!Idle
    BY DEF AbsTb, IdleTb, TbEmpty, Abs!Idle
  <1>2. AbsTb(s).n = s.n_rtx /\ (AbsTb(s).st = "idle" <=> TbEmpty(s))
    BY DEF AbsTb
  <1>3. AbsTb(NewTxTb) = [st |-> IF MaxRetx > 0 THEN "sent" ELSE "idle", n |-> 0]
    BY DEF AbsTb, NewTxTb, TbEmpty
  <1>4. ~TbEmpty(s) => AbsTb(RetxTb(s)) = [st |-> "sent", n |-> Abs!Count(s.n_rtx)]
    BY <1>0 DEF AbsTb, RetxTb, TbEmpty, TbState, Abs!Count
  <1>5. \/ AbsTb(SetAckTb(s, ack)) = [st |-> "idle", n |-> s.n_rtx]
        \/ /\ AbsTb(SetAckTb(s, ack)) = [st |-> "nacked", n |-> s.n_rtx]
           /\ s.n_rtx + 1 < MaxRetx
    BY <1>0 DEF AbsTb, SetAckTb, TbEmpty, TbState
  <1>6. QED
    BY <1>1, <1>2, <1>3, <1>4, <1>5

LEMMA AbsDropped ==
  ASSUME TypeOK, NEW procs \in SUBSET Procs, Dropped(procs)
  PROVE  Abs!GiveUp
  <1>1. AbsProc(IdleProc) = [b \in TBs |-> Abs!Idle]
    <2>1. IdleTb \in TbState
      BY IdleTypes
    <2>2. AbsTb(IdleTb) = Abs!Idle
      BY <2>1, AbsBlocks
    <2>3. QED
      BY <2>2 DEF AbsProc, IdleProc
  <1>2. tbBar' = [p \in Procs |-> IF p \in procs THEN [b \in TBs |-> Abs!Idle] ELSE tbBar[p]]
    BY <1>1 DEF tbBar, Dropped
  <1>3. QED
    BY <1>2 DEF Abs!GiveUp

LEMMA AbsAcknowledged ==
  ASSUME TypeOK, Acknowledged
  PROVE  Abs!Next
  <1>1. PICK n, flagged : \E ack \in [TBs -> BOOLEAN] : harq' = AckInfo(harq, n, flagged, ack)
    BY DEF Acknowledged
  <1>2. PICK ack \in [TBs -> BOOLEAN] : harq' = AckInfo(harq, n, flagged, ack)
    BY <1>1
  <1>0. PICK p : p = AckTarget(harq, n)
    OBVIOUS
  <1>3. CASE p \notin Procs
    <2>1. Dropped({})
      BY <1>0, <1>2, <1>3 DEF AckInfo, Dropped
    <2>2. QED
      BY <2>1, AbsDropped DEF Abs!Next
  <1>4. CASE p \in Procs
    <2> DEFINE heard == flagged \cap TBs
               After(b) == AbsTb(SetAckTb(harq[p].tb[b], ack[b]))
               lost  == {b \in heard : After(b).st = "nacked"}
    <2>1. \A b \in TBs : harq[p].tb[b] \in TbState /\ ack[b] \in BOOLEAN
      BY <1>4 DEF TypeOK, Process
    <2>2. \A b \in TBs : /\ tbBar[p][b] = AbsTb(harq[p].tb[b])
                         /\ tbBar[p][b].n = harq[p].tb[b].n_rtx
      BY <1>4, <2>1, AbsBlocks DEF tbBar, AbsProc
    <2>3. \A b \in TBs : \/ After(b) = [st |-> "idle", n |-> harq[p].tb[b].n_rtx]
                         \/ /\ After(b) = [st |-> "nacked", n |-> harq[p].tb[b].n_rtx]
                            /\ harq[p].tb[b].n_rtx + 1 < MaxRetx
      BY <2>1, AbsBlocks
    <2>4. \A b \in lost : tbBar[p][b].n + 1 < MaxRetx
      <3> HIDE DEF After
      <3>1. \A b \in lost : b \in TBs /\ After(b).st = "nacked"
        OBVIOUS
      <3>2. \A b \in lost : harq[p].tb[b].n_rtx + 1 < MaxRetx
        BY <2>3, <3>1
      <3>3. QED
        BY <2>2, <3>1, <3>2
    <2>5. \A b \in TBs : AbsTb(harq'[p].tb[b]) = IF b \in flagged THEN After(b) ELSE tbBar[p][b]
      BY <1>0, <1>2, <1>4, <2>2 DEF AckInfo
    <2>6. \A b \in TBs : AbsTb(harq'[p].tb[b]) =
                           IF b \in lost THEN [st |-> "nacked", n |-> tbBar[p][b].n]
                           ELSE IF b \in heard THEN [st |-> "idle", n |-> tbBar[p][b].n]
                           ELSE tbBar[p][b]
      BY <2>2, <2>3, <2>5
    <2>7. \A q \in Procs \ {p} : harq'[q] = harq[q]
      BY <1>0, <1>2 DEF AckInfo
    <2> HIDE DEF lost, heard, After
    <2>8. tbBar' = [tbBar EXCEPT ![p] = [b \in TBs |->
                     IF b \in lost THEN [st |-> "nacked", n |-> tbBar[p][b].n]
                     ELSE IF b \in heard THEN [st |-> "idle", n |-> tbBar[p][b].n]
                     ELSE tbBar[p][b]]]
      <3> DEFINE new == [b \in TBs |->
                     IF b \in lost THEN [st |-> "nacked", n |-> tbBar[p][b].n]
                     ELSE IF b \in heard THEN [st |-> "idle", n |-> tbBar[p][b].n]
                     ELSE tbBar[p][b]]
      <3>1. AbsProc(harq'[p]) = new
        BY <2>6 DEF AbsProc
      <3>2. \A q \in Procs \ {p} : AbsProc(harq'[q]) = AbsProc(harq[q])
        BY <2>7
      <3> HIDE DEF new
      <3>3. tbBar' = [q \in Procs |-> IF q = p THEN new ELSE AbsProc(harq[q])]
        BY <3>1, <3>2 DEF tbBar
      <3>4. tbBar' = [tbBar EXCEPT ![p] = new]
        BY <3>3 DEF tbBar
      <3>5. QED
        BY <3>4 DEF new
    <2>9. heard \in SUBSET TBs /\ lost \in SUBSET heard
      BY DEF heard, lost
    <2>10. Abs!Feedback(p)
      BY <2>4, <2>8, <2>9 DEF Abs!Feedback
    <2>11. QED
      BY <1>4, <2>10 DEF Abs!Next
  <1>5. QED
    BY <1>3, <1>4

LEMMA AbsSending ==
  ASSUME TypeOK, NEW p \in Procs, NEW fresh \in SUBSET TBs, NEW again \in SUBSET TBs,
         NEW procs \in SUBSET (Procs \ {p}), Sending(p, fresh, again, procs)
  PROVE  Abs!Transmit(p)
  <1>1. \A b \in TBs : harq[p].tb[b] \in TbState
    BY DEF TypeOK, Process
  <1>2. \A b \in TBs : /\ tbBar[p][b] = AbsTb(harq[p].tb[b])
                       /\ tbBar[p][b].n = harq[p].tb[b].n_rtx
                       /\ tbBar[p][b].st = "idle" <=> TbEmpty(harq[p].tb[b])
    BY <1>1, AbsBlocks DEF tbBar, AbsProc
  <1>3. fresh \in SUBSET (TBs \ Abs!InUse(p)) /\ again \in SUBSET Abs!InUse(p)
    BY <1>2 DEF Sending, Abs!InUse
  <1>4. \A b \in fresh : AbsTb(NewTxTb) = [st |-> IF MaxRetx > 0 THEN "sent" ELSE "idle", n |-> 0]
    BY <1>1, AbsBlocks
  <1>5. \A b \in again : AbsTb(RetxTb(harq[p].tb[b])) = [st |-> "sent", n |-> Abs!Count(tbBar[p][b].n)]
    BY <1>1, <1>2, AbsBlocks DEF Sending
  <1>6. AbsProc(IdleProc) = [b \in TBs |-> Abs!Idle]
    <2>1. AbsTb(IdleTb) = Abs!Idle
      BY IdleTypes, AbsBlocks
    <2>2. QED
      BY <2>1 DEF AbsProc, IdleProc
  <1>7. AbsProc(Transmit(harq[p], current, fresh, again)) = [b \in TBs |->
          IF b \in fresh THEN [st |-> IF MaxRetx > 0 THEN "sent" ELSE "idle", n |-> 0]
          ELSE IF b \in again THEN [st |-> "sent", n |-> Abs!Count(tbBar[p][b].n)]
          ELSE tbBar[p][b]]
    BY <1>2, <1>4, <1>5 DEF AbsProc, Transmit
  <1>8. tbBar' = [q \in Procs |->
          IF q = p THEN AbsProc(Transmit(harq[p], current, fresh, again))
          ELSE IF q \in procs THEN AbsProc(IdleProc) ELSE tbBar[q]]
    BY DEF tbBar, Sending
  <1>9. tbBar' = [q \in Procs |->
          IF q = p THEN [b \in TBs |->
              IF b \in fresh THEN [st |-> IF MaxRetx > 0 THEN "sent" ELSE "idle", n |-> 0]
              ELSE IF b \in again THEN [st |-> "sent", n |-> Abs!Count(tbBar[p][b].n)]
              ELSE tbBar[p][b]]
          ELSE IF q \in procs THEN [b \in TBs |-> Abs!Idle] ELSE tbBar[q]]
    BY <1>6, <1>7, <1>8, Zenon
  <1>10. QED
    BY <1>3, <1>9 DEF Abs!Transmit

\* Whatever the workers interleave, no new data overwrites a block in use, only blocks in
\* use are repeated, and at most one process transmits in a subframe's scheduling.
THEOREM ImplementsStopAndWait == Spec => StopAndWait
  <1>1. Init => Abs!Init
    <2> SUFFICES ASSUME Init PROVE Abs!Init
      OBVIOUS
    <2>1. AbsTb(IdleTb) = Abs!Idle
      BY IdleTypes, AbsBlocks
    <2>2. QED
      BY <2>1 DEF Init, Abs!Init, IdleProc, tbBar, AbsProc
  <1>2. TypeOK /\ [Next]_vars => [Abs!Next]_tbBar
    <2> SUFFICES ASSUME TypeOK, [Next]_vars PROVE Abs!Next
      OBVIOUS
    <2>1. HarqSteps
      BY StepsAreHarqSteps
    <2>2. QED
      BY <2>1, AbsDropped, AbsAcknowledged, AbsSending DEF HarqSteps, Abs!Next
  <1>3. QED
    BY <1>1, <1>2, TypeCorrect, PTL DEF Spec, StopAndWait, Abs!Spec

-----------------------------------------------------------------------------
(***************************************************************************)
(* The number of retransmissions, for users with one transport block. The  *)
(* count is checked when the process is selected and incremented when the  *)
(* grant is generated. Between the two only feedback and a reconfiguration *)
(* touch the process (sched_mutex keeps the other workers out), and        *)
(* feedback that leaves a block in use without a retransmission left does  *)
(* not exist: set_ack gives such a block up.                               *)
(***************************************************************************)

SingleBlock == TBs = {0} /\ ~Mimo

Generating(i) == i \in DOMAIN workers /\ workers[i].pc = "generate"

OneScheduler == \A i, j : Generating(i) /\ Generating(j) => i = j

CanRepeat(p) == harq[p].tb[0].n_rtx < MaxRetx \/ TbEmpty(harq[p].tb[0])

SelectedCanRepeat == \A i : Generating(i) /\ selected # NoProc => CanRepeat(selected)

RetxInv == RetxBound /\ OneScheduler /\ SelectedCanRepeat

\* A worker that moves on to another step than "generate".
LEMMA GeneratingGoto ==
  ASSUME TypeOK, NEW i \in DOMAIN workers, NEW w, w.pc # "generate",
         workers' = [workers EXCEPT ![i] = w]
  PROVE  \A j : Generating(j)' => Generating(j) /\ j # i
  BY DEF Generating, TypeOK

LEMMA GeneratingNotGoto ==
  ASSUME TypeOK, NEW i \in DOMAIN workers, NEW pc, pc # "generate", Goto(i, pc)
  PROVE  \A j : Generating(j)' => Generating(j) /\ j # i
  <1>1. workers[i] \in Worker
    BY LenProperties DEF TypeOK
  <1>2. workers' = [workers EXCEPT ![i] = [workers[i] EXCEPT !.pc = pc]]
    BY DEF Goto
  <1>3. [workers[i] EXCEPT !.pc = pc].pc = pc
    BY <1>1 DEF Worker
  <1>4. QED
    BY <1>2, <1>3, GeneratingGoto

\* Feedback of one block preserves both bounds.
LEMMA AckKeepsCount ==
  ASSUME NEW s \in TbState, NEW ack \in BOOLEAN
  PROVE  /\ SetAckTb(s, ack).n_rtx = s.n_rtx
         /\ s.n_rtx < MaxRetx \/ TbEmpty(s) =>
              SetAckTb(s, ack).n_rtx < MaxRetx \/ TbEmpty(SetAckTb(s, ack))
  BY ConstantsOK DEF ConstantsOK, SetAckTb, TbEmpty, TbState

LEMMA RetxDecode ==
  ASSUME TypeOK, RetxInv, NEW i \in 1 .. NofWorkers, Decode(i)
  PROVE  RetxInv'
  <1>1. i \in DOMAIN workers /\ Goto(i, "enter") /\ selected' = selected
    BY DEF Decode, At
  <1>2. \A j : Generating(j)' => Generating(j) /\ j # i
    BY <1>1, GeneratingNotGoto
  <1>3. CASE harq' = harq
    BY <1>1, <1>2, <1>3 DEF RetxInv, RetxBound, OneScheduler, SelectedCanRepeat, CanRepeat
  <1>4. CASE Acknowledged
    <2>1. PICK n, flagged : \E ack \in [TBs -> BOOLEAN] : harq' = AckInfo(harq, n, flagged, ack)
      BY <1>4 DEF Acknowledged
    <2>2. PICK ack \in [TBs -> BOOLEAN] : harq' = AckInfo(harq, n, flagged, ack)
      BY <2>1
    <2>3. \A p \in Procs, b \in TBs : \/ harq'[p].tb[b] = harq[p].tb[b]
                                      \/ harq'[p].tb[b] = SetAckTb(harq[p].tb[b], ack[b])
      BY <2>2 DEF AckInfo
    <2>4. \A p \in Procs, b \in TBs : harq[p].tb[b] \in TbState /\ ack[b] \in BOOLEAN
      BY DEF TypeOK, Process
    <2>5. RetxBound'
      BY <2>3, <2>4, AckKeepsCount DEF RetxInv, RetxBound
    <2>6. \A p \in Procs : CanRepeat(p) => CanRepeat(p)'
      <3>1. 0 \in TBs
        BY ConstantsOK DEF ConstantsOK
      <3>2. QED
        BY <2>3, <2>4, <3>1, AckKeepsCount DEF CanRepeat
    <2>7. selected \in Procs \cup {NoProc}
      BY DEF TypeOK
    <2>8. \A j : Generating(j)' /\ selected' # NoProc => CanRepeat(selected)'
      BY <1>1, <1>2, <2>6, <2>7 DEF RetxInv, SelectedCanRepeat
    <2>9. QED
      BY <1>1, <1>2, <2>5, <2>8 DEF RetxInv, OneScheduler, SelectedCanRepeat, CanRepeat
  <1>5. QED
    BY <1>3, <1>4 DEF Decode, Acknowledged

LEMMA RetxSelect ==
  ASSUME TypeOK, RetxInv, SingleBlock, NEW i \in 1 .. NofWorkers, Select(i)
  PROVE  RetxInv'
  <1>1. /\ i \in DOMAIN workers /\ Goto(i, "generate") /\ harq' = harq
        /\ \A j \in DOMAIN workers : workers[j].pc # "generate"
    BY DEF Select, At
  <1>2. \A j : Generating(j)' => j = i
    BY <1>1 DEF Generating, Goto, TypeOK
  <1>3. PICK fits, room \in BOOLEAN : IsAllocation(selected', current, fits, room)
    BY DEF Select
  <1>4. selected' # NoProc => CanRepeat(selected')
    <2>1. CASE IsOldestPending(selected', current)
      <3>1. \E b \in TBs : harq[selected'].tb[b].n_rtx < MaxRetx
        BY <2>1 DEF IsOldestPending, PendingProcs, HasPendingRetx
      <3>2. QED
        BY <3>1 DEF CanRepeat, SingleBlock
    <2>2. CASE IsFirstEmpty(selected')
      BY <2>2 DEF IsFirstEmpty, AllEmpty, CanRepeat, SingleBlock
    <2>3. QED
      BY <1>3, <2>1, <2>2 DEF IsAllocation
  <1>5. QED
    BY <1>1, <1>2, <1>4 DEF RetxInv, RetxBound, OneScheduler, SelectedCanRepeat, CanRepeat

LEMMA RetxGenerate ==
  ASSUME TypeOK, RetxInv, SingleBlock, NEW i \in 1 .. NofWorkers, Generate(i)
  PROVE  RetxInv'
  <1>1. /\ Generating(i) /\ i \in DOMAIN workers /\ workers[i] \in Worker
        /\ harq \in [Procs -> Process] /\ selected \in Procs \cup {NoProc}
        /\ 0 <= MaxRetx /\ MaxRetx \in Nat
    <2>1. Generating(i) /\ i \in DOMAIN workers
      BY DEF Generate, At, Generating
    <2>2. QED
      BY <2>1, LenProperties, ConstantsOK DEF TypeOK, ConstantsOK
  <1>2. \A j : ~Generating(j)'
    <2>1. \A w : workers' = [workers EXCEPT ![i] = w] /\ w.pc # "generate" =>
            \A j : Generating(j)' => Generating(j) /\ j # i
      BY <1>1, GeneratingGoto
    <2>2. [workers[i] EXCEPT !.pc = "ul"].pc = "ul"
      BY <1>1 DEF Worker
    <2>3. \A g : [workers[i] EXCEPT !.pc = "ul", !.grant = g].pc = "ul"
      BY <1>1 DEF Worker
    <2>4. \E w : workers' = [workers EXCEPT ![i] = w] /\ w.pc = "ul"
      <3>1. \/ workers' = [workers EXCEPT ![i].pc = "ul"]
            \/ \E g : workers' = [workers EXCEPT ![i].pc = "ul", ![i].grant = g]
        BY Zenon DEF Generate
      <3>2. CASE workers' = [workers EXCEPT ![i].pc = "ul"]
        <4>1. workers' = [workers EXCEPT ![i] = [workers[i] EXCEPT !.pc = "ul"]]
          BY <3>2
        <4>2. QED
          BY <2>2, <4>1
      <3>3. ASSUME NEW g, workers' = [workers EXCEPT ![i].pc = "ul", ![i].grant = g]
            PROVE  \E w : workers' = [workers EXCEPT ![i] = w] /\ w.pc = "ul"
        <4>1. workers' = [workers EXCEPT ![i] = [workers[i] EXCEPT !.pc = "ul", !.grant = g]]
          BY <3>3
        <4>2. QED
          BY <2>3, <4>1
      <3>4. QED
        BY <3>1, <3>2, <3>3
    <2>5. QED
      BY <1>1, <2>1, <2>4 DEF RetxInv, OneScheduler
  <1>3. \A p \in Procs : IdleProc.tb[0].n_rtx <= MaxRetx /\ harq[p].tb[0].n_rtx <= MaxRetx
    BY <1>1 DEF IdleProc, IdleTb, RetxInv, RetxBound, SingleBlock
  <1>4. RetxBound'
    <2>1. CASE harq' = TimeOut(NoDci, current)
      <3>1. \A p \in Procs : harq'[p] = IdleProc \/ harq'[p] = harq[p]
        BY <1>1, <2>1 DEF TimeOut, NoDci
      <3>2. QED
        BY <1>3, <3>1 DEF RetxBound, SingleBlock
    <2>2. ASSUME selected # NoProc, NEW taken, NEW g \in GrantFor(taken),
                 harq' = TimeOut(Transmitted(g, current), current)
          PROVE  RetxBound'
      <3>1. g = Format1(selected, taken) /\ selected \in Procs /\ CanRepeat(selected)
        BY <1>1, <2>2 DEF GrantFor, SingleBlock, RetxInv, SelectedCanRepeat
      <3>2. g.pid = selected
        BY <3>1 DEF Format1
      <3> DEFINE new == Transmit(harq[selected], current, g.fresh, g.again)
      <3>3. new.tb[0].n_rtx <= MaxRetx
        <4>1. harq[selected].tb[0] \in TbState
          BY <1>1, <3>1 DEF Process, SingleBlock
        <4>2. CASE TbEmpty(harq[selected].tb[0])
          <5>1. new.tb[0] = NewTxTb
            BY <3>1, <4>2 DEF Format1, Transmit, SingleBlock
          <5>2. QED
            BY <1>1, <5>1 DEF NewTxTb
        <4>3. CASE ~TbEmpty(harq[selected].tb[0])
          <5>1. new.tb[0] = RetxTb(harq[selected].tb[0])
            BY <3>1, <4>3 DEF Format1, Transmit, SingleBlock
          <5>2. harq[selected].tb[0].n_rtx < MaxRetx
            BY <3>1, <4>3 DEF CanRepeat
          <5>3. QED
            BY <1>1, <4>1, <5>1, <5>2 DEF RetxTb, TbState
        <4>4. QED
          BY <4>2, <4>3
      <3> HIDE DEF new
      <3>4. Transmitted(g, current) = [harq EXCEPT ![selected] = new]
        BY <2>2, <3>2 DEF Transmitted, new
      <3>5. \A p \in Procs : \/ harq'[p] = IdleProc \/ harq'[p] = harq[p]
                             \/ p = selected /\ harq'[p] = new
        BY <1>1, <2>2, <3>4 DEF TimeOut
      <3>6. QED
        BY <1>3, <3>3, <3>5 DEF RetxBound, SingleBlock
    <2>3. QED
      BY <2>1, <2>2 DEF Generate
  <1>5. QED
    BY <1>2, <1>4 DEF RetxInv, OneScheduler, SelectedCanRepeat

LEMMA RetxDispatch ==
  ASSUME TypeOK, RetxInv, Dispatch
  PROVE  RetxInv'
  <1>1. /\ workers \in Seq(Worker) /\ harq' = harq /\ selected' = selected
        /\ workers' = Append(workers, [tti |-> nextTti, grant |-> NoGrant, pc |-> "decode"])
    BY DEF TypeOK, Dispatch
  <1>2. \A j : Generating(j)' => Generating(j)
    BY <1>1 DEF Generating
  <1>3. QED
    BY <1>1, <1>2 DEF RetxInv, RetxBound, OneScheduler, SelectedCanRepeat, CanRepeat

LEMMA RetxEnd ==
  ASSUME TypeOK, RetxInv, End
  PROVE  RetxInv'
  <1>1. /\ workers \in Seq(Worker) /\ workers # << >> /\ workers' = Tail(workers)
        /\ harq' = harq /\ selected' = selected
    BY DEF TypeOK, End
  <1>2. \A j : Generating(j)' => j \in Nat /\ Generating(j + 1)
    <2>1. /\ workers' \in Seq(Worker) /\ Len(workers') = Len(workers) - 1
          /\ \A j \in 1 .. Len(workers') : workers'[j] = workers[j + 1]
      BY <1>1, HeadTailProperties
    <2>2. QED
      BY <1>1, <2>1, LenProperties DEF Generating
  <1>3. QED
    BY <1>1, <1>2 DEF RetxInv, RetxBound, OneScheduler, SelectedCanRepeat, CanRepeat

\* With one transport block no block is retransmitted more than maxharq_tx times, however
\* many workers schedule and whatever feedback is lost.
THEOREM RetxBounded ==
  ASSUME SingleBlock
  PROVE  Spec => []RetxBound
  <1>1. Init => RetxInv
    <2> SUFFICES ASSUME Init PROVE RetxInv
      OBVIOUS
    <2>1. RetxBound
      BY ConstantsOK DEF ConstantsOK, Init, RetxBound, IdleProc, IdleTb
    <2>2. \A i : ~Generating(i)
      BY DEF Init, Generating
    <2>3. QED
      BY <2>1, <2>2 DEF RetxInv, OneScheduler, SelectedCanRepeat
  <1>2. TypeOK /\ RetxInv /\ [Next]_vars => RetxInv'
    <2> SUFFICES ASSUME TypeOK, RetxInv, [Next]_vars PROVE RetxInv'
      OBVIOUS
    <2>1. CASE Dispatch
      BY <2>1, RetxDispatch
    <2>2. ASSUME NEW i \in 1 .. NofWorkers, Work(i)
          PROVE  RetxInv'
      <3>1. CASE EnterDl(i) \/ EnterUl(i) \/ Send(i)
        <4>1. /\ i \in DOMAIN workers /\ harq' = harq /\ selected' = selected
              /\ Goto(i, "select") \/ Goto(i, "send") \/ Goto(i, "end")
          BY <3>1 DEF EnterDl, EnterUl, Send, At
        <4>2. \A j : Generating(j)' => Generating(j)
          BY <4>1, GeneratingNotGoto
        <4>3. QED
          BY <4>1, <4>2 DEF RetxInv, RetxBound, OneScheduler, SelectedCanRepeat, CanRepeat
      <3>2. QED
        BY <2>2, <3>1, RetxDecode, RetxSelect, RetxGenerate DEF Work
    <2>3. CASE End
      BY <2>3, RetxEnd
    <2>4. CASE UeCfg
      <3>1. \A p \in Procs : harq'[p] = IdleProc
        BY <2>4 DEF UeCfg
      <3>2. RetxBound'
        BY <3>1, ConstantsOK DEF ConstantsOK, RetxBound, IdleProc, IdleTb
      <3>3. selected \in Procs \cup {NoProc} /\ selected' = selected /\ workers' = workers
        BY <2>4 DEF UeCfg, TypeOK
      <3>4. \A p \in Procs : CanRepeat(p)'
        BY <3>1 DEF CanRepeat, IdleProc, IdleTb, TbEmpty, SingleBlock
      <3>5. QED
        BY <3>2, <3>3, <3>4 DEF RetxInv, OneScheduler, SelectedCanRepeat, Generating, CanRepeat
    <2>5. CASE BufferState \/ PhyConfigEnabled \/ SetDlRi \/ UNCHANGED vars
      BY <2>5 DEF BufferState, PhyConfigEnabled, SetDlRi, vars, RetxInv, RetxBound,
         OneScheduler, SelectedCanRepeat, CanRepeat, Generating
    <2>6. QED
      BY <2>1, <2>2, <2>3, <2>4, <2>5 DEF Next
  <1>3. RetxInv => RetxBound
    BY DEF RetxInv
  <1>4. QED
    BY <1>1, <1>2, <1>3, TypeCorrect, PTL DEF Spec

-----------------------------------------------------------------------------
(***************************************************************************)
(* The TTI that the workers share. They are in line: a worker starts with  *)
(* the next subframe and ends after those of earlier subframes. What is in *)
(* current_tti while a worker schedules was stored by itself or by one     *)
(* that was in line with it at the time.                                   *)
(***************************************************************************)

LEMMA Turns ==
  ASSUME NEW x \in Ttis
  PROVE  /\ TtiAdd(x, 0) = x
         /\ \A a, b \in Nat : TtiAdd(TtiAdd(x, a), b) = TtiAdd(x, a + b)
  <1>0. TtiMod \in Nat \ {0} /\ x \in 0 .. TtiMod - 1 /\ x \in Nat
    BY ConstantsOK DEF ConstantsOK, Ttis
  <1>1. TtiAdd(x, 0) = x
    <2>1. (TtiMod * 0 + x) % TtiMod = x
      BY <1>0, Remainder
    <2>2. QED
      BY <1>0, <2>1 DEF TtiAdd
  <1>2. ASSUME NEW a \in Nat, NEW b \in Nat
        PROVE  TtiAdd(TtiAdd(x, a), b) = TtiAdd(x, a + b)
    <2>1. x + a \in Nat /\ (x + a) + b = x + (a + b)
      BY <1>0
    <2>2. (((x + a) % TtiMod) + b) % TtiMod = ((x + a) + b) % TtiMod
      BY <1>0, <2>1, ModAdd
    <2>3. QED
      BY <2>1, <2>2 DEF TtiAdd
  <1>3. QED
    BY <1>1, <1>2

Scheduling(w) == w.pc \in {"select", "generate"}
Ungranted(w)  == w.pc \in {"decode", "enter", "select", "generate"}
InLine ==
    /\ \A i, k \in DOMAIN workers : i <= k => workers[k].tti = TtiAdd(workers[i].tti, k - i)
    /\ \A i \in DOMAIN workers : nextTti = TtiAdd(workers[i].tti, Len(workers) + 1 - i)
    /\ \A i \in DOMAIN workers : Scheduling(workers[i]) => current \in Storable(workers[i].tti)
    /\ \A i \in DOMAIN workers : Ungranted(workers[i]) => workers[i].grant.pid = NoProc

LEMMA TheWorkers ==
  ASSUME TypeOK
  PROVE  /\ workers \in Seq(Worker) /\ Len(workers) \in Nat /\ DOMAIN workers = 1 .. Len(workers)
         /\ Len(workers) <= NofWorkers /\ NofWorkers \in Nat
         /\ \A i \in DOMAIN workers : workers[i].tti \in Ttis
  <1>1. workers \in Seq(Worker) /\ Len(workers) <= NofWorkers /\ NofWorkers \in Nat
    BY ConstantsOK DEF TypeOK, ConstantsOK
  <1>2. Len(workers) \in Nat /\ DOMAIN workers = 1 .. Len(workers)
    BY <1>1, LenProperties
  <1>3. \A i \in DOMAIN workers : workers[i] \in Worker
    BY <1>1, LenProperties
  <1>4. QED
    BY <1>1, <1>2, <1>3 DEF Worker

\* Workers that are in line at the same time have subframes near each other.
LEMMA NearInLine ==
  ASSUME TypeOK, InLine, NEW i \in DOMAIN workers, NEW k \in DOMAIN workers
  PROVE  Near(workers[k].tti, workers[i].tti)
  <1>1. i \in 1 .. Len(workers) /\ k \in 1 .. Len(workers) /\ Len(workers) \in Nat
        /\ Len(workers) <= NofWorkers /\ NofWorkers \in Nat
    BY TheWorkers
  <1>2. CASE i <= k
    <2>1. k - i \in 0 .. NofWorkers - 1
      BY <1>1, <1>2
    <2>2. workers[k].tti = TtiAdd(workers[i].tti, k - i)
      BY <1>2 DEF InLine
    <2>3. QED
      BY <2>1, <2>2 DEF Near
  <1>3. CASE k <= i
    <2>1. i - k \in 0 .. NofWorkers - 1
      BY <1>1, <1>3
    <2>2. workers[i].tti = TtiAdd(workers[k].tti, i - k)
      BY <1>3 DEF InLine
    <2>3. QED
      BY <2>1, <2>2 DEF Near
  <1>4. QED
    BY <1>1, <1>2, <1>3

\* A worker that moves on stays in line; what it stores in current_tti is near the others.
LEMMA InLineMoves ==
  ASSUME TypeOK, InLine, NEW k \in DOMAIN workers, nextTti' = nextTti,
         DOMAIN workers' = DOMAIN workers, Len(workers') = Len(workers),
         \A i \in DOMAIN workers : workers'[i].tti = workers[i].tti,
         \A i \in DOMAIN workers : i # k => workers'[i] = workers[i],
         Ungranted(workers'[k]) => Ungranted(workers[k]) /\ workers'[k].grant = workers[k].grant,
         \/ current' = current /\ (Scheduling(workers'[k]) => Scheduling(workers[k]))
         \/ current' \in {TtiAdd(workers[k].tti, HarqDelay), TtiAdd(workers[k].tti, Rtt)}
  PROVE  InLine'
  <1>1. \A i \in DOMAIN workers : Scheduling(workers'[i]) => current' \in Storable(workers[i].tti)
    <2>1. CASE current' = current /\ (Scheduling(workers'[k]) => Scheduling(workers[k]))
      BY <2>1 DEF InLine
    <2>2. CASE current' \in {TtiAdd(workers[k].tti, HarqDelay), TtiAdd(workers[k].tti, Rtt)}
      <3>1. \A i \in DOMAIN workers : Near(workers[k].tti, workers[i].tti)
        BY NearInLine
      <3>2. workers[k].tti \in Ttis
        BY TheWorkers
      <3>3. QED
        BY <2>2, <3>1, <3>2 DEF Storable
    <2>3. QED
      BY <2>1, <2>2
  <1>2. \A i \in DOMAIN workers : Ungranted(workers'[i]) => workers'[i].grant.pid = NoProc
    BY DEF InLine
  <1>3. QED
    BY <1>1, <1>2 DEF InLine

LEMMA InLineDispatch ==
  ASSUME TypeOK, InLine, Dispatch
  PROVE  InLine'
  <1> DEFINE w == [tti |-> nextTti, grant |-> NoGrant, pc |-> "decode"]
             m == Len(workers) + 1
  <1>1. /\ workers' = Append(workers, w) /\ nextTti' = TtiAdd(nextTti, 1) /\ current' = current
        /\ w.tti = nextTti /\ ~Scheduling(w) /\ w.grant.pid = NoProc
    BY DEF Dispatch, Scheduling, NoGrant
  <1>2. /\ workers \in Seq(Worker) /\ Len(workers) \in Nat /\ DOMAIN workers = 1 .. Len(workers)
        /\ nextTti \in Ttis /\ nextTti \in Nat /\ \A i \in DOMAIN workers : workers[i].tti \in Ttis
    BY TheWorkers DEF TypeOK, Ttis
  <1>3. w \in Worker
    BY <1>2 DEF Worker, NoGrant, Grants
  <1> HIDE DEF w
  <1>4. /\ Len(workers') = m /\ DOMAIN workers' = 1 .. m /\ workers'[m] = w
        /\ \A i \in DOMAIN workers : workers'[i] = workers[i]
    BY <1>1, <1>2, <1>3
  <1>5. TtiAdd(nextTti, 0) = nextTti
    BY <1>2, Turns
  <1>6. ASSUME NEW i \in 1 .. m
        PROVE  /\ nextTti' = TtiAdd(workers'[i].tti, m + 1 - i)
               /\ \A k \in 1 .. m : i <= k => workers'[k].tti = TtiAdd(workers'[i].tti, k - i)
    <2>1. CASE i = m
      <3>1. \A k \in 1 .. m : i <= k => k = m
        BY <1>2, <2>1
      <3>2. m + 1 - i = 1 /\ m - i = 0
        BY <1>2, <2>1
      <3>3. QED
        BY <1>1, <1>4, <1>5, <2>1, <3>1, <3>2
    <2>2. CASE i # m
      <3>1. i \in DOMAIN workers /\ m - i \in Nat /\ (m - i) + 1 = m + 1 - i
        BY <1>2, <2>2
      <3>2. nextTti = TtiAdd(workers[i].tti, m - i) /\ workers[i].tti \in Ttis
        BY <1>2, <3>1 DEF InLine
      <3>3. TtiAdd(TtiAdd(workers[i].tti, m - i), 1) = TtiAdd(workers[i].tti, (m - i) + 1)
        BY <3>1, <3>2, Turns
      <3>4. ASSUME NEW k \in 1 .. m, i <= k
            PROVE  workers'[k].tti = TtiAdd(workers'[i].tti, k - i)
        <4>1. CASE k = m
          BY <1>1, <1>4, <3>1, <3>2, <4>1
        <4>2. CASE k # m
          <5>1. k \in DOMAIN workers
            BY <1>2, <4>2
          <5>2. QED
            BY <1>4, <3>1, <3>4, <5>1 DEF InLine
        <4>3. QED
          BY <4>1, <4>2
      <3>5. QED
        BY <1>1, <1>4, <3>1, <3>2, <3>3, <3>4
    <2>3. QED
      BY <2>1, <2>2
  <1>7. \A i \in 1 .. m : /\ Scheduling(workers'[i]) => current' \in Storable(workers'[i].tti)
                          /\ Ungranted(workers'[i]) => workers'[i].grant.pid = NoProc
    <2>1. \A i \in 1 .. m : i = m \/ i \in DOMAIN workers
      BY <1>2
    <2>2. QED
      BY <1>1, <1>4, <2>1 DEF InLine
  <1>8. QED
    BY <1>4, <1>6, <1>7 DEF InLine

LEMMA InLineEnd ==
  ASSUME TypeOK, InLine, End
  PROVE  InLine'
  <1>1. /\ workers \in Seq(Worker) /\ workers # << >> /\ Len(workers) \in Nat
        /\ DOMAIN workers = 1 .. Len(workers)
        /\ workers' = Tail(workers) /\ nextTti' = nextTti /\ current' = current
    BY TheWorkers DEF End
  <1>2. /\ Len(workers') = Len(workers) - 1 /\ DOMAIN workers' = 1 .. Len(workers) - 1
        /\ \A i \in 1 .. Len(workers) - 1 : workers'[i] = workers[i + 1]
    BY <1>1
  <1>3. \A i \in 1 .. Len(workers) - 1 : i + 1 \in DOMAIN workers
    BY <1>1
  <1>4. ASSUME NEW i \in DOMAIN workers', NEW k \in DOMAIN workers', i <= k
        PROVE  workers'[k].tti = TtiAdd(workers'[i].tti, k - i)
    <2>1. i + 1 <= k + 1 /\ (k + 1) - (i + 1) = k - i /\ i + 1 \in DOMAIN workers /\ k + 1 \in DOMAIN workers
      BY <1>1, <1>2, <1>3, <1>4
    <2>2. workers[k + 1].tti = TtiAdd(workers[i + 1].tti, (k + 1) - (i + 1))
      BY <2>1 DEF InLine
    <2>3. QED
      BY <1>2, <2>1, <2>2
  <1>5. ASSUME NEW i \in DOMAIN workers'
        PROVE  nextTti' = TtiAdd(workers'[i].tti, Len(workers') + 1 - i)
    <2>1. Len(workers) + 1 - (i + 1) = Len(workers') + 1 - i /\ i + 1 \in DOMAIN workers
      BY <1>1, <1>2, <1>3
    <2>2. nextTti = TtiAdd(workers[i + 1].tti, Len(workers) + 1 - (i + 1))
      BY <2>1 DEF InLine
    <2>3. QED
      BY <1>1, <1>2, <2>1, <2>2
  <1>6. \A i \in DOMAIN workers' : /\ Scheduling(workers'[i]) => current' \in Storable(workers'[i].tti)
                                   /\ Ungranted(workers'[i]) => workers'[i].grant.pid = NoProc
    BY <1>1, <1>2, <1>3 DEF InLine
  <1>7. QED
    BY <1>4, <1>5, <1>6 DEF InLine

LEMMA InLineNext ==
  ASSUME TypeOK, InLine, [Next]_vars
  PROVE  InLine'
  <1>1. ASSUME NEW i \in 1 .. NofWorkers, Work(i)
        PROVE  InLine'
    <2>1. /\ i \in DOMAIN workers /\ nextTti' = nextTti
          /\ workers \in Seq(Worker) /\ workers[i] \in Worker
      <3>1. i \in DOMAIN workers /\ nextTti' = nextTti
        BY <1>1 DEF Work, Decode, EnterDl, Select, Generate, EnterUl, Send, At
      <3>2. QED
        BY <3>1, TheWorkers, LenProperties
    <2>2. PICK w : /\ workers' = [workers EXCEPT ![i] = w] /\ w.tti = workers[i].tti
                   /\ Ungranted(w) => Ungranted(workers[i]) /\ w.grant = workers[i].grant
                   /\ \/ current' = current /\ (Scheduling(w) => Scheduling(workers[i]))
                      \/ current' \in {TtiAdd(workers[i].tti, HarqDelay), TtiAdd(workers[i].tti, Rtt)}
      <3>1. CASE Decode(i) \/ EnterDl(i) \/ Select(i) \/ EnterUl(i) \/ Send(i)
        <4>1. PICK pc : /\ Goto(i, pc)
                        /\ Ungranted([pc |-> pc]) => Ungranted(workers[i])
                        /\ \/ current' = current /\ (Scheduling([pc |-> pc]) => Scheduling(workers[i]))
                           \/ current' \in {TtiAdd(workers[i].tti, HarqDelay), TtiAdd(workers[i].tti, Rtt)}
          BY <3>1 DEF Decode, EnterDl, Select, EnterUl, Send, At, Scheduling,
             Ungranted
        <4> DEFINE w == [workers[i] EXCEPT !.pc = pc]
        <4>2. /\ w.tti = workers[i].tti /\ w.pc = pc /\ w.grant = workers[i].grant
              /\ workers' = [workers EXCEPT ![i] = w]
          BY <2>1, <4>1 DEF Goto, Worker
        <4> HIDE DEF w
        <4>3. /\ Scheduling(w) <=> Scheduling([pc |-> pc])
              /\ Ungranted(w) <=> Ungranted([pc |-> pc])
          BY <4>2 DEF Scheduling, Ungranted
        <4>4. QED
          BY <4>1, <4>2, <4>3
      <3>2. CASE Generate(i)
        <4>1. current' = current /\ Scheduling(workers[i])
          BY <3>2 DEF Generate, At, Scheduling
        <4>2. \/ workers' = [workers EXCEPT ![i] = [workers[i] EXCEPT !.pc = "ul"]]
              \/ \E g : workers' = [workers EXCEPT ![i] = [workers[i] EXCEPT !.pc = "ul", !.grant = g]]
          BY <3>2 DEF Generate
        <4>3. \A g : LET a == [workers[i] EXCEPT !.pc = "ul"]
                         b == [workers[i] EXCEPT !.pc = "ul", !.grant = g]
                     IN  /\ a.tti = workers[i].tti /\ ~Scheduling(a) /\ ~Ungranted(a)
                         /\ b.tti = workers[i].tti /\ ~Scheduling(b) /\ ~Ungranted(b)
          BY <2>1 DEF Worker, Scheduling, Ungranted
        <4>4. QED
          BY <4>1, <4>2, <4>3
      <3>3. QED
        BY <1>1, <3>1, <3>2 DEF Work
    <2>3. /\ DOMAIN workers' = DOMAIN workers /\ Len(workers') = Len(workers)
          /\ workers'[i] = w /\ \A k \in DOMAIN workers : k # i => workers'[k] = workers[k]
      BY <2>1, <2>2
    <2>4. \A k \in DOMAIN workers : workers'[k].tti = workers[k].tti
      BY <2>2, <2>3
    <2>5. QED
      BY <2>1, <2>2, <2>3, <2>4, InLineMoves
  <1>2. CASE BufferState \/ PhyConfigEnabled \/ SetDlRi \/ UeCfg \/ UNCHANGED vars
    <2>1. UNCHANGED <<workers, nextTti, current>>
      BY <1>2 DEF BufferState, PhyConfigEnabled, SetDlRi, UeCfg, vars
    <2>2. QED
      BY <2>1 DEF InLine
  <1>3. QED
    BY <1>1, <1>2, InLineDispatch, InLineEnd DEF Next

\* A grant is recorded under the TTI in current_tti.
LEMMA RecordedNow ==
  ASSUME TypeOK, InLine, NEW i \in 1 .. NofWorkers, Generate(i), workers'[i].grant.pid # NoProc
  PROVE  harq'[workers'[i].grant.pid].tti = current
  <1>0. /\ i \in DOMAIN workers /\ workers[i] \in Worker /\ workers[i].pc = "generate"
        /\ workers[i].grant.pid = NoProc /\ harq \in [Procs -> Process] /\ current \in Ttis
        /\ selected \in Procs \cup {NoProc} /\ Timeout \in Nat
    <2>1. i \in DOMAIN workers /\ workers[i].pc = "generate"
      BY DEF Generate, At
    <2>2. workers[i] \in Worker
      BY <2>1, TheWorkers, LenProperties
    <2>3. workers[i].grant.pid = NoProc
      BY <2>1 DEF InLine, Ungranted
    <2>4. QED
      BY <2>1, <2>2, <2>3, ConstantsOK DEF TypeOK, ConstantsOK
  <1>1. ~(workers' = [workers EXCEPT ![i].pc = "ul"])
    BY <1>0 DEF Worker
  <1>2. PICK taken \in Nat : \E g \in GrantFor(taken) :
          /\ selected # NoProc
          /\ harq' = TimeOut(Transmitted(g, current), current)
          /\ workers' = [workers EXCEPT ![i].pc = "ul", ![i].grant = g]
    <2>1. buf \in Nat /\ (IF buf = 0 THEN 0 ELSE 1) .. buf \subseteq Nat
      BY DEF TypeOK
    <2>2. \E taken \in (IF buf = 0 THEN 0 ELSE 1) .. buf : \E g \in GrantFor(taken) :
            /\ selected # NoProc
            /\ harq' = TimeOut(Transmitted(g, current), current)
            /\ workers' = [workers EXCEPT ![i].pc = "ul", ![i].grant = g]
      BY <1>1 DEF Generate
    <2>3. QED
      BY <2>1, <2>2
  <1>3. PICK g \in GrantFor(taken) :
          /\ selected # NoProc
          /\ harq' = TimeOut(Transmitted(g, current), current)
          /\ workers' = [workers EXCEPT ![i].pc = "ul", ![i].grant = g]
    BY <1>2
  <1>4. g = workers'[i].grant
    BY <1>0, <1>3 DEF Worker
  <1>5. g.pid \in {selected, NoProc} /\ g.pid \in Procs
    BY <1>0, <1>4, <1>3, GrantTypes
  <1> DEFINE new   == Transmit(harq[g.pid], current, g.fresh, g.again)
             procs == Transmitted(g, current)
  <1>6. procs = [harq EXCEPT ![g.pid] = new]
    BY <1>4 DEF Transmitted
  <1>7. new.tti = current /\ ~(Interval(current, new.tti) > Timeout)
    BY <1>0 DEF Transmit, Interval, Ttis
  <1> HIDE DEF new, procs
  <1>8. procs[g.pid] = new
    BY <1>0, <1>5, <1>6
  <1>9. harq' = TimeOut(procs, current)
    BY <1>3 DEF procs
  <1>10. harq'[g.pid] = new
    BY <1>5, <1>7, <1>8, <1>9 DEF TimeOut
  <1>11. QED
    BY <1>4, <1>7, <1>10

\* dl_sched stores current_tti before sched_mutex and ul_sched stores it again
\* (scheduler.cc:768, 819): with any number of workers a grant is recorded under a TTI that a
\* subframe less than that number away stores, also with reconfigurations.
THEOREM GrantsAreNear == Spec => GrantTtiNear
  <1> DEFINE A == \A i \in 1 .. NofWorkers : Generate(i) =>
                    LET g == workers'[i].grant
                    IN  g.pid # NoProc => harq'[g.pid].tti \in Storable(workers[i].tti)
  <1>1. Init => InLine
    <2> SUFFICES ASSUME Init PROVE InLine
      OBVIOUS
    <2>1. workers = << >> /\ DOMAIN workers = {}
      BY EmptySeq DEF Init
    <2>2. QED
      BY <2>1 DEF InLine
  <1>2. TypeOK /\ InLine /\ [Next]_vars => InLine'
    BY InLineNext
  <1>3. TypeOK /\ InLine /\ [Next]_vars => [A]_vars
    <2> SUFFICES ASSUME TypeOK, InLine, NEW i \in 1 .. NofWorkers, Generate(i),
                        workers'[i].grant.pid # NoProc
                 PROVE  harq'[workers'[i].grant.pid].tti \in Storable(workers[i].tti)
      OBVIOUS
    <2>1. current \in Storable(workers[i].tti)
      BY DEF Generate, At, InLine, Scheduling
    <2>2. QED
      BY <2>1, RecordedNow
  <1> HIDE DEF A
  <1>4. Spec => [][A]_vars
    BY <1>1, <1>2, <1>3, TypeCorrect, PTL DEF Spec
  <1>5. QED
    BY <1>4 DEF A, GrantTtiNear

-----------------------------------------------------------------------------
(***************************************************************************)
(* What is in flight. Feedback finds its process by the TTI of the last    *)
(* transmission; with one worker the scheduler and the PHY agree on it.    *)
(* With more, a worker may schedule for the TTI another stored in          *)
(* current_tti, and with a reconfiguration the processes are reset under   *)
(* their transmissions.                                                    *)
(***************************************************************************)

\* One worker, processes that may be repeated, and the proportions of the code: the feedback
\* slots cover a round trip and divide the hyperframe, a process is not given up before its
\* feedback is due, but long before its TTI comes again.
InTurn ==
    /\ NofWorkers = 1 /\ ~MayReconf /\ MaxRetx > 0
    /\ TtiMod % SlotMod = 0 /\ Rtt < SlotMod /\ SlotMod < TtiMod
    /\ Rtt <= Timeout /\ Timeout + 1 <= TtiMod \div 2

LEMMA Sizes ==
  ASSUME InTurn
  PROVE  /\ TtiMod \in Nat \ {0} /\ SlotMod \in Nat \ {0} /\ HarqDelay \in Nat \ {0}
         /\ Timeout \in Nat /\ MaxRetx \in Nat \ {0} /\ NofWorkers = 1
         /\ Rtt \in Nat \ {0} /\ Rtt = HarqDelay + HarqDelay
         /\ TtiMod % SlotMod = 0 /\ Rtt < SlotMod /\ SlotMod < TtiMod
         /\ Rtt <= Timeout /\ Timeout + 1 < TtiMod /\ Timeout + 1 <= TtiMod \div 2
  <1>1. /\ TtiMod \in Nat \ {0} /\ SlotMod \in Nat \ {0} /\ HarqDelay \in Nat \ {0}
        /\ Timeout \in Nat /\ MaxRetx \in Nat \ {0}
    BY ConstantsOK DEF ConstantsOK, InTurn
  <1>2. Rtt \in Nat \ {0} /\ Rtt = HarqDelay + HarqDelay
    BY <1>1 DEF Rtt
  <1>3. Timeout + 1 < TtiMod
    BY <1>1, <1>2 DEF InTurn
  <1>4. QED
    BY <1>1, <1>2, <1>3 DEF InTurn

\* TTIs go round in a circle, and the age of one is the way to it.
LEMMA Circle ==
  ASSUME InTurn, NEW x \in Ttis
  PROVE  /\ TtiAdd(x, 0) = x
         /\ \A a, b \in Nat : TtiAdd(TtiAdd(x, a), b) = TtiAdd(x, a + b)
         /\ \A a, b \in 0 .. TtiMod - 1 : TtiAdd(x, a) = TtiAdd(x, b) => a = b
         /\ \A a \in 0 .. TtiMod - 1 : Interval(TtiAdd(x, a), x) = a
         /\ \A a \in Nat : TtiAdd(x, a) % SlotMod = (x + a) % SlotMod
  <1>0. TtiMod \in Nat \ {0} /\ x \in 0 .. TtiMod - 1 /\ x \in Nat
    BY Sizes DEF Ttis
  <1>1. TtiAdd(x, 0) = x
    BY Turns
  <1>2. \A a, b \in Nat : TtiAdd(TtiAdd(x, a), b) = TtiAdd(x, a + b)
    BY Turns
  <1>3. ASSUME NEW a \in 0 .. TtiMod - 1
        PROVE  Interval(TtiAdd(x, a), x) = a
    <2>1. CASE x + a < TtiMod
      <3>1. (TtiMod * 0 + (x + a)) % TtiMod = x + a
        BY <1>0, <2>1, Remainder
      <3>2. TtiAdd(x, a) = x + a
        BY <1>0, <3>1 DEF TtiAdd
      <3>3. QED
        BY <1>0, <3>2 DEF Interval
    <2>2. CASE ~(x + a < TtiMod)
      <3>1. (TtiMod * 1 + (x + a - TtiMod)) % TtiMod = x + a - TtiMod
        BY <1>0, <2>2, Remainder
      <3>2. TtiAdd(x, a) = x + a - TtiMod
        BY <1>0, <3>1 DEF TtiAdd
      <3>3. QED
        BY <1>0, <2>2, <3>2 DEF Interval
    <2>3. QED
      BY <2>1, <2>2
  <1>4. ASSUME NEW a \in Nat
        PROVE  TtiAdd(x, a) % SlotMod = (x + a) % SlotMod
    <2>1. x + a \in Nat /\ SlotMod \in Nat \ {0} /\ TtiMod % SlotMod = 0
      BY <1>0, Sizes
    <2>2. ((x + a) % TtiMod) % SlotMod = (x + a) % SlotMod
      BY <1>0, <2>1, ModMod
    <2>3. QED
      BY <2>2 DEF TtiAdd
  <1>5. \A a, b \in 0 .. TtiMod - 1 : TtiAdd(x, a) = TtiAdd(x, b) => a = b
    BY <1>3
  <1>6. QED
    BY <1>1, <1>2, <1>3, <1>4, <1>5

LEMMA Twice ==
  ASSUME InTurn, NEW x \in Ttis
  PROVE  TtiAdd(TtiAdd(x, HarqDelay), HarqDelay) = TtiAdd(x, Rtt)
  <1>1. \A a, b \in Nat : TtiAdd(TtiAdd(x, a), b) = TtiAdd(x, a + b)
    BY Circle
  <1>2. QED
    BY <1>1, Sizes

\* Once round the circle.
LEMMA Around ==
  ASSUME InTurn, NEW x \in Ttis
  PROVE  TtiAdd(x, TtiMod) = x
  <1>1. TtiMod \in Nat \ {0} /\ x \in 0 .. TtiMod - 1
    BY Sizes DEF Ttis
  <1>2. (TtiMod * 0 + x) % TtiMod = x
    BY <1>1, Remainder
  <1>3. TtiMod * 0 + x = x /\ x \in Nat
    BY <1>1
  <1>4. (x + TtiMod) % TtiMod = x % TtiMod
    BY <1>1, <1>3, ModPlus
  <1>5. QED
    BY <1>2, <1>3, <1>4 DEF TtiAdd

-----------------------------------------------------------------------------
(* What is kept of the processes hs and of the grant g of slot s, sent with blocks bs, when  *)
(* the subframe sent in TTI x is in work.                                                     *)

\* Process p, the only one in use with TTI x, awaits the feedback of blocks bs.
Held(hs, p, x, bs) ==
    /\ p \in Procs /\ ~AllEmpty(hs[p]) /\ hs[p].tti = x
    /\ \A q \in Procs \ {p} : AllEmpty(hs[q]) \/ hs[q].tti # x
    /\ \A b \in bs : hs[p].tb[b].active /\ ~hs[p].tb[b].ack_received

Counted(hs) == \A p \in Procs, b \in TBs : hs[p].tb[b].active => hs[p].tb[b].tx_cnt = 1

\* A process in use was transmitted no longer ago than the time-out.
Young(h, x, lo) == AllEmpty(h) \/ \E a \in lo .. Timeout + lo : TtiAdd(h.tti, a) = x

Ages(hs, x, lo) == \A p \in Procs : Young(hs[p], x, lo)

\* The grant was sent d TTIs ago; up to k, its process is held for it.
SentAgo(hs, s, g, bs, x, d, k) ==
    /\ TtiAdd(g.tti, d) = x /\ TtiAdd(g.tti, HarqDelay) % SlotMod = s
    /\ d <= k => Held(hs, g.pid, g.tti, bs)

Flight(hs, s, g, bs, x, lo, k) ==
    g.pid = NoProc \/ \E d \in lo .. SlotMod - 1 + lo : SentAgo(hs, s, g, bs, x, d, k)

\* Feedback received in n changes only processes that transmitted for it.
OnlyDue(hs, hs2, n) ==
    \A q \in Procs : /\ hs2[q].tti = hs[q].tti
                     /\ hs2[q] = hs[q] \/ TtiAdd(hs[q].tti, HarqDelay) = n

LEMMA Target ==
  ASSUME InTurn, NEW hs, NEW n, AckTarget(hs, n) \in Procs
  PROVE  TtiAdd(hs[AckTarget(hs, n)].tti, HarqDelay) = n
  <1> DEFINE S == {p \in Procs : TtiAdd(hs[p].tti, HarqDelay) = n}
  <1>1. CASE S = {}
    <2>1. AckTarget(hs, n) = NoProc
      BY <1>1 DEF AckTarget
    <2>2. QED
      BY <2>1, NoProcNotProc
  <1>2. CASE S # {}
    <2>1. S \in SUBSET Nat
      BY DEF Procs
    <2>2. PICK m \in S : \A q \in S : m <= q
      BY <1>2, <2>1, LeastNat
    <2>3. \E p \in Procs : /\ TtiAdd(hs[p].tti, HarqDelay) = n
                           /\ \A q \in Procs : TtiAdd(hs[q].tti, HarqDelay) = n => p <= q
      BY <2>2
    <2>4. \E p \in Procs : TtiAdd(hs[p].tti, HarqDelay) = n
      BY <2>3
    <2>5. QED
      BY <2>3, <2>4 DEF AckTarget
  <1>3. QED
    BY <1>1, <1>2

LEMMA FeedbackIsDue ==
  ASSUME InTurn, NEW hs \in [Procs -> Process], NEW n, NEW flagged, NEW ack \in [TBs -> BOOLEAN],
         NEW hs2, hs2 = AckInfo(hs, n, flagged, ack)
  PROVE  OnlyDue(hs, hs2, n) /\ (Counted(hs) => Counted(hs2))
  <1>1. ASSUME NEW q \in Procs
        PROVE  /\ hs2[q].tti = hs[q].tti
               /\ hs2[q] = hs[q] \/ TtiAdd(hs[q].tti, HarqDelay) = n
    <2>1. CASE q # AckTarget(hs, n)
      BY <2>1 DEF AckInfo
    <2>2. CASE q = AckTarget(hs, n)
      BY <2>2, Target DEF AckInfo
    <2>3. QED
      BY <2>1, <2>2
  <1>2. ASSUME Counted(hs)
        PROVE  Counted(hs2)
    <2> SUFFICES ASSUME NEW q \in Procs, NEW b \in TBs, hs2[q].tb[b].active
                 PROVE  hs2[q].tb[b].tx_cnt = 1
      BY DEF Counted
    <2>1. hs[q].tb[b].active => hs[q].tb[b].tx_cnt = 1
      BY <1>2 DEF Counted
    <2>2. hs2[q].tb[b] = hs[q].tb[b] \/ hs2[q].tb[b] = SetAckTb(hs[q].tb[b], ack[b])
      BY DEF AckInfo
    <2>3. hs[q].tb[b] \in TbState
      BY DEF Process
    <2>4. QED
      BY <2>1, <2>2, <2>3 DEF SetAckTb, TbState
  <1>3. QED
    BY <1>1, <1>2 DEF OnlyDue

LEMMA DueKeepsAges ==
  ASSUME InTurn, NEW hs \in [Procs -> Process], NEW hs2, NEW n \in Ttis, OnlyDue(hs, hs2, n),
         Ages(hs, TtiAdd(n, HarqDelay), 1)
  PROVE  Ages(hs2, TtiAdd(n, HarqDelay), 1)
  <1> SUFFICES ASSUME NEW q \in Procs
               PROVE  Young(hs2[q], TtiAdd(n, HarqDelay), 1)
    BY DEF Ages
  <1>1. hs[q].tti \in Ttis
    BY DEF Process
  <1>2. CASE hs2[q] = hs[q]
    <2>1. Young(hs[q], TtiAdd(n, HarqDelay), 1)
      BY DEF Ages
    <2>2. QED
      BY <1>2, <2>1
  <1>3. CASE TtiAdd(hs[q].tti, HarqDelay) = n
    <2>1. TtiAdd(hs[q].tti, Rtt) = TtiAdd(n, HarqDelay)
      BY <1>1, <1>3, Twice
    <2>2. Rtt \in 1 .. Timeout + 1 /\ hs2[q].tti = hs[q].tti
      BY Sizes DEF OnlyDue
    <2>3. QED
      BY <2>1, <2>2 DEF Young
  <1>4. QED
    BY <1>2, <1>3 DEF OnlyDue

\* The processes whose feedback comes later are held as before.
LEMMA DueKeepsFlight ==
  ASSUME InTurn, NEW hs \in [Procs -> Process], NEW hs2, NEW n \in Ttis, OnlyDue(hs, hs2, n),
         NEW s, NEW g, g.tti \in Ttis, NEW bs, NEW bs2 \in SUBSET bs,
         Flight(hs, s, g, bs, TtiAdd(n, HarqDelay), 1, Rtt)
  PROVE  Flight(hs2, s, g, bs2, TtiAdd(n, HarqDelay), 1, Rtt - 1)
  <1> DEFINE x == TtiAdd(n, HarqDelay)
  <1> SUFFICES ASSUME NEW d \in 1 .. SlotMod, SentAgo(hs, s, g, bs, x, d, Rtt)
               PROVE  SentAgo(hs2, s, g, bs2, x, d, Rtt - 1)
    BY Sizes DEF Flight
  <1> SUFFICES ASSUME d <= Rtt - 1 PROVE Held(hs2, g.pid, g.tti, bs2)
    BY DEF SentAgo
  <1>1. Held(hs, g.pid, g.tti, bs) /\ TtiAdd(g.tti, d) = x
    BY Sizes DEF SentAgo
  <1>2. TtiAdd(g.tti, HarqDelay) # n
    <2> SUFFICES ASSUME TtiAdd(g.tti, HarqDelay) = n PROVE FALSE
      OBVIOUS
    <2>1. TtiAdd(g.tti, Rtt) = x
      BY Twice
    <2>2. Rtt \in 0 .. TtiMod - 1 /\ d \in 0 .. TtiMod - 1 /\ d # Rtt
      BY Sizes
    <2>3. \A a, b \in 0 .. TtiMod - 1 : TtiAdd(g.tti, a) = TtiAdd(g.tti, b) => a = b
      BY Circle
    <2>4. QED
      BY <1>1, <2>1, <2>2, <2>3
  <1>3. \A q \in Procs : hs2[q].tti = hs[q].tti /\ (hs[q].tti = g.tti => hs2[q] = hs[q])
    BY <1>2 DEF OnlyDue
  <1>4. g.pid \in Procs /\ hs2[g.pid] = hs[g.pid]
    BY <1>1, <1>3 DEF Held
  <1>5. \A q \in Procs \ {g.pid} : AllEmpty(hs2[q]) \/ hs2[q].tti # g.tti
    BY <1>1, <1>3 DEF Held
  <1>6. QED
    BY <1>1, <1>4, <1>5 DEF Held

\* What the metric may select, and what becomes of the processes when p, or none, is given
\* the subframe sent in x.
MayUse(hs, p, x) == AllEmpty(hs[p]) \/ HasPendingRetx(hs[p], x)

Late(h, x) == ~AllEmpty(h) /\ Interval(x, h.tti) > Timeout

Scheduled(hs, hs2, p, x) ==
    /\ \A q \in Procs \ {p} : hs2[q] = IF Late(hs[q], x) THEN IdleProc ELSE hs[q]
    /\ p \in Procs => hs2[p] = IdleProc \/ hs2[p].tti = x

LEMMA IdleIsEmpty == AllEmpty(IdleProc)
  BY DEF AllEmpty, TbEmpty, IdleProc, IdleTb

\* A process in use is as old as the way from its TTI is long.
LEMMA YoungAge ==
  ASSUME InTurn, NEW h, h.tti \in Ttis, NEW x, ~AllEmpty(h), Young(h, x, 1)
  PROVE  \E a \in 1 .. Timeout + 1 : TtiAdd(h.tti, a) = x /\ Interval(x, h.tti) = a
  <1>1. PICK a \in 1 .. Timeout + 1 : TtiAdd(h.tti, a) = x
    BY DEF Young
  <1>2. a \in 0 .. TtiMod - 1
    BY Sizes
  <1>3. \A c \in 0 .. TtiMod - 1 : Interval(TtiAdd(h.tti, c), h.tti) = c
    BY Circle
  <1>4. QED
    BY <1>1, <1>2, <1>3

LEMMA ScheduledAges ==
  ASSUME InTurn, NEW hs \in [Procs -> Process], NEW hs2, NEW p, NEW x \in Ttis,
         Scheduled(hs, hs2, p, x), Ages(hs, x, 1)
  PROVE  Ages(hs2, x, 0)
  <1> SUFFICES ASSUME NEW q \in Procs, ~AllEmpty(hs2[q])
               PROVE  \E a \in 0 .. Timeout : TtiAdd(hs2[q].tti, a) = x
    <2>1. Timeout + 0 = Timeout
      BY Sizes
    <2>2. QED
      BY <2>1 DEF Ages, Young
  <1>1. CASE hs2[q].tti = x
    <2>1. TtiAdd(x, 0) = x /\ 0 \in 0 .. Timeout
      BY Circle, Sizes
    <2>2. QED
      BY <1>1, <2>1
  <1>2. CASE hs2[q] = hs[q] /\ ~Late(hs[q], x)
    <2>1. hs[q].tti \in Ttis /\ ~AllEmpty(hs[q]) /\ Young(hs[q], x, 1)
      BY <1>2 DEF Process, Ages
    <2>2. PICK a \in 1 .. Timeout + 1 : TtiAdd(hs[q].tti, a) = x /\ Interval(x, hs[q].tti) = a
      BY <2>1, YoungAge
    <2>3. a \in 0 .. Timeout
      BY <1>2, <2>1, <2>2, Sizes DEF Late
    <2>4. QED
      BY <1>2, <2>2, <2>3
  <1>3. hs2[q] # IdleProc
    BY IdleIsEmpty
  <1>4. QED
    BY <1>1, <1>2, <1>3 DEF Scheduled

\* A process whose feedback is still to come is neither selected nor late.
LEMMA HeldIsYoung ==
  ASSUME InTurn, NEW hs, NEW p, NEW y \in Ttis, NEW bs, Held(hs, p, y, bs),
         NEW x, NEW d \in 1 .. Rtt - 1, TtiAdd(y, d) = x
  PROVE  ~MayUse(hs, p, x) /\ ~Late(hs[p], x) /\ x # y
  <1>1. Interval(x, y) = d /\ x # y
    <2>1. d \in 0 .. TtiMod - 1 /\ 0 \in 0 .. TtiMod - 1 /\ d # 0
      BY Sizes
    <2>2. /\ TtiAdd(y, 0) = y
          /\ \A a \in 0 .. TtiMod - 1 : Interval(TtiAdd(y, a), y) = a
      BY Circle
    <2>3. QED
      BY <2>1, <2>2
  <1>2. ~(Interval(x, y) >= Rtt) /\ ~(Interval(x, y) > Timeout)
    BY <1>1, Sizes
  <1>3. hs[p].tti = y /\ ~AllEmpty(hs[p])
    BY DEF Held
  <1>4. QED
    BY <1>1, <1>2, <1>3 DEF MayUse, HasPendingRetx, Late

LEMMA ScheduledFlight ==
  ASSUME InTurn, NEW hs \in [Procs -> Process], NEW hs2, NEW p, NEW x \in Ttis,
         Scheduled(hs, hs2, p, x), p \in Procs => MayUse(hs, p, x),
         NEW s, NEW g, g.tti \in Ttis, NEW bs, Flight(hs, s, g, bs, x, 1, Rtt - 1)
  PROVE  Flight(hs2, s, g, bs, x, 1, Rtt - 1)
  <1> SUFFICES ASSUME NEW d \in 1 .. SlotMod, SentAgo(hs, s, g, bs, x, d, Rtt - 1)
               PROVE  SentAgo(hs2, s, g, bs, x, d, Rtt - 1)
    BY Sizes DEF Flight
  <1> SUFFICES ASSUME d <= Rtt - 1 PROVE Held(hs2, g.pid, g.tti, bs)
    BY DEF SentAgo
  <1>1. Held(hs, g.pid, g.tti, bs) /\ TtiAdd(g.tti, d) = x /\ d \in 1 .. Rtt - 1
    BY Sizes DEF SentAgo
  <1>2. ~MayUse(hs, g.pid, x) /\ ~Late(hs[g.pid], x) /\ x # g.tti
    BY <1>1, HeldIsYoung
  <1>3. g.pid \in Procs /\ g.pid # p
    BY <1>1, <1>2 DEF Held
  <1>4. hs2[g.pid] = hs[g.pid]
    BY <1>2, <1>3 DEF Scheduled
  <1>5. ASSUME NEW q \in Procs \ {g.pid}
        PROVE  AllEmpty(hs2[q]) \/ hs2[q].tti # g.tti
    <2>1. AllEmpty(hs[q]) \/ hs[q].tti # g.tti
      BY <1>1 DEF Held
    <2>2. hs2[q] = IdleProc \/ hs2[q].tti = x \/ hs2[q] = hs[q]
      BY DEF Scheduled
    <2>3. QED
      BY <1>2, <2>1, <2>2, IdleIsEmpty
  <1>6. QED
    BY <1>1, <1>3, <1>4, <1>5 DEF Held

\* The process just transmitted is the only one in use with that TTI.
LEMMA ScheduledHeld ==
  ASSUME InTurn, NEW hs \in [Procs -> Process], NEW hs2, NEW p \in Procs, NEW x \in Ttis,
         Scheduled(hs, hs2, p, x), Ages(hs, x, 1), hs2[p].tti = x, NEW bs \in SUBSET TBs, bs # {},
         \A b \in bs : hs2[p].tb[b].active /\ ~hs2[p].tb[b].ack_received
  PROVE  Held(hs2, p, x, bs)
  <1>1. ~AllEmpty(hs2[p])
    BY DEF AllEmpty, TbEmpty
  <1>2. ASSUME NEW q \in Procs \ {p}
        PROVE  AllEmpty(hs2[q]) \/ hs2[q].tti # x
    <2>1. hs2[q] = IdleProc \/ hs2[q] = hs[q]
      BY DEF Scheduled
    <2>2. CASE hs2[q] = hs[q] /\ ~AllEmpty(hs[q])
      <3>1. hs[q].tti \in Ttis /\ Young(hs[q], x, 1)
        BY DEF Process, Ages
      <3>2. PICK a \in 1 .. Timeout + 1 : TtiAdd(hs[q].tti, a) = x /\ Interval(x, hs[q].tti) = a
        BY <2>2, <3>1, YoungAge
      <3>3. Interval(x, x) = 0
        BY DEF Interval, Ttis
      <3>4. QED
        BY <2>2, <3>2, <3>3
    <2>3. QED
      BY <2>1, <2>2, IdleIsEmpty
  <1>3. QED
    BY <1>1, <1>2 DEF Held

\* The blocks of a grant: at least one, and each in use and without feedback once it is sent.
LEMMA GrantHasBlocks ==
  ASSUME selected \in Procs, NEW taken, NEW g \in GrantFor(taken), g.pid # NoProc
  PROVE  g.fresh \cup g.again # {}
  <1>1. CASE dedicated /\ Mimo
    <2>1. g \in Format2(selected, taken)
      BY <1>1 DEF GrantFor
    <2>2. \E fresh, busy : g = [pid |-> IF busy \cup fresh = {} THEN NoProc ELSE selected,
                    fresh |-> fresh, again |-> busy, data |-> fresh # {}, conres |-> FALSE]
      BY <2>1, Zenon DEF Format2
    <2>3. QED
      BY <2>2
  <1>2. CASE ~(dedicated /\ Mimo)
    <2>1. g = Format1(selected, taken)
      BY <1>2 DEF GrantFor
    <2>2. QED
      BY <2>1 DEF Format1
  <1>3. QED
    BY <1>1, <1>2

LEMMA TransmittedBlocks ==
  ASSUME InTurn, NEW h \in Process, NEW x, NEW fresh, NEW again,
         \A b \in again : ~TbEmpty(h.tb[b])
  PROVE  /\ Transmit(h, x, fresh, again).tti = x
         /\ \A b \in TBs : b \in fresh \cup again =>
              /\ Transmit(h, x, fresh, again).tb[b].active
              /\ ~Transmit(h, x, fresh, again).tb[b].ack_received
         /\ (\A b \in TBs : h.tb[b].active => h.tb[b].tx_cnt = 1) =>
              \A b \in TBs : Transmit(h, x, fresh, again).tb[b].active =>
                Transmit(h, x, fresh, again).tb[b].tx_cnt = 1
  <1> DEFINE new == Transmit(h, x, fresh, again)
  <1>1. new.tti = x
    BY DEF Transmit
  <1>2. ASSUME NEW b \in TBs
        PROVE  /\ b \in fresh \cup again => new.tb[b].active /\ ~new.tb[b].ack_received
               /\ (h.tb[b].active => h.tb[b].tx_cnt = 1) =>
                    (new.tb[b].active => new.tb[b].tx_cnt = 1)
    <2>1. h.tb[b] \in TbState /\ MaxRetx > 0
      BY Sizes DEF Process
    <2>2. CASE b \in fresh
      <3>1. new.tb[b] = NewTxTb
        BY <2>2 DEF Transmit
      <3>2. NewTxTb.active = TRUE /\ NewTxTb.ack_received = FALSE /\ NewTxTb.tx_cnt = 1
        BY <2>1 DEF NewTxTb
      <3>3. QED
        BY <3>1, <3>2
    <2>3. CASE b \notin fresh /\ b \in again
      <3>1. new.tb[b] = RetxTb(h.tb[b])
        BY <2>3 DEF Transmit
      <3>2. h.tb[b].active
        BY <2>3 DEF TbEmpty
      <3>3. QED
        BY <2>1, <3>1, <3>2 DEF RetxTb, TbState
    <2>4. CASE b \notin fresh \cup again
      <3>1. new.tb[b] = h.tb[b]
        BY <2>4 DEF Transmit
      <3>2. QED
        BY <2>4, <3>1
    <2>5. QED
      BY <2>2, <2>3, <2>4
  <1> HIDE DEF new
  <1>3. QED
    BY <1>1, <1>2 DEF new

\* What generate does to the processes, whatever DCI it finds and whatever format it uses.
LEMMA GenerateSchedules ==
  ASSUME InTurn, TypeOK, Counted(harq), Ages(harq, current, 1),
         NEW i \in 1 .. NofWorkers, Generate(i)
  PROVE  /\ \E p \in {selected, NoProc} : Scheduled(harq, harq', p, current)
         /\ Counted(harq')
         /\ \/ workers' = [workers EXCEPT ![i].pc = "ul"]
            \/ \E g : /\ workers' = [workers EXCEPT ![i].pc = "ul", ![i].grant = g]
                      /\ g \in Grants
                      /\ g.pid # NoProc => Held(harq', g.pid, current, g.fresh \cup g.again)
  <1>0. /\ harq \in [Procs -> Process] /\ current \in Ttis /\ NoProc \notin Procs
        /\ selected \in Procs \cup {NoProc}
    BY NoProcNotProc DEF TypeOK
  <1>1. ASSUME NEW hs \in [Procs -> Process], harq' = TimeOut(hs, current)
        PROVE  /\ \A q \in Procs : harq'[q] = IF Late(hs[q], current) THEN IdleProc ELSE hs[q]
               /\ Counted(hs) => Counted(harq')
    <2>1. \A q \in Procs : harq'[q] = IF Late(hs[q], current) THEN IdleProc ELSE hs[q]
      BY <1>1 DEF TimeOut, Late
    <2>2. \A q \in Procs : harq'[q] = IdleProc \/ harq'[q] = hs[q]
      BY <2>1
    <2>3. \A b \in TBs : ~IdleProc.tb[b].active
      BY DEF IdleProc, IdleTb
    <2>4. Counted(hs) => Counted(harq')
      BY <2>2, <2>3 DEF Counted
    <2>5. QED
      BY <2>1, <2>4
  <1>2. CASE harq' = TimeOut(NoDci, current) /\ workers' = [workers EXCEPT ![i].pc = "ul"]
    <2>1. NoDci \in [Procs -> Process] /\ \A q \in Procs : NoDci[q] = IF q = selected THEN IdleProc ELSE harq[q]
      BY <1>0, IdleTypes DEF NoDci
    <2>2. \A q \in Procs : harq'[q] = IF Late(NoDci[q], current) THEN IdleProc ELSE NoDci[q]
      BY <1>1, <1>2, <2>1
    <2>3. Scheduled(harq, harq', selected, current)
      BY <2>1, <2>2 DEF Scheduled
    <2>4. Counted(NoDci)
      BY <2>1 DEF Counted, IdleProc, IdleTb
    <2>5. QED
      BY <1>1, <1>2, <2>1, <2>3, <2>4
  <1>3. ASSUME selected # NoProc, NEW taken, NEW g \in GrantFor(taken),
               harq' = TimeOut(Transmitted(g, current), current),
               workers' = [workers EXCEPT ![i].pc = "ul", ![i].grant = g]
        PROVE  /\ \E p \in {selected, NoProc} : Scheduled(harq, harq', p, current)
               /\ Counted(harq')
               /\ g \in Grants
               /\ g.pid # NoProc => Held(harq', g.pid, current, g.fresh \cup g.again)
    <2>1. g \in Grants /\ g.pid \in {selected, NoProc} /\ selected \in Procs
      BY <1>0, <1>3, GrantTypes
    <2>2. CASE g.pid = NoProc
      <3>1. harq' = TimeOut(harq, current)
        BY <1>3, <2>2 DEF Transmitted
      <3>2. \A q \in Procs : harq'[q] = IF Late(harq[q], current) THEN IdleProc ELSE harq[q]
        BY <1>0, <1>1, <3>1
      <3>3. Scheduled(harq, harq', NoProc, current)
        BY <1>0, <3>2 DEF Scheduled
      <3>4. QED
        BY <1>0, <1>1, <2>1, <2>2, <3>1, <3>3
    <2>3. CASE g.pid = selected
      <3> DEFINE hs  == Transmitted(g, current)
                 new == Transmit(harq[selected], current, g.fresh, g.again)
                 bs  == g.fresh \cup g.again
      <3>1. hs = [harq EXCEPT ![selected] = new]
        BY <1>3, <2>3 DEF Transmitted
      <3>2. harq[selected] \in Process /\ new \in Process
        BY <1>0, <2>1, ProcessTypes
      <3>3. hs \in [Procs -> Process]
        BY <1>0, <3>1, <3>2
      <3>4. \A b \in g.again : ~TbEmpty(harq[selected].tb[b])
        BY <1>3, <2>1, GrantBlocks
      <3>5. bs \in SUBSET TBs /\ bs # {}
        BY <1>3, <2>1, <2>3, GrantHasBlocks DEF Grants
      <3>6. /\ new.tti = current
            /\ \A b \in bs : new.tb[b].active /\ ~new.tb[b].ack_received
            /\ \A b \in TBs : new.tb[b].active => new.tb[b].tx_cnt = 1
        <4>1. \A b \in TBs : harq[selected].tb[b].active => harq[selected].tb[b].tx_cnt = 1
          BY <2>1 DEF Counted
        <4>2. QED
          BY <3>2, <3>4, <3>5, <4>1, TransmittedBlocks
      <3> HIDE DEF hs, new, bs
      <3>7. Interval(current, current) = 0 /\ ~Late(new, current)
        <4>1. Interval(current, current) = 0
          BY <1>0 DEF Interval, Ttis
        <4>2. QED
          BY <3>6, <4>1, Sizes DEF Late
      <3>8. harq'[selected] = new /\ \A q \in Procs \ {selected} :
              harq'[q] = IF Late(harq[q], current) THEN IdleProc ELSE harq[q]
        <4>1. \A q \in Procs : harq'[q] = IF Late(hs[q], current) THEN IdleProc ELSE hs[q]
          BY <1>1, <1>3, <3>3 DEF hs
        <4>2. QED
          BY <1>0, <2>1, <3>1, <3>7, <4>1
      <3>9. Scheduled(harq, harq', selected, current)
        BY <3>6, <3>8 DEF Scheduled
      <3>10. Counted(harq')
        <4>1. Counted(hs)
          BY <1>0, <3>1, <3>6 DEF Counted
        <4>2. QED
          BY <1>1, <1>3, <3>3, <4>1 DEF hs
      <3>11. Held(harq', selected, current, bs)
        BY <1>0, <2>1, <3>5, <3>6, <3>8, <3>9, ScheduledHeld
      <3>12. QED
        BY <2>1, <2>3, <3>9, <3>10, <3>11 DEF bs
    <2>4. QED
      BY <2>1, <2>2, <2>3
  <1>4. QED
    BY <1>2, <1>3 DEF Generate

\* The next subframe: everything is one TTI older.
LEMMA OneOlder ==
  ASSUME InTurn, NEW hs \in [Procs -> Process], NEW x \in Ttis
  PROVE  /\ Ages(hs, x, 0) => Ages(hs, TtiAdd(x, 1), 1)
         /\ \A s, bs : \A g : g.tti \in Ttis /\ Flight(hs, s, g, bs, x, 0, Rtt - 1)
                         => Flight(hs, s, g, bs, TtiAdd(x, 1), 1, Rtt)
  <1>0. \A y \in Ttis : \A a \in Nat : TtiAdd(y, a) = x => TtiAdd(y, a + 1) = TtiAdd(x, 1)
    <2> SUFFICES ASSUME NEW y \in Ttis, NEW a \in Nat, TtiAdd(y, a) = x
                 PROVE  TtiAdd(y, a + 1) = TtiAdd(x, 1)
      OBVIOUS
    <2>1. \A b, c \in Nat : TtiAdd(TtiAdd(y, b), c) = TtiAdd(y, b + c)
      BY Circle
    <2>2. QED
      BY <2>1
  <1>1. ASSUME Ages(hs, x, 0)
        PROVE  Ages(hs, TtiAdd(x, 1), 1)
    <2> SUFFICES ASSUME NEW p \in Procs, ~AllEmpty(hs[p])
                 PROVE  \E a \in 1 .. Timeout + 1 : TtiAdd(hs[p].tti, a) = TtiAdd(x, 1)
      BY DEF Ages, Young
    <2>1. hs[p].tti \in Ttis /\ Timeout + 0 = Timeout /\ Timeout \in Nat
      BY Sizes DEF Process
    <2>2. PICK a \in 0 .. Timeout : TtiAdd(hs[p].tti, a) = x
      BY <1>1, <2>1 DEF Ages, Young
    <2>3. a \in Nat /\ a + 1 \in 1 .. Timeout + 1
      BY <2>1
    <2>4. QED
      BY <1>0, <2>1, <2>2, <2>3
  <1>2. ASSUME NEW s, NEW bs, NEW g, g.tti \in Ttis, Flight(hs, s, g, bs, x, 0, Rtt - 1)
        PROVE  Flight(hs, s, g, bs, TtiAdd(x, 1), 1, Rtt)
    <2>1. SlotMod - 1 + 0 = SlotMod - 1 /\ SlotMod - 1 + 1 = SlotMod /\ SlotMod \in Nat \ {0}
      BY Sizes
    <2> SUFFICES ASSUME NEW d \in 0 .. SlotMod - 1, SentAgo(hs, s, g, bs, x, d, Rtt - 1)
                 PROVE  \E e \in 1 .. SlotMod : SentAgo(hs, s, g, bs, TtiAdd(x, 1), e, Rtt)
      BY <1>2, <2>1 DEF Flight
    <2>2. d \in Nat /\ d + 1 \in 1 .. SlotMod /\ (d + 1 <= Rtt => d <= Rtt - 1)
      BY <2>1, Sizes
    <2>3. SentAgo(hs, s, g, bs, TtiAdd(x, 1), d + 1, Rtt)
      BY <1>0, <1>2, <2>2 DEF SentAgo
    <2>4. QED
      BY <2>2, <2>3
  <1>3. QED
    BY <1>1, <1>2

\* A slot is armed again after SlotMod subframes: the others are younger.
LEMMA SlotsYounger ==
  ASSUME InTurn, NEW hs, NEW x \in Ttis, NEW s, NEW g, g.tti \in Ttis, NEW bs,
         s # TtiAdd(x, HarqDelay) % SlotMod, Flight(hs, s, g, bs, x, 1, Rtt - 1)
  PROVE  Flight(hs, s, g, bs, x, 0, Rtt - 1)
  <1>1. SlotMod - 1 + 0 = SlotMod - 1 /\ SlotMod - 1 + 1 = SlotMod /\ SlotMod \in Nat \ {0}
    BY Sizes
  <1> SUFFICES ASSUME NEW d \in 1 .. SlotMod, SentAgo(hs, s, g, bs, x, d, Rtt - 1)
               PROVE  d # SlotMod
    BY <1>1 DEF Flight
  <1> SUFFICES ASSUME d = SlotMod PROVE FALSE
    OBVIOUS
  <1> DEFINE y == g.tti
  <1>2. y \in Ttis /\ TtiAdd(y, SlotMod) = x /\ TtiAdd(y, HarqDelay) % SlotMod = s
        /\ y \in Nat /\ HarqDelay \in Nat
    BY Sizes DEF SentAgo, Ttis
  <1> HIDE DEF y
  <1>3. TtiAdd(x, HarqDelay) = TtiAdd(y, SlotMod + HarqDelay)
    <2>1. \A a, b \in Nat : TtiAdd(TtiAdd(y, a), b) = TtiAdd(y, a + b)
      BY <1>2, Circle
    <2>2. QED
      BY <1>1, <1>2, <2>1
  <1>4. \A a \in Nat : TtiAdd(y, a) % SlotMod = (y + a) % SlotMod
    BY <1>2, Circle
  <1>5. ((y + HarqDelay) + SlotMod) % SlotMod = (y + HarqDelay) % SlotMod
    <2>1. y + HarqDelay \in Nat
      BY <1>2
    <2>2. QED
      BY <1>1, <2>1, ModPlus
  <1>6. (y + HarqDelay) + SlotMod = y + (SlotMod + HarqDelay) /\ SlotMod + HarqDelay \in Nat
    BY <1>1, <1>2
  <1>7. QED
    BY <1>2, <1>3, <1>4, <1>5, <1>6

LEMMA Armed ==
  ASSUME InTurn, NEW hs, NEW x \in Ttis, NEW g, NEW bs, g.tti = x,
         g.pid # NoProc => Held(hs, g.pid, x, bs)
  PROVE  Flight(hs, TtiAdd(x, HarqDelay) % SlotMod, g, bs, x, 0, Rtt - 1)
  <1>1. 0 \in 0 .. SlotMod - 1 + 0 /\ TtiAdd(x, 0) = x
    BY Sizes, Circle
  <1>2. QED
    BY <1>1 DEF Flight, SentAgo

-----------------------------------------------------------------------------
(* The invariant: what is known between two subframes, and while one is in work. *)

TxTti(t)   == TtiAdd(t, HarqDelay)
Granted(w) == w.pc \in {"ul", "send", "end"}

Waiting(next, hs, sn, pd) ==
    /\ Counted(hs) /\ Ages(hs, TxTti(next), 1)
    /\ \A s \in Slots : Flight(hs, s, sn[s], pd[s], TxTti(next), 1, Rtt)

Working(w, next, now, sel, hs, sn, pd) ==
    /\ next = TtiAdd(w.tti, 1)
    /\ w.pc \in {"select", "generate"} => now = TxTti(w.tti)
    /\ w.pc = "generate" /\ sel # NoProc => MayUse(hs, sel, TxTti(w.tti))
    /\ w.grant.pid # NoProc =>
         Granted(w) /\ Held(hs, w.grant.pid, TxTti(w.tti), w.grant.fresh \cup w.grant.again)
    /\ Counted(hs) /\ Ages(hs, TxTti(w.tti), IF Granted(w) THEN 0 ELSE 1)
    /\ \A s \in Slots : Flight(hs, s, sn[s], pd[s], TxTti(w.tti), IF w.pc = "end" THEN 0 ELSE 1,
                               IF w.pc = "decode" THEN Rtt ELSE Rtt - 1)

FlightInv ==
    IF workers = << >> THEN Waiting(nextTti, harq, sent, pending)
    ELSE Working(workers[1], nextTti, current, selected, harq, sent, pending)

\* The worker there is, before and after its step.
LEMMA TheWorker ==
  ASSUME InTurn, TypeOK, workers # << >>
  PROVE  /\ DOMAIN workers = {1} /\ workers[1] \in Worker /\ workers = << workers[1] >>
         /\ \A w : LET ws == [workers EXCEPT ![1] = w] IN ws # << >> /\ ws[1] = w
  <1>1. workers \in Seq(Worker) /\ Len(workers) <= 1
    BY Sizes DEF TypeOK
  <1>2. Len(workers) = 1 /\ DOMAIN workers = {1}
    <2>1. Len(workers) \in Nat /\ DOMAIN workers = 1 .. Len(workers)
      BY <1>1, LenProperties
    <2>2. Len(workers) # 0
      BY <1>1, EmptySeq
    <2>3. Len(workers) = 1
      BY <1>1, <2>1, <2>2
    <2>4. QED
      BY <2>1, <2>3
  <1>3. workers[1] \in Worker
    BY <1>1, <1>2, LenProperties
  <1>4. workers = << workers[1] >>
    BY <1>1, <1>2
  <1>5. \A w : LET ws == [workers EXCEPT ![1] = w] IN DOMAIN ws = {1} /\ ws[1] = w
    BY <1>2
  <1>6. DOMAIN << >> = {}
    OBVIOUS
  <1>7. QED
    BY <1>2, <1>3, <1>4, <1>5, <1>6

LEMMA Typed ==
  ASSUME InTurn, TypeOK
  PROVE  /\ harq \in [Procs -> Process] /\ nextTti \in Ttis /\ current \in Ttis
         /\ \A t \in Ttis : TxTti(t) \in Ttis
         /\ \A s \in Slots : sent[s].tti \in Ttis
  <1>1. \A t \in Ttis : t \in Nat
    BY DEF Ttis
  <1>2. \A t \in Ttis : TxTti(t) \in Ttis
    BY <1>1, Sizes, TtiAddType DEF TxTti
  <1>3. QED
    BY <1>2 DEF TypeOK

LEMMA DispatchFlies ==
  ASSUME InTurn, TypeOK, FlightInv, Dispatch
  PROVE  FlightInv'
  <1> DEFINE w == [tti |-> nextTti, grant |-> NoGrant, pc |-> "decode"]
  <1>1. workers = << >>
    <2>1. workers \in Seq(Worker) /\ Len(workers) < 1
      BY Sizes DEF TypeOK, Dispatch
    <2>2. QED
      BY <2>1, EmptySeq, LenProperties
  <1>2. workers' = << w >> /\ workers' # << >> /\ workers'[1] = w
    BY <1>1 DEF Dispatch
  <1>3. Waiting(nextTti, harq, sent, pending)
    BY <1>1 DEF FlightInv
  <1>4. /\ w.tti = nextTti /\ w.pc = "decode" /\ w.grant.pid = NoProc /\ ~Granted(w)
        /\ nextTti' = TtiAdd(w.tti, 1)
    BY DEF Dispatch, NoGrant, Granted
  <1> HIDE DEF w
  <1>5. Working(w, nextTti', current, selected, harq, sent, pending)
    BY <1>3, <1>4 DEF Waiting, Working
  <1>6. QED
    BY <1>2, <1>5 DEF FlightInv, Dispatch

LEMMA EndFlies ==
  ASSUME InTurn, TypeOK, FlightInv, End
  PROVE  FlightInv'
  <1> DEFINE w == workers[1]
  <1>1. workers # << >> /\ workers = << w >> /\ w \in Worker
    BY TheWorker DEF End
  <1>2. workers' = << >> /\ w.pc = "end"
    BY <1>1 DEF End
  <1>3. Working(w, nextTti, current, selected, harq, sent, pending)
    BY <1>1 DEF FlightInv
  <1>4. w.tti \in Ttis
    BY <1>1 DEF Worker
  <1> HIDE DEF w
  <1>5. TxTti(w.tti) \in Ttis /\ TxTti(nextTti) = TtiAdd(TxTti(w.tti), 1)
    <2>1. \A a, b \in Nat : TtiAdd(TtiAdd(w.tti, a), b) = TtiAdd(w.tti, a + b)
      BY <1>4, Circle
    <2>2. nextTti = TtiAdd(w.tti, 1) /\ HarqDelay \in Nat /\ 1 + HarqDelay = HarqDelay + 1
      BY <1>3, Sizes DEF Working
    <2>3. QED
      BY <1>4, <2>1, <2>2, Typed DEF TxTti
  <1>6. Ages(harq, TxTti(w.tti), 0) /\ Counted(harq)
    BY <1>2, <1>3 DEF Working, Granted
  <1>7. \A s \in Slots : Flight(harq, s, sent[s], pending[s], TxTti(w.tti), 0, Rtt - 1)
    BY <1>2, <1>3 DEF Working
  <1>8. Waiting(nextTti, harq, sent, pending)
    BY <1>5, <1>6, <1>7, OneOlder, Typed DEF Waiting
  <1>9. QED
    BY <1>2, <1>8 DEF FlightInv, End

\* The step of the worker, seen as a change of its record.
LEMMA WorkerStep ==
  ASSUME InTurn, TypeOK, FlightInv, NEW i \in 1 .. NofWorkers, NEW pc, At(i, pc)
  PROVE  /\ i = 1 /\ workers # << >> /\ workers[1] \in Worker /\ workers[1].pc = pc
         /\ workers[1].tti \in Ttis /\ TxTti(workers[1].tti) \in Ttis
         /\ Working(workers[1], nextTti, current, selected, harq, sent, pending)
         /\ \A w : LET ws == [workers EXCEPT ![1] = w] IN ws # << >> /\ ws[1] = w
  <1>1. i = 1 /\ workers # << >> /\ workers[1].pc = pc
    <2>1. i = 1
      BY Sizes
    <2>2. QED
      BY <2>1 DEF At
  <1>2. workers[1] \in Worker /\ \A w : LET ws == [workers EXCEPT ![1] = w] IN ws # << >> /\ ws[1] = w
    BY <1>1, TheWorker
  <1>3. workers[1].tti \in Ttis
    BY <1>2 DEF Worker
  <1>4. QED
    BY <1>1, <1>2, <1>3, Typed DEF FlightInv

LEMMA Moved ==
  ASSUME InTurn, TypeOK, FlightInv, NEW i \in 1 .. NofWorkers, NEW old, At(i, old), NEW pc, Goto(i, pc)
  PROVE  \E w : /\ workers' # << >> /\ workers'[1] = w
                /\ w.pc = pc /\ w.tti = workers[1].tti /\ w.grant = workers[1].grant
  <1> DEFINE w == [workers[1] EXCEPT !.pc = pc]
  <1>1. i = 1 /\ workers[1] \in Worker
    BY WorkerStep
  <1>2. workers' = [workers EXCEPT ![1] = w]
    BY <1>1 DEF Goto
  <1>3. w.pc = pc /\ w.tti = workers[1].tti /\ w.grant = workers[1].grant
    BY <1>1 DEF Worker
  <1> HIDE DEF w
  <1>4. \A v : LET ws == [workers EXCEPT ![1] = v] IN ws # << >> /\ ws[1] = v
    BY WorkerStep
  <1>5. workers' # << >> /\ workers'[1] = w
    BY <1>2, <1>4
  <1>6. QED
    BY <1>3, <1>5

LEMMA DecodeFlies ==
  ASSUME InTurn, TypeOK, FlightInv, NEW i \in 1 .. NofWorkers, Decode(i)
  PROVE  FlightInv'
  <1>1. At(i, "decode") /\ Goto(i, "enter")
    BY DEF Decode
  <1>2. PICK w : /\ workers' # << >> /\ workers'[1] = w
                 /\ w.pc = "enter" /\ w.tti = workers[1].tti /\ w.grant = workers[1].grant
    BY <1>1, Moved
  <1> DEFINE n == workers[1].tti
             x == TxTti(n)
  <1>3. /\ i = 1 /\ n \in Ttis /\ x \in Ttis /\ workers[1].pc = "decode"
        /\ Working(workers[1], nextTti, current, selected, harq, sent, pending)
    BY <1>1, WorkerStep
  <1>4. harq \in [Procs -> Process] /\ \A s \in Slots : sent[s].tti \in Ttis
    BY Typed
  <1>5. OnlyDue(harq, harq', n) /\ Counted(harq')
    <2>1. Counted(harq)
      BY <1>3 DEF Working
    <2>2. \/ harq' = harq
          \/ \E flagged : \E ack \in [TBs -> BOOLEAN] : harq' = AckInfo(harq, n, flagged, ack)
      BY <1>3 DEF Decode
    <2>3. CASE harq' = harq
      BY <2>1, <2>3 DEF OnlyDue
    <2>4. ASSUME NEW flagged, NEW ack \in [TBs -> BOOLEAN], harq' = AckInfo(harq, n, flagged, ack)
          PROVE  OnlyDue(harq, harq', n) /\ Counted(harq')
      BY <1>4, <2>1, <2>4, FeedbackIsDue
    <2>5. QED
      BY <2>2, <2>3, <2>4
  <1>6. \A s \in Slots : pending'[s] \in SUBSET pending[s]
    <2>1. pending \in [Slots -> SUBSET TBs]
      BY DEF TypeOK
    <2>2. pending' = pending \/ \E s : pending' = [pending EXCEPT ![s] = {}]
      BY DEF Decode
    <2>3. QED
      BY <2>1, <2>2
  <1>7. Ages(harq', x, 1)
    <2>1. Ages(harq, x, 1)
      BY <1>3 DEF Working, Granted
    <2>2. QED
      BY <1>3, <1>4, <1>5, <2>1, DueKeepsAges DEF TxTti
  <1>8. ASSUME NEW s \in Slots
        PROVE  Flight(harq', s, sent[s], pending'[s], x, 1, Rtt - 1)
    <2>1. Flight(harq, s, sent[s], pending[s], x, 1, Rtt)
      BY <1>3 DEF Working
    <2>2. QED
      BY <1>3, <1>4, <1>5, <1>6, <2>1, DueKeepsFlight DEF TxTti
  <1>9. nextTti = TtiAdd(n, 1) /\ w.grant.pid = NoProc
    BY <1>2, <1>3 DEF Working, Granted
  <1>10. ~Granted(w) /\ w.tti = n
    BY <1>2 DEF Granted
  <1> HIDE DEF n, x
  <1>11. Working(w, nextTti, current, selected, harq', sent, pending')
    BY <1>2, <1>5, <1>7, <1>8, <1>9, <1>10 DEF Working, x
  <1>12. QED
    BY <1>2, <1>11 DEF FlightInv, Decode

LEMMA EnterFlies ==
  ASSUME InTurn, TypeOK, FlightInv, NEW i \in 1 .. NofWorkers, EnterDl(i) \/ EnterUl(i)
  PROVE  FlightInv'
  <1>1. PICK old, pc : /\ At(i, old) /\ Goto(i, pc)
                       /\ \/ old = "enter" /\ pc = "select" /\ EnterDl(i)
                          \/ old = "ul" /\ pc = "send" /\ EnterUl(i)
    BY DEF EnterDl, EnterUl
  <1>2. PICK w : /\ workers' # << >> /\ workers'[1] = w
                 /\ w.pc = pc /\ w.tti = workers[1].tti /\ w.grant = workers[1].grant
    BY <1>1, Moved
  <1>3. /\ i = 1 /\ workers[1].pc = old
        /\ Working(workers[1], nextTti, current, selected, harq, sent, pending)
    BY <1>1, WorkerStep
  <1>4. (w.pc = "select" => current' = TxTti(w.tti)) /\ w.pc # "generate"
    BY <1>1, <1>2, <1>3 DEF EnterDl, TxTti
  <1>5. Granted(w) = Granted(workers[1])
    BY <1>1, <1>2, <1>3 DEF Granted
  <1>6. Working(w, nextTti, current', selected, harq, sent, pending)
    BY <1>1, <1>2, <1>3, <1>4, <1>5 DEF Working
  <1>7. UNCHANGED <<nextTti, selected, harq, sent, pending>>
    BY DEF EnterDl, EnterUl
  <1>8. QED
    BY <1>2, <1>6, <1>7 DEF FlightInv

LEMMA SelectFlies ==
  ASSUME InTurn, TypeOK, FlightInv, NEW i \in 1 .. NofWorkers, Select(i)
  PROVE  FlightInv'
  <1>1. At(i, "select") /\ Goto(i, "generate")
    BY DEF Select
  <1>2. PICK w : /\ workers' # << >> /\ workers'[1] = w
                 /\ w.pc = "generate" /\ w.tti = workers[1].tti /\ w.grant = workers[1].grant
    BY <1>1, Moved
  <1>3. /\ workers[1].pc = "select"
        /\ Working(workers[1], nextTti, current, selected, harq, sent, pending)
    BY <1>1, WorkerStep
  <1>4. current = TxTti(w.tti)
    BY <1>2, <1>3 DEF Working
  <1>5. selected' # NoProc => MayUse(harq, selected', current)
    <2>1. PICK fits, room \in BOOLEAN : IsAllocation(selected', current, fits, room)
      BY DEF Select
    <2>2. IsOldestPending(selected', current) => HasPendingRetx(harq[selected'], current)
      BY DEF IsOldestPending, PendingProcs
    <2>3. IsFirstEmpty(selected') => AllEmpty(harq[selected'])
      BY DEF IsFirstEmpty
    <2>4. QED
      BY <2>1, <2>2, <2>3 DEF IsAllocation, MayUse
  <1>6. ~Granted(w) /\ ~Granted(workers[1])
    BY <1>2, <1>3 DEF Granted
  <1>7. Working(w, nextTti, current, selected', harq, sent, pending)
    BY <1>2, <1>3, <1>4, <1>5, <1>6 DEF Working
  <1>8. UNCHANGED <<nextTti, current, harq, sent, pending>>
    BY DEF Select
  <1>9. QED
    BY <1>2, <1>7, <1>8 DEF FlightInv

LEMMA GenerateFlies ==
  ASSUME InTurn, TypeOK, FlightInv, NEW i \in 1 .. NofWorkers, Generate(i)
  PROVE  FlightInv'
  <1> DEFINE v == workers[1]
             x == TxTti(v.tti)
  <1>1. At(i, "generate")
    BY DEF Generate
  <1>2. /\ i = 1 /\ v \in Worker /\ v.pc = "generate" /\ v.tti \in Ttis /\ x \in Ttis
        /\ Working(v, nextTti, current, selected, harq, sent, pending)
        /\ \A w : LET ws == [workers EXCEPT ![1] = w] IN ws # << >> /\ ws[1] = w
    BY <1>1, WorkerStep
  <1>3. harq \in [Procs -> Process] /\ \A s \in Slots : sent[s].tti \in Ttis
    BY Typed
  <1>4. /\ current = x /\ Counted(harq) /\ Ages(harq, x, 1) /\ nextTti = TtiAdd(v.tti, 1)
        /\ v.grant.pid = NoProc /\ (selected # NoProc => MayUse(harq, selected, x))
        /\ \A s \in Slots : Flight(harq, s, sent[s], pending[s], x, 1, Rtt - 1)
    BY <1>2 DEF Working, Granted
  <1> HIDE DEF x, v
  <1>5. /\ \E p \in {selected, NoProc} : Scheduled(harq, harq', p, x)
        /\ Counted(harq')
        /\ \/ workers' = [workers EXCEPT ![i].pc = "ul"]
           \/ \E g : /\ workers' = [workers EXCEPT ![i].pc = "ul", ![i].grant = g]
                     /\ g \in Grants
                     /\ g.pid # NoProc => Held(harq', g.pid, x, g.fresh \cup g.again)
    BY <1>4, GenerateSchedules
  <1>6. PICK p \in {selected, NoProc} : Scheduled(harq, harq', p, x)
    BY <1>5
  <1>7. p \in Procs => MayUse(harq, p, x)
    BY <1>4, NoProcNotProc
  <1>8. Ages(harq', x, 0)
    BY <1>2, <1>3, <1>4, <1>6, ScheduledAges
  <1>9. ASSUME NEW s \in Slots
        PROVE  Flight(harq', s, sent[s], pending[s], x, 1, Rtt - 1)
    BY <1>2, <1>3, <1>4, <1>6, <1>7, ScheduledFlight
  <1>10. \E w : /\ workers' # << >> /\ workers'[1] = w /\ w.pc = "ul" /\ w.tti = v.tti
                /\ w.grant.pid # NoProc =>
                     Held(harq', w.grant.pid, x, w.grant.fresh \cup w.grant.again)
    <2>1. CASE workers' = [workers EXCEPT ![i].pc = "ul"]
      <3> DEFINE w == [v EXCEPT !.pc = "ul"]
      <3>1. workers' = [workers EXCEPT ![1] = w]
        BY <1>2, <2>1 DEF v
      <3>2. w.pc = "ul" /\ w.tti = v.tti /\ w.grant = v.grant
        BY <1>2 DEF Worker
      <3> HIDE DEF w
      <3>3. workers' # << >> /\ workers'[1] = w
        BY <1>2, <3>1
      <3>4. QED
        BY <1>4, <3>2, <3>3
    <2>2. ASSUME NEW g, workers' = [workers EXCEPT ![i].pc = "ul", ![i].grant = g],
                 g.pid # NoProc => Held(harq', g.pid, x, g.fresh \cup g.again)
          PROVE  \E w : /\ workers' # << >> /\ workers'[1] = w /\ w.pc = "ul" /\ w.tti = v.tti
                        /\ w.grant.pid # NoProc =>
                             Held(harq', w.grant.pid, x, w.grant.fresh \cup w.grant.again)
      <3> DEFINE w == [v EXCEPT !.pc = "ul", !.grant = g]
      <3>1. workers' = [workers EXCEPT ![1] = w]
        BY <1>2, <2>2 DEF v
      <3>2. w.pc = "ul" /\ w.tti = v.tti /\ w.grant = g
        BY <1>2 DEF Worker
      <3> HIDE DEF w
      <3>3. workers' # << >> /\ workers'[1] = w
        BY <1>2, <3>1
      <3>4. QED
        BY <2>2, <3>2, <3>3
    <2>3. QED
      BY <1>5, <2>1, <2>2
  <1>11. PICK w : /\ workers' # << >> /\ workers'[1] = w /\ w.pc = "ul" /\ w.tti = v.tti
                  /\ w.grant.pid # NoProc =>
                       Held(harq', w.grant.pid, x, w.grant.fresh \cup w.grant.again)
    BY <1>10
  <1>12. Granted(w) /\ TxTti(w.tti) = x
    BY <1>11 DEF Granted, x
  <1>13. Working(w, nextTti, current, selected, harq', sent, pending)
    BY <1>4, <1>5, <1>8, <1>9, <1>11, <1>12 DEF Working
  <1>14. UNCHANGED <<nextTti, current, selected, sent, pending>>
    BY DEF Generate
  <1>15. QED
    BY <1>11, <1>13, <1>14 DEF FlightInv

LEMMA SendFlies ==
  ASSUME InTurn, TypeOK, FlightInv, NEW i \in 1 .. NofWorkers, Send(i)
  PROVE  FlightInv'
  <1> DEFINE v == workers[1]
             x == TxTti(v.tti)
             g == v.grant
             m == TtiAdd(v.tti, Rtt) % SlotMod
  <1>1. At(i, "send") /\ Goto(i, "end")
    BY DEF Send
  <1>2. PICK w : /\ workers' # << >> /\ workers'[1] = w
                 /\ w.pc = "end" /\ w.tti = v.tti /\ w.grant = g
    BY <1>1, Moved
  <1>3. /\ i = 1 /\ v.pc = "send" /\ v.tti \in Ttis /\ x \in Ttis /\ v \in Worker
        /\ Working(v, nextTti, current, selected, harq, sent, pending)
    BY <1>1, WorkerStep
  <1>4. harq \in [Procs -> Process] /\ \A s \in Slots : sent[s].tti \in Ttis
    BY Typed
  <1>5. Granted(v) /\ Granted(w)
    BY <1>2, <1>3 DEF Granted
  <1>6. /\ Counted(harq) /\ Ages(harq, x, 0) /\ nextTti = TtiAdd(v.tti, 1)
        /\ g.pid # NoProc => Held(harq, g.pid, x, g.fresh \cup g.again)
        /\ \A s \in Slots : Flight(harq, s, sent[s], pending[s], x, 1, Rtt - 1)
    BY <1>3, <1>5 DEF Working
  <1>7. m = TtiAdd(x, HarqDelay) % SlotMod
    BY <1>3, Twice DEF TxTti
  <1>8. m \in Slots
    <2>1. TtiAdd(v.tti, Rtt) \in Nat
      <3>1. v.tti \in Nat /\ Rtt \in Nat
        BY <1>3, Sizes DEF Ttis
      <3>2. TtiAdd(v.tti, Rtt) \in Ttis
        BY <3>1, TtiAddType
      <3>3. QED
        BY <3>2, Sizes DEF Ttis
    <2>2. QED
      BY <2>1, Sizes, ModRange DEF Slots
  <1> DEFINE new == [pid |-> g.pid, tti |-> x]
             bs  == g.fresh \cup g.again
  <1>9. pending' = [pending EXCEPT ![m] = bs] /\ sent' = [sent EXCEPT ![m] = new]
    BY <1>3 DEF Send, TxTti
  <1>10. /\ pending \in [Slots -> SUBSET TBs] /\ DOMAIN sent = Slots
    BY DEF TypeOK
  <1>11. Flight(harq, m, new, bs, x, 0, Rtt - 1)
    BY <1>3, <1>6, <1>7, Armed
  <1> HIDE DEF x, g, m, new, bs, v
  <1>12. ASSUME NEW s \in Slots
         PROVE  Flight(harq, s, sent'[s], pending'[s], x, 0, Rtt - 1)
    <2>1. CASE s = m
      BY <1>9, <1>10, <1>11, <2>1
    <2>2. CASE s # m
      <3>1. sent'[s] = sent[s] /\ pending'[s] = pending[s]
        BY <1>9, <1>10, <2>2
      <3>2. Flight(harq, s, sent[s], pending[s], x, 0, Rtt - 1)
        BY <1>3, <1>4, <1>6, <1>7, <2>2, SlotsYounger
      <3>3. QED
        BY <3>1, <3>2
    <2>3. QED
      BY <2>1, <2>2
  <1>13. TxTti(w.tti) = x /\ w.grant = g
    BY <1>2 DEF x
  <1>14. Working(w, nextTti, current, selected, harq, sent', pending')
    BY <1>2, <1>5, <1>6, <1>12, <1>13 DEF Working
  <1>15. UNCHANGED <<nextTti, current, selected, harq>>
    BY DEF Send
  <1>16. QED
    BY <1>2, <1>14, <1>15 DEF FlightInv

LEMMA FlightInit ==
  ASSUME InTurn, Init
  PROVE  FlightInv
  <1>1. \A p \in Procs : harq[p] = IdleProc
    BY DEF Init
  <1>2. Counted(harq)
    BY <1>1 DEF Counted, IdleProc, IdleTb
  <1>3. Ages(harq, TxTti(nextTti), 1)
    BY <1>1, IdleIsEmpty DEF Ages, Young
  <1>4. \A s \in Slots : sent[s].pid = NoProc
    BY DEF Init, NotSent
  <1>5. QED
    BY <1>2, <1>3, <1>4 DEF Init, FlightInv, Waiting, Flight

LEMMA FlightInvariant ==
  ASSUME InTurn
  PROVE  Spec => []FlightInv
  <1>1. Init => FlightInv
    BY FlightInit
  <1>2. TypeOK /\ FlightInv /\ [Next]_vars => FlightInv'
    <2> SUFFICES ASSUME TypeOK, FlightInv, [Next]_vars PROVE FlightInv'
      OBVIOUS
    <2>1. CASE Dispatch
      BY <2>1, DispatchFlies
    <2>2. ASSUME NEW i \in 1 .. NofWorkers, Work(i)
          PROVE  FlightInv'
      BY <2>2, DecodeFlies, EnterFlies, SelectFlies, GenerateFlies, SendFlies DEF Work
    <2>3. CASE End
      BY <2>3, EndFlies
    <2>4. CASE BufferState \/ PhyConfigEnabled \/ SetDlRi \/ UNCHANGED vars
      <3>1. UNCHANGED <<workers, nextTti, current, selected, harq, sent, pending>>
        BY <2>4 DEF BufferState, PhyConfigEnabled, SetDlRi, vars
      <3>2. QED
        BY <3>1 DEF FlightInv
    <2>5. ~UeCfg
      BY DEF UeCfg, InTurn
    <2>6. QED
      BY <2>1, <2>2, <2>3, <2>4, <2>5 DEF Next
  <1>3. QED
    BY <1>1, <1>2, TypeCorrect, PTL DEF Spec

-----------------------------------------------------------------------------
(* What follows from it.                                                     *)

\* If the feedback sent HarqDelay after y comes e after t, and y is d before t's transmission.
LEMMA Awaited ==
  ASSUME InTurn, NEW y \in Ttis, NEW t \in Ttis, NEW d \in 0 .. SlotMod, NEW e \in 0 .. Rtt,
         TtiAdd(y, d) = TxTti(t), TtiAdd(y, HarqDelay) = TtiAdd(t, e)
  PROVE  d + e = Rtt
  <1>1. /\ d \in Nat /\ e \in Nat /\ HarqDelay \in Nat /\ Rtt \in 0 .. TtiMod - 1 /\ TtiMod \in Nat
        /\ d + e < TtiMod + Rtt /\ HarqDelay + e = e + HarqDelay /\ Rtt = HarqDelay + HarqDelay
    BY Sizes
  <1>2. TtiAdd(y, d + e) = TtiAdd(t, HarqDelay + e)
    <2>1. TtiAdd(TtiAdd(y, d), e) = TtiAdd(y, d + e)
      BY <1>1, Circle
    <2>2. TtiAdd(TtiAdd(t, HarqDelay), e) = TtiAdd(t, HarqDelay + e)
      BY <1>1, Circle
    <2>3. QED
      BY <2>1, <2>2 DEF TxTti
  <1>3. TtiAdd(y, Rtt) = TtiAdd(t, HarqDelay + e)
    <2>1. TtiAdd(TtiAdd(t, e), HarqDelay) = TtiAdd(t, e + HarqDelay)
      BY <1>1, Circle
    <2>2. TtiAdd(TtiAdd(y, HarqDelay), HarqDelay) = TtiAdd(y, Rtt)
      BY Twice
    <2>3. QED
      BY <1>1, <2>1, <2>2
  <1>4. \A a, b \in 0 .. TtiMod - 1 : TtiAdd(y, a) = TtiAdd(y, b) => a = b
    BY Circle
  <1>5. CASE d + e < TtiMod
    BY <1>1, <1>2, <1>3, <1>4, <1>5
  <1>6. CASE ~(d + e < TtiMod)
    <2> DEFINE a == d + e - TtiMod
    <2>1. a \in 0 .. TtiMod - 1 /\ a < Rtt /\ a \in Nat /\ TtiMod + a = d + e
      BY <1>1, <1>6
    <2> HIDE DEF a
    <2>2. TtiAdd(TtiAdd(y, TtiMod), a) = TtiAdd(y, TtiMod + a)
      BY <1>1, <2>1, Circle
    <2>3. TtiAdd(y, a) = TtiAdd(y, Rtt)
      BY <1>2, <1>3, <2>1, <2>2, Around
    <2>4. a = Rtt
      BY <1>1, <1>4, <2>1, <2>3
    <2>5. QED
      BY <1>1, <2>1, <2>4
  <1>7. QED
    BY <1>5, <1>6

\* The subframes to decode are at most a round trip ahead of the one in work.
LEMMA ToDecodeAhead ==
  ASSUME InTurn, TypeOK, FlightInv, NEW m \in ToDecode
  PROVE  /\ workers = << >> => \E e \in 0 .. Rtt - 1 : m = TtiAdd(nextTti, e)
         /\ workers # << >> => \E e \in 0 .. Rtt : /\ m = TtiAdd(workers[1].tti, e)
                                                   /\ workers[1].pc = "decode" \/ e > 0
  <1>1. CASE workers = << >>
    <2>1. m \in {TtiAdd(nextTti, d) : d \in 0 .. Rtt - 1}
      BY <1>1 DEF ToDecode
    <2>2. QED
      BY <1>1, <2>1
  <1>2. CASE workers # << >>
    <2> DEFINE t == workers[1].tti
    <2>1. DOMAIN workers = {1} /\ t \in Ttis /\ nextTti = TtiAdd(t, 1)
      <3>1. DOMAIN workers = {1} /\ workers[1] \in Worker
        BY <1>2, TheWorker
      <3>2. QED
        BY <1>2, <3>1 DEF FlightInv, Working, Worker
    <2>2. CASE workers[1].pc = "decode" /\ m = t
      <3>1. TtiAdd(t, 0) = t /\ 0 \in 0 .. Rtt
        BY <2>1, Circle, Sizes
      <3>2. QED
        BY <1>2, <2>2, <3>1
    <2>3. ASSUME NEW d \in 0 .. Rtt - 1, m = TtiAdd(nextTti, d)
          PROVE  \E e \in 0 .. Rtt : m = TtiAdd(t, e) /\ e > 0
      <3>1. d \in Nat /\ 1 + d \in 0 .. Rtt /\ 1 + d > 0
        BY Sizes
      <3>2. \A a, b \in Nat : TtiAdd(TtiAdd(t, a), b) = TtiAdd(t, a + b)
        BY <2>1, Circle
      <3>3. m = TtiAdd(t, 1 + d)
        BY <2>1, <2>3, <3>1, <3>2
      <3>4. QED
        BY <3>1, <3>3
    <2>4. \/ workers[1].pc = "decode" /\ m = t
          \/ \E d \in 0 .. Rtt - 1 : m = TtiAdd(nextTti, d)
      BY <2>1 DEF ToDecode, At
    <2>5. QED
      BY <1>2, <2>2, <2>3, <2>4
  <1>3. QED
    BY <1>1, <1>2

LEMMA KeptIf == InTurn /\ TypeOK /\ FlightInv => InFlightKept
  <1> SUFFICES ASSUME InTurn, TypeOK, FlightInv, NEW s \in Slots, sent[s].pid # NoProc,
                      TtiAdd(sent[s].tti, HarqDelay) \in ToDecode
               PROVE  /\ harq[sent[s].pid].tti = sent[s].tti
                      /\ \A q \in Procs \ {sent[s].pid} : Busy(q) => harq[q].tti # sent[s].tti
                      /\ \A b \in pending[s] : LET t == harq[sent[s].pid].tb[b] IN
                            t.tx_cnt = 1 /\ ~t.ack_received /\ (MaxRetx > 0 => t.active)
    BY DEF InFlightKept
  <1>1. sent[s].tti \in Ttis /\ pending[s] \in SUBSET TBs /\ nextTti \in Ttis
    BY Typed DEF TypeOK
  <1>2. /\ SlotMod - 1 + 0 = SlotMod - 1 /\ SlotMod - 1 + 1 = SlotMod /\ SlotMod \in Nat \ {0}
        /\ Rtt \in Nat \ {0}
    BY Sizes
  <1>3. Held(harq, sent[s].pid, sent[s].tti, pending[s]) /\ Counted(harq)
    <2>1. CASE workers = << >>
      <3>1. PICK e \in 0 .. Rtt - 1 : TtiAdd(sent[s].tti, HarqDelay) = TtiAdd(nextTti, e)
        BY <2>1, ToDecodeAhead
      <3>2. /\ Flight(harq, s, sent[s], pending[s], TxTti(nextTti), 1, Rtt) /\ Counted(harq)
        BY <2>1 DEF FlightInv, Waiting
      <3>3. PICK d \in 1 .. SlotMod : SentAgo(harq, s, sent[s], pending[s], TxTti(nextTti), d, Rtt)
        BY <1>2, <3>2 DEF Flight
      <3>4. d \in 0 .. SlotMod /\ e \in 0 .. Rtt /\ TtiAdd(sent[s].tti, d) = TxTti(nextTti)
        BY <1>2, <3>3 DEF SentAgo
      <3>5. d + e = Rtt
        BY <1>1, <3>1, <3>4, Awaited
      <3>6. QED
        BY <1>2, <3>2, <3>3, <3>5 DEF SentAgo
    <2>2. CASE workers # << >>
      <3> DEFINE w == workers[1]
                 lo == IF w.pc = "end" THEN 0 ELSE 1
                 k  == IF w.pc = "decode" THEN Rtt ELSE Rtt - 1
      <3>1. w \in Worker /\ Working(w, nextTti, current, selected, harq, sent, pending)
        BY <2>2, TheWorker DEF FlightInv
      <3>2. PICK e \in 0 .. Rtt : /\ TtiAdd(sent[s].tti, HarqDelay) = TtiAdd(w.tti, e)
                                  /\ w.pc = "decode" \/ e > 0
        BY <2>2, ToDecodeAhead
      <3>3. Flight(harq, s, sent[s], pending[s], TxTti(w.tti), lo, k) /\ Counted(harq)
        BY <3>1 DEF Working
      <3>4. w.tti \in Ttis
        BY <3>1 DEF Worker
      <3> HIDE DEF w
      <3>5. PICK d \in lo .. SlotMod - 1 + lo : SentAgo(harq, s, sent[s], pending[s], TxTti(w.tti), d, k)
        BY <3>3 DEF Flight
      <3>6. d \in 0 .. SlotMod /\ TtiAdd(sent[s].tti, d) = TxTti(w.tti)
        BY <1>2, <3>5 DEF SentAgo
      <3>7. d + e = Rtt
        BY <1>1, <3>2, <3>4, <3>6, Awaited
      <3>8. d <= k
        BY <1>2, <3>2, <3>6, <3>7
      <3>9. QED
        BY <3>3, <3>5, <3>8 DEF SentAgo
    <2>3. QED
      BY <2>1, <2>2
  <1>4. sent[s].pid \in Procs
    BY <1>3 DEF Held
  <1>5. \A q \in Procs \ {sent[s].pid} : Busy(q) => harq[q].tti # sent[s].tti
    BY <1>3 DEF Held, Busy
  <1>6. \A b \in pending[s] : LET t == harq[sent[s].pid].tb[b] IN
          t.active /\ ~t.ack_received /\ t.tx_cnt = 1
    BY <1>1, <1>3, <1>4 DEF Held, Counted
  <1>7. QED
    BY <1>3, <1>5, <1>6 DEF Held

\* While the PHY waits for the feedback of a transmission, MAC keeps its process for it.
THEOREM InFlightIsKept ==
  ASSUME InTurn
  PROVE  Spec => []InFlightKept
  BY FlightInvariant, TypeCorrect, KeptIf, PTL

LEMMA ReuseIsDue ==
  ASSUME InTurn, TypeOK, FlightInv, [Next]_vars, NEW p \in Procs, Busy(p), harq'[p].tti # harq[p].tti
  PROVE  Interval(current, harq[p].tti) \in Rtt .. TtiMod \div 2
  <1>0. harq \in [Procs -> Process]
    BY Typed
  <1>1. ASSUME NEW i \in 1 .. NofWorkers, Decode(i)
        PROVE  FALSE
    <2>1. \/ harq' = harq
          \/ \E n, flagged : \E ack \in [TBs -> BOOLEAN] : harq' = AckInfo(harq, n, flagged, ack)
      BY <1>1 DEF Decode
    <2>2. PICK n, flagged : \E ack \in [TBs -> BOOLEAN] : harq' = AckInfo(harq, n, flagged, ack)
      BY <2>1
    <2>3. QED
      BY <1>0, <2>2, FeedbackIsDue DEF OnlyDue
  <1>2. ASSUME NEW i \in 1 .. NofWorkers, Generate(i)
        PROVE  Interval(current, harq[p].tti) \in Rtt .. TtiMod \div 2
    <2> DEFINE v == workers[1]
    <2>1. /\ v.pc = "generate" /\ v.tti \in Ttis
          /\ Working(v, nextTti, current, selected, harq, sent, pending)
      <3>1. At(i, "generate")
        BY <1>2 DEF Generate
      <3>2. QED
        BY <3>1, WorkerStep
    <2>2. /\ Counted(harq) /\ Ages(harq, current, 1)
          /\ selected # NoProc => MayUse(harq, selected, current)
      BY <2>1 DEF Working, Granted
    <2>3. PICK u \in {selected, NoProc} : Scheduled(harq, harq', u, current)
      BY <1>2, <2>2, GenerateSchedules
    <2>4. harq[p].tti \in Ttis /\ ~AllEmpty(harq[p]) /\ Young(harq[p], current, 1)
      BY <1>0, <2>2 DEF Process, Busy, Ages
    <2>5. PICK a \in 1 .. Timeout + 1 : Interval(current, harq[p].tti) = a
      BY <2>4, YoungAge
    <2>6. Interval(current, harq[p].tti) >= Rtt
      <3>1. CASE u = p
        <4>1. MayUse(harq, p, current)
          BY <2>2, <2>3, <3>1, NoProcNotProc
        <4>2. QED
          BY <2>4, <4>1 DEF MayUse, HasPendingRetx
      <3>2. CASE u # p
        <4>1. Late(harq[p], current)
          BY <2>3, <3>2 DEF Scheduled
        <4>2. QED
          BY <2>5, <4>1, Sizes DEF Late
      <3>3. QED
        BY <3>1, <3>2
    <2>7. QED
      BY <2>5, <2>6, Sizes
  <1>3. ~UeCfg
    BY DEF UeCfg, InTurn
  <1>4. QED
    BY <1>1, <1>2, <1>3 DEF Next, Work, Dispatch, EnterDl, Select, EnterUl, Send, End,
       BufferState, PhyConfigEnabled, SetDlRi, vars

\* A process in use is transmitted on, or given up, only when its feedback is due.
THEOREM ReusedWhenDue ==
  ASSUME InTurn
  PROVE  Spec => NoEarlyReuse
  <1>1. TypeOK /\ FlightInv /\ [Next]_vars =>
          [\A p \in Procs : Busy(p) /\ harq'[p].tti # harq[p].tti =>
             Interval(current, harq[p].tti) \in Rtt .. TtiMod \div 2]_vars
    BY ReuseIsDue
  <1>2. QED
    BY <1>1, FlightInvariant, TypeCorrect, PTL DEF Spec, NoEarlyReuse
=============================================================================
