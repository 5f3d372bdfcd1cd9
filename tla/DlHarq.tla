------------------------------- MODULE DlHarq -------------------------------
(***************************************************************************)
(* Downlink HARQ of one user, from the PHY workers that run the scheduler  *)
(* once per subframe down to the HARQ processes of class sched_ue.         *)
(*                                                                         *)
(* The subframe received in TTI n is handled by one PHY worker:            *)
(*   "decode"    gives the scheduler the HARQ feedback received in n       *)
(*               (phch_worker::decode_pusch, decode_pucch);                *)
(*   "enter"     enters sched::dl_sched, which stores the TTI to schedule, *)
(*               n + HarqDelay, in the shared current_tti before any lock; *)
(*   "select"    locks sched_mutex and runs dl_metric_rr::new_tti, which   *)
(*               chooses the process the user may use;                     *)
(*   "generate"  runs the loop body of sched::dl_sched_data (DCI, grant,   *)
(*               time-out of old processes) and unlocks sched_mutex;       *)
(*   "ul"        enters sched::ul_sched, which stores n + 2 * HarqDelay in *)
(*               the same current_tti;                                     *)
(*   "send"      arms the feedback of the new grant in phch_common;        *)
(*   "end"       waits for its turn to transmit (the semaphore chain of    *)
(*               phch_common::worker_end, so workers end in TTI order).    *)
(* Up to NofWorkers workers run at once; nothing orders their steps but    *)
(* sched_mutex and worker_end.                                             *)
(*                                                                         *)
(* Abstracted: resource blocks and CCEs (whether an allocation fits and    *)
(* whether a DCI location is free are free choices), transport block sizes *)
(* (positive; a free part of the queued data is taken), the user's queue   *)
(* (a number of data units), MCS, TPC, precoding and the NDI bit. Every    *)
(* subframe is a regular one (no MBSFN).                                   *)
(***************************************************************************)
EXTENDS Integers, Sequences, FiniteSets

CONSTANTS
    TtiMod,       \* TTIs per hyperframe, 10240 in the code
    HarqDelay,    \* HARQ_DELAY_MS of the srslte library, 4
    SlotMod,      \* TTIMOD_SZ: slots of pending_ack, 10
    Timeout,      \* age above which a process is reset, 50
    NofProc,      \* SCHED_MAX_HARQ_PROC, 8
    TBs,          \* transport blocks, {0, 1} = 0..SRSLTE_MAX_TB-1
    MaxRetx,      \* ue_cfg_t::maxharq_tx
    NofWorkers,   \* expert.nof_phy_threads
    MaxBuf,       \* bound on the queued data units
    MayReconf,    \* whether RRC may reconfigure the user while it is served
    Mimo          \* whether the user has transmission mode 3 or 4

ASSUME ConstantsOK ==
    /\ TtiMod \in Nat \ {0}  /\ HarqDelay \in Nat \ {0}
    /\ SlotMod \in Nat \ {0} /\ Timeout \in Nat
    /\ NofProc \in Nat \ {0} /\ NofWorkers \in Nat \ {0}
    /\ MaxRetx \in Nat       /\ MaxBuf \in Nat
    /\ TBs \in SUBSET {0, 1} /\ 0 \in TBs
    /\ MayReconf \in BOOLEAN /\ Mimo \in BOOLEAN
    /\ Mimo => 1 \in TBs

VARIABLES
    harq,       \* sched_ue::dl_harq
    buf,        \* lch[].buf_tx + lch[].buf_retx of the bearers
    dedicated,  \* sched_ue::phy_config_dedicated_enabled
    ri,         \* sched_ue::dl_ri, the rank indicator last reported
    selected,   \* sched_ue::dl_next_alloc, NoProc for NULL
    pending,    \* common_ue::pending_ack, one set of TBs per slot
    sent,       \* history: the last grant sent whose feedback uses each slot
    current,    \* sched::current_tti
    workers,    \* the subframes being processed, oldest first
    nextTti     \* txrx::tti + 1

vars == <<harq, buf, dedicated, ri, selected, pending, sent, current, workers, nextTti>>

Ttis   == 0 .. TtiMod - 1
Procs  == 0 .. NofProc - 1
NoProc == NofProc
Rtt    == 2 * HarqDelay

\* Variants named ...Bug are the definitions that follow them with a plausible mistake; the
\* runs are repeated with them to show that each property can fail.
TtiAddBug(t, d) == t + d
TtiAdd(t, d) == (t + d) % TtiMod

IntervalBug(t1, t2) == IF t2 >= t1 THEN t2 - t1 ELSE TtiMod - t1 + t2

\* srslte_tti_interval of the library.
Interval(t1, t2) == IF t1 >= t2 THEN t1 - t2 ELSE TtiMod - t2 + t1

-----------------------------------------------------------------------------
(* class harq_proc and class dl_harq_proc                                  *)

TbState == [active : BOOLEAN, ack : BOOLEAN, ack_received : BOOLEAN,
            n_rtx : 0 .. MaxRetx + 1, tx_cnt : 0 .. 1]
Process == [tti : Ttis, tb : [TBs -> TbState]]

\* harq_proc::reset.
IdleTb   == [active |-> FALSE, ack |-> TRUE, ack_received |-> FALSE,
             n_rtx |-> 0, tx_cnt |-> 0]
IdleProc == [tti |-> 0, tb |-> [b \in TBs |-> IdleTb]]

TbEmpty(s) == ~s.active \/ (s.ack /\ s.ack_received)

AllEmpty(h) == \A b \in TBs : TbEmpty(h.tb[b])

HasPendingRetxBug(h, t) == \E b \in TBs : ~h.tb[b].ack /\ h.tb[b].n_rtx < MaxRetx

PendingRetxBoundBug(h, t) ==
    Interval(t, h.tti) >= Rtt /\ \E b \in TBs : ~h.tb[b].ack /\ h.tb[b].n_rtx <= MaxRetx

HasPendingRetx(h, t) ==
    /\ Interval(t, h.tti) >= Rtt
    /\ \E b \in TBs : ~h.tb[b].ack /\ h.tb[b].n_rtx < MaxRetx

SetAckTbBug(s, ack) ==
    [s EXCEPT !.ack = ack, !.ack_received = TRUE, !.active = s.active /\ s.n_rtx < MaxRetx]

SetAckTb(s, ack) ==
    [s EXCEPT !.ack = ack, !.ack_received = TRUE,
              !.active = s.active /\ s.n_rtx + 1 < MaxRetx]

\* new_tx_common: a reset, then one transmission.
NewTxTb == [active |-> MaxRetx > 0, ack |-> TRUE, ack_received |-> FALSE,
            n_rtx |-> 0, tx_cnt |-> 1]

RetxTbBug(s) == [s EXCEPT !.ack_received = FALSE]

\* new_retx. The count is compared with MaxRetx only: larger counts are not told apart.
RetxTb(s) == [s EXCEPT !.ack_received = FALSE,
                       !.n_rtx = IF s.n_rtx > MaxRetx THEN s.n_rtx ELSE s.n_rtx + 1]

\* Transmits, in TTI t, the blocks "fresh" as new data and "again" as retransmissions.
Transmit(h, t, fresh, again) ==
    [tti |-> t, tb |-> [b \in TBs |-> IF b \in fresh THEN NewTxTb
                                      ELSE IF b \in again THEN RetxTb(h.tb[b])
                                      ELSE h.tb[b]]]

-----------------------------------------------------------------------------
(* class sched_ue and dl_metric_rr                                         *)

PendingProcs(t) == {p \in Procs : HasPendingRetx(harq[p], t)}

\* get_pending_dl_harq: the first process with the largest age.
IsOldestPending(p, t) ==
    LET Age(q) == Interval(t, harq[q].tti)
    IN  /\ p \in PendingProcs(t)
        /\ \A q \in PendingProcs(t) : \/ Age(q) < Age(p)
                                      \/ Age(q) = Age(p) /\ q >= p

\* get_empty_dl_harq: the first process that is empty on every TB.
IsFirstEmpty(p) ==
    /\ p \in Procs /\ AllEmpty(harq[p])
    /\ \A q \in Procs : AllEmpty(harq[q]) => q >= p

\* apply_user_allocation: "fits" says whether the resource blocks of the
\* retransmission were found, "room" whether any was found for new data.
IsAllocation(p, t, fits, room) ==
    \/ fits /\ IsOldestPending(p, t)
    \/ /\ ~(fits /\ PendingProcs(t) # {})
       /\ \/ IsFirstEmpty(p) /\ buf > 0 /\ room
          \/ /\ p = NoProc
             /\ \/ \A q \in Procs : ~AllEmpty(harq[q])
                \/ ~(buf > 0 /\ room)

\* reset_timeout_dl_harq
TimeOut(procs, t) ==
    [p \in Procs |-> IF ~AllEmpty(procs[p]) /\ Interval(t, procs[p].tti) > Timeout
                     THEN IdleProc ELSE procs[p]]

IsFirstDlTx == \A p \in Procs : harq[p].tb[0].tx_cnt = 0

Grants == [pid : Procs \cup {NoProc}, fresh : SUBSET TBs, again : SUBSET TBs,
           data : BOOLEAN, conres : BOOLEAN]
NoGrant == [pid |-> NoProc, fresh |-> {}, again |-> {}, data |-> FALSE, conres |-> FALSE]

Format1Bug(p, taken) ==
    IF harq[p].tb[0].ack
    THEN [pid |-> p, fresh |-> {0}, again |-> {}, data |-> taken > 0, conres |-> IsFirstDlTx]
    ELSE [pid |-> p, fresh |-> {}, again |-> {0}, data |-> FALSE, conres |-> FALSE]

\* generate_format1: TB 0 only. "taken" data units are moved into the PDU.
Format1(p, taken) ==
    IF TbEmpty(harq[p].tb[0])
    THEN [pid |-> p, fresh |-> {0}, again |-> {}, data |-> taken > 0, conres |-> IsFirstDlTx]
    ELSE [pid |-> p, fresh |-> {}, again |-> {0}, data |-> FALSE, conres |-> FALSE]

Format2Bug(p, taken) ==
    LET busy  == {b \in TBs : ~TbEmpty(harq[p].tb[b])}
        fresh == IF taken > 0 THEN TBs ELSE {}
    IN  {[pid |-> IF busy \cup fresh = {} THEN NoProc ELSE p, fresh |-> fresh,
          again |-> busy \ fresh, data |-> fresh # {}, conres |-> FALSE]}

\* generate_format2a (and format2). Two fresh blocks share the queue: block 1 is not
\* sent when block 0 takes all of it.
Format2(p, taken) ==
    LET busy   == {b \in TBs : ~TbEmpty(harq[p].tb[b])}
        noRetx == ri = 0 \/ busy = {}
        tbEn   == IF ri = 0 THEN (IF 1 \in busy THEN {1} ELSE {0})
                  ELSE IF busy = {} THEN TBs ELSE busy
        usable == IF noRetx THEN tbEn \ busy ELSE {}
        Sends(fresh) ==
            \/ fresh = {} /\ (usable = {} \/ taken = 0)
            \/ taken > 0 /\ Cardinality(usable) = 1 /\ fresh = usable
            \/ taken = buf /\ taken > 0 /\ usable = {0, 1} /\ fresh = {0}
            \/ fresh = {0, 1} /\ taken > 1
    IN  {[pid |-> IF busy \cup fresh = {} THEN NoProc ELSE p,
          fresh |-> fresh, again |-> busy, data |-> fresh # {}, conres |-> FALSE] :
            fresh \in {f \in SUBSET usable : Sends(f)}}

-----------------------------------------------------------------------------
(* The workers                                                             *)

Worker == [tti : Ttis, grant : Grants,
           pc : {"decode", "enter", "select", "generate", "ul", "send", "end"}]

Slots   == 0 .. SlotMod - 1
NotSent == [pid |-> NoProc, tti |-> 0]
At(i, pc) == i \in DOMAIN workers /\ workers[i].pc = pc
Goto(i, pc) == workers' = [workers EXCEPT ![i].pc = pc]

Init ==
    /\ harq = [p \in Procs |-> IdleProc]
    /\ buf = 0
    /\ dedicated = FALSE
    /\ ri = 0
    /\ selected = NoProc
    /\ pending = [s \in Slots |-> {}]
    /\ sent = [s \in Slots |-> NotSent]
    /\ current = 0
    /\ workers = << >>
    /\ nextTti \in Ttis

\* txrx::run_thread: an idle worker is given the next received subframe.
Dispatch ==
    /\ Len(workers) < NofWorkers
    /\ workers' = Append(workers, [tti |-> nextTti, grant |-> NoGrant, pc |-> "decode"])
    /\ nextTti' = TtiAdd(nextTti, 1)
    /\ UNCHANGED <<harq, buf, dedicated, ri, selected, pending, sent, current>>

\* set_ack_info: the feedback goes to the first process that transmitted in n - HarqDelay.
AckTarget(procs, n) ==
    IF \E p \in Procs : TtiAdd(procs[p].tti, HarqDelay) = n
    THEN CHOOSE p \in Procs : /\ TtiAdd(procs[p].tti, HarqDelay) = n
                              /\ \A q \in Procs : TtiAdd(procs[q].tti, HarqDelay) = n => p <= q
    ELSE NoProc

AckInfo(procs, n, flagged, ack) ==
    [p \in Procs |->
        IF p # AckTarget(procs, n) THEN procs[p]
        ELSE [tti |-> procs[p].tti,
              tb  |-> [b \in TBs |-> IF b \in flagged THEN SetAckTb(procs[p].tb[b], ack[b])
                                                      ELSE procs[p].tb[b]]]]

\* Feedback of the subframe. PUCCH decoding stops at the first user that fails: the user
\* may then not be reached (its flags stay) or be the one that fails (its flags are lost).
Decode(i) ==
    /\ At(i, "decode")
    /\ LET n == workers[i].tti
           s == n % SlotMod
       IN  \/ UNCHANGED <<harq, pending>>
           \/ /\ pending' = [pending EXCEPT ![s] = {}]
              /\ \/ UNCHANGED harq
                 \/ \E ack \in [TBs -> BOOLEAN] : harq' = AckInfo(harq, n, pending[s], ack)
    /\ Goto(i, "enter")
    /\ UNCHANGED <<buf, dedicated, ri, selected, sent, current, nextTti>>

\* dl_sched up to sched_mutex.
EnterDl(i) ==
    /\ At(i, "enter")
    /\ current' = TtiAdd(workers[i].tti, HarqDelay)
    /\ Goto(i, "select")
    /\ UNCHANGED <<harq, buf, dedicated, ri, selected, pending, sent, nextTti>>

\* dl_metric_rr::new_tti, under sched_mutex.
Select(i) ==
    /\ At(i, "select")
    /\ \A j \in DOMAIN workers : workers[j].pc # "generate"
    /\ \E p \in Procs \cup {NoProc}, fits, room \in BOOLEAN :
         /\ IsAllocation(p, current, fits, room)
         /\ selected' = p
    /\ Goto(i, "generate")
    /\ UNCHANGED <<harq, buf, dedicated, ri, pending, sent, current, nextTti>>

\* The loop body of dl_sched_data, under sched_mutex.
NoDci ==
    IF selected = NoProc THEN harq ELSE [harq EXCEPT ![selected] = IdleProc]

Transmitted(g, t) ==
    IF g.pid = NoProc THEN harq
    ELSE [harq EXCEPT ![g.pid] = Transmit(harq[g.pid], t, g.fresh, g.again)]

\* The grants of get_dci_format's format for the selected process.
GrantFor(taken) ==
    IF dedicated /\ Mimo THEN Format2(selected, taken)
                         ELSE {Format1(selected, taken)}

Generate(i) ==
    /\ At(i, "generate")
    /\ \/ /\ harq' = TimeOut(NoDci, current)
          /\ UNCHANGED buf
          /\ workers' = [workers EXCEPT ![i].pc = "ul"]
       \/ /\ selected # NoProc
          /\ \E taken \in (IF buf = 0 THEN 0 ELSE 1) .. buf : \E g \in GrantFor(taken) :
               /\ harq' = TimeOut(Transmitted(g, current), current)
               /\ buf' = IF g.data THEN buf - taken ELSE buf
               /\ workers' = [workers EXCEPT ![i].pc = "ul", ![i].grant = g]
    /\ UNCHANGED <<dedicated, ri, selected, pending, sent, current, nextTti>>

\* ul_sched up to sched_mutex (what it schedules is the uplink's).
EnterUl(i) ==
    /\ At(i, "ul")
    /\ current' = TtiAdd(workers[i].tti, Rtt)
    /\ Goto(i, "send")
    /\ UNCHANGED <<harq, buf, dedicated, ri, selected, pending, sent, nextTti>>

\* The end of work_imp: the feedback of what is sent in tti + HarqDelay is expected in tti + Rtt.
Send(i) ==
    /\ At(i, "send")
    /\ LET g == workers[i].grant
           s == TtiAdd(workers[i].tti, Rtt) % SlotMod
       IN  /\ pending' = [pending EXCEPT ![s] = g.fresh \cup g.again]
           /\ sent' = [sent EXCEPT ![s] = [pid |-> g.pid, tti |-> TtiAdd(workers[i].tti, HarqDelay)]]
    /\ Goto(i, "end")
    /\ UNCHANGED <<harq, buf, dedicated, ri, selected, current, nextTti>>

EndBug ==
    \E i \in DOMAIN workers :
      /\ workers[i].pc = "end"
      /\ workers' = SubSeq(workers, 1, i - 1) \o SubSeq(workers, i + 1, Len(workers))
      /\ UNCHANGED <<harq, buf, dedicated, ri, selected, pending, sent, current, nextTti>>

\* worker_end: the oldest subframe is transmitted and its worker is idle again.
End ==
    /\ workers # << >> /\ Head(workers).pc = "end"
    /\ workers' = Tail(workers)
    /\ UNCHANGED <<harq, buf, dedicated, ri, selected, pending, sent, current, nextTti>>

-----------------------------------------------------------------------------
(* The upper layers, from their own threads                                *)

\* RLC reports its queue (dl_buffer_state, an absolute value).
BufferState ==
    /\ buf' \in 0 .. MaxBuf
    /\ UNCHANGED <<harq, dedicated, ri, selected, pending, sent, current, workers, nextTti>>

\* RRC: FALSE when it sends a connection setup or reconfiguration, TRUE when it is complete.
PhyConfigEnabled ==
    /\ Mimo
    /\ dedicated' \in BOOLEAN
    /\ UNCHANGED <<harq, buf, ri, selected, pending, sent, current, workers, nextTti>>

\* The UE reports another rank.
SetDlRi ==
    /\ Mimo
    /\ ri' = 1 - ri
    /\ UNCHANGED <<harq, buf, dedicated, selected, pending, sent, current, workers, nextTti>>

\* RRC configures the user anew: set_cfg resets every process and every bearer.
UeCfg ==
    /\ MayReconf
    /\ harq' = [p \in Procs |-> IdleProc]
    /\ buf' = 0
    /\ dedicated' = FALSE
    /\ ri' = 0
    /\ UNCHANGED <<selected, pending, sent, current, workers, nextTti>>

Work(i) == \/ Decode(i) \/ EnterDl(i) \/ Select(i) \/ Generate(i)
           \/ EnterUl(i) \/ Send(i)

Next == \/ Dispatch
        \/ \E i \in 1 .. NofWorkers : Work(i)
        \/ End
        \/ BufferState
        \/ PhyConfigEnabled
        \/ SetDlRi
        \/ UeCfg

\* Every PHY thread runs and the radio delivers subframes; RLC and RRC owe nothing.
Fairness == /\ WF_vars(Dispatch) /\ WF_vars(End)
            /\ \A i \in 1 .. NofWorkers : WF_vars(Work(i))

Spec == Init /\ [][Next]_vars /\ Fairness

-----------------------------------------------------------------------------
(* Properties                                                              *)

\* Every variable has its type; a worker holds a complete grant record.
TypeOK ==
    /\ harq \in [Procs -> Process]
    /\ buf \in Nat
    /\ dedicated \in BOOLEAN
    /\ ri \in {0, 1}
    /\ selected \in Procs \cup {NoProc}
    /\ pending \in [Slots -> SUBSET TBs]
    /\ sent \in [Slots -> [pid : Procs \cup {NoProc}, tti : Ttis]]
    /\ current \in Ttis
    /\ workers \in Seq(Worker)
    /\ Len(workers) <= NofWorkers
    /\ nextTti \in Ttis

Busy(p) == ~AllEmpty(harq[p])

\* A block is retransmitted at most MaxRetx times: has_pending_retx_common checks the
\* count when the process is selected, new_retx increments it two steps later.
RetxBound == \A p \in Procs, b \in TBs : harq[p].tb[b].n_rtx <= MaxRetx

\* A block known to be lost has a transmission left: set_ack gives it up otherwise. A
\* block without would wait for the time-out with its process blocked.
NackedHasRetxLeft ==
    \A p \in Procs, b \in TBs : LET s == harq[p].tb[b] IN
        s.active /\ s.ack_received /\ ~s.ack => s.n_rtx + 1 < MaxRetx

\* "Rest of operations are thread-safe" (scheduler.h:42): a grant on its way to the radio is
\* recorded under the TTI it is sent in, by which set_ack_info will find the process. dl_sched
\* takes the TTI from current_tti, which the workers share and store before sched_mutex.
GrantRecorded ==
    \A i \in DOMAIN workers : LET w == workers[i] IN
        w.grant.pid # NoProc => harq[w.grant.pid].tti = TtiAdd(w.tti, HarqDelay)

\* Subframes less than NofWorkers apart.
Near(n, t) == \E d \in 0 .. NofWorkers - 1 : n = TtiAdd(t, d) \/ t = TtiAdd(n, d)

\* The TTIs that the workers near the one of subframe t store in current_tti.
Storable(t) == {TtiAdd(n, d) : n \in {m \in Ttis : Near(m, t)}, d \in {HarqDelay, Rtt}}

\* How far the shared current_tti leads a grant astray: it is recorded under a TTI that one of
\* the subframes in work at the same time stores, however the workers interleave, since
\* a worker ends only after those of earlier subframes (worker_end's chain).
GrantTtiNear ==
    [][\A i \in 1 .. NofWorkers : Generate(i) =>
         LET g == workers'[i].grant
         IN  g.pid # NoProc => harq'[g.pid].tti \in Storable(workers[i].tti)]_vars

\* The subframes whose feedback is still to be decoded.
ToDecode == {workers[i].tti : i \in {j \in DOMAIN workers : At(j, "decode")}}
            \cup {TtiAdd(nextTti, d) : d \in 0 .. Rtt - 1}

\* While the feedback of a transmission is awaited (the flag armed in phch_common), its
\* process is neither reset nor used again and still waits for that feedback: the MAC
\* and the PHY agree on what is in flight. No other process in
\* use has its TTI, by which set_ack_info finds it (idle ones may: they keep their last TTI
\* or have 0).
InFlightKept ==
    \A s \in Slots : LET g == sent[s] IN
        g.pid # NoProc /\ TtiAdd(g.tti, HarqDelay) \in ToDecode =>
            /\ harq[g.pid].tti = g.tti
            /\ \A q \in Procs \ {g.pid} : Busy(q) => harq[q].tti # g.tti
            /\ \A b \in pending[s] : LET t == harq[g.pid].tb[b] IN
                  t.tx_cnt = 1 /\ ~t.ack_received /\ (MaxRetx > 0 => t.active)

\* A process in use is transmitted on again, or given up, only when the feedback of its
\* last transmission is due.
NoEarlyReuse ==
    [][\A p \in Procs :
         Busy(p) /\ harq'[p].tti # harq[p].tti =>
            Interval(current, harq[p].tti) \in Rtt .. TtiMod \div 2]_vars

\* "Reset blocked PIDs" (scheduler.cc:745): whatever feedback is lost and however often
\* the allocation fails, a process in use becomes free again.
BlockedPidFreed == \A p \in Procs : Busy(p) ~> ~Busy(p)

-----------------------------------------------------------------------------
(* What the processes promise: stop-and-wait HARQ                          *)

\* A block as the abstract specification sees it.
AbsTb(s) == [st |-> IF TbEmpty(s) THEN "idle" ELSE IF s.ack_received THEN "nacked" ELSE "sent",
             n  |-> s.n_rtx]

AbsProc(h) == [b \in TBs |-> AbsTb(h.tb[b])]
tbBar == [p \in Procs |-> AbsProc(harq[p])]

Abs == INSTANCE HarqAbs WITH tb <- tbBar

\* Every step of the program is a step of stop-and-wait HARQ.
StopAndWait == Abs!Spec
=============================================================================
