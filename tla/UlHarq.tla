------------------------------- MODULE UlHarq -------------------------------
(***************************************************************************)
(* Uplink HARQ of one user: synchronous, one process per TTI modulo Rtt.   *)
(* The worker of the subframe received in TTI n                            *)
(*   "decode"  decodes the PUSCH granted for n and gives the scheduler its *)
(*             CRC, or looks for a scheduling request on the PUCCH;        *)
(*   "dl"      runs sched::dl_sched (here: it stores n + HarqDelay in the  *)
(*             shared current_tti, and may announce message 3 with a RAR); *)
(*   "enter"   enters sched::ul_sched, which stores n + Rtt in current_tti *)
(*             before it locks sched_mutex;                                *)
(*   "phich"   collects the PHICH feedback of the process of current_tti;  *)
(*   "grant"   runs the metric, the loop over the users and the update of  *)
(*             the pending data, and unlocks sched_mutex;                  *)
(*   "end"     waits for its turn to transmit.                             *)
(*                                                                         *)
(* Abstracted: resource blocks (whether the mask of a retransmission or    *)
(* new blocks are found, whether a DCI location is free), MCS, redundancy  *)
(* version, NDI, TPC. Transport blocks have a positive number of data      *)
(* units. DCIs can be decoded: decode_pusch never fails on a grant.        *)
(***************************************************************************)
EXTENDS Integers, Sequences, Functions, FiniteSets

CONSTANTS
    TtiMod,      \* TTIs per hyperframe, 10240 in the code
    HarqDelay,   \* HARQ_DELAY_MS of the srslte library, 4
    Msg3Delay,   \* MSG3_DELAY_MS of the srslte library, 2
    MaxRetx,     \* ue_cfg_t::maxharq_tx
    MaxMsg3,     \* cell_cfg_t::maxharq_msg3tx
    NofWorkers,  \* expert.nof_phy_threads
    MaxBsr,      \* bound on the data units the UE reports
    MaxTbs,      \* bound on the data units of a transport block
    MayReconf    \* whether RRC may reconfigure the user while it is served

Rtt     == 2 * HarqDelay
SlotMod == Rtt + Msg3Delay  \* TTIMOD_SZ and the size of pending_msg3, 10

ASSUME UlConstantsOK ==
    /\ HarqDelay \in Nat \ {0} /\ Msg3Delay \in Nat \ {0}
    /\ TtiMod \in Nat \ {0} /\ TtiMod % Rtt = 0 /\ TtiMod % SlotMod = 0
    /\ MaxRetx \in Nat \ {0} /\ MaxMsg3 \in Nat \ {0}
    /\ NofWorkers \in 1 .. Rtt
    /\ MaxBsr \in Nat /\ MaxTbs \in Nat \ {0}
    /\ MayReconf \in BOOLEAN

VARIABLES
    harq,      \* sched_ue::ul_harq
    bsr,       \* sum of lch[].bsr over the uplink bearers
    sr,        \* sched_ue::sr
    msg3,      \* sched::pending_msg3 of this user: .enabled of each slot
    attached,  \* whether message 3 has been granted: nothing is known of the user before
    grants,    \* phch_common::ul_grants of this user
    current,   \* sched::current_tti
    workers,   \* the subframes being processed, oldest first
    nextTti    \* txrx::tti + 1

vars == <<harq, bsr, sr, msg3, attached, grants, current, workers, nextTti>>
user == <<bsr, sr, attached>>

Ttis  == 0 .. TtiMod - 1
Pids  == 0 .. Rtt - 1
Slots == 0 .. SlotMod - 1
Most  == IF MaxRetx > MaxMsg3 THEN MaxRetx ELSE MaxMsg3

TtiAdd(t, d) == (t + d) % TtiMod

-----------------------------------------------------------------------------
(* class ul_harq_proc                                                      *)

Process == [active : BOOLEAN, ack : BOOLEAN, ack_received : BOOLEAN, n_rtx : 0 .. Most + 1,
            max_retx : {MaxRetx, MaxMsg3}, need_ack : BOOLEAN, pending_data : 0 .. MaxTbs]

\* harq_proc::reset leaves need_ack, max_retx and pending_data.
ResetProc(h) == [h EXCEPT !.active = FALSE, !.ack = TRUE, !.ack_received = FALSE, !.n_rtx = 0]

\* A process as sched_ue::sched_ue, reset and harq_proc::config make it.
FreshProc == [active |-> FALSE, ack |-> TRUE, ack_received |-> FALSE, n_rtx |-> 0,
              max_retx |-> MaxRetx, need_ack |-> FALSE, pending_data |-> 0]

Empty(h) == ~h.active \/ (h.ack /\ h.ack_received)

\* Variants named ...Bug are the definitions that follow them with a plausible mistake.
SetAckBug(h, ack) ==
    [h EXCEPT !.ack = ack, !.ack_received = TRUE, !.active = h.active /\ h.n_rtx < h.max_retx]

SetAck(h, ack) ==
    [h EXCEPT !.ack = ack, !.ack_received = TRUE,
              !.active = h.active /\ h.n_rtx + 1 < h.max_retx]

\* new_tx: a reset, then one transmission.
NewTx(h, tbs) ==
    [ResetProc(h) EXCEPT !.active = h.max_retx > 0, !.need_ack = TRUE, !.pending_data = tbs]

\* Counts above Most are not told apart: they are compared with max_retx only.
NewRetx(h) == [h EXCEPT !.ack_received = FALSE,
                        !.n_rtx = IF h.n_rtx > Most THEN h.n_rtx ELSE h.n_rtx + 1]

HasPendingAckBug(h) ==
    [h EXCEPT !.active = h.active /\ ~h.ack, !.need_ack = FALSE]

\* has_pending_ack returns need_ack and changes the process.
HasPendingAck(h) ==
    LET active == h.active /\ ~h.ack
    IN  [h EXCEPT !.active = active, !.need_ack = h.need_ack /\ active]

ResetPendingDataBug(h) == h
ResetPendingData(h) == IF h.active THEN h ELSE [h EXCEPT !.pending_data = 0]

-----------------------------------------------------------------------------
(* The workers                                                             *)

Kinds   == {"none", "new", "retx", "msg3"}
Heard   == {"none", "ok", "ko"}
Answers == {"none", "ack", "nack"}
Worker  == [tti : Ttis, pc : {"decode", "dl", "enter", "phich", "grant", "end"},
            heard : Heard, phich : Answers, granted : Kinds]

At(i, pc) == i \in DOMAIN workers /\ workers[i].pc = pc
Goto(i, pc) == workers' = [workers EXCEPT ![i].pc = pc]

Init ==
    /\ harq = [p \in Pids |-> FreshProc]
    /\ bsr = 0 /\ sr = FALSE
    /\ msg3 = [s \in Slots |-> FALSE]
    /\ attached = FALSE
    /\ grants = [s \in Slots |-> "none"]
    /\ current = 0
    /\ workers = << >>
    /\ nextTti \in Ttis

\* txrx::run_thread: an idle worker is given the next received subframe.
Dispatch ==
    /\ Len(workers) < NofWorkers
    /\ workers' = Append(workers, [tti |-> nextTti, pc |-> "decode", heard |-> "none",
                                   phich |-> "none", granted |-> "none"])
    /\ nextTti' = TtiAdd(nextTti, 1)
    /\ UNCHANGED <<harq, user, msg3, grants, current>>

DecodePuschBug(i) ==
    /\ At(i, "decode")
    /\ grants[workers[i].tti % SlotMod] # "none"
    /\ \E ok \in BOOLEAN :
         /\ harq' = [harq EXCEPT ![TtiAdd(workers[i].tti, HarqDelay) % Rtt] = SetAck(@, ok)]
         /\ workers' = [workers EXCEPT ![i].pc = "dl", ![i].heard = IF ok THEN "ok" ELSE "ko"]
    /\ UNCHANGED <<user, msg3, grants, current, nextTti>>

\* decode_pusch: the CRC of the subframe's grant is given to the process of its TTI.
DecodePusch(i) ==
    /\ At(i, "decode")
    /\ grants[workers[i].tti % SlotMod] # "none"
    /\ \E ok \in BOOLEAN :
         /\ harq' = [harq EXCEPT ![workers[i].tti % Rtt] = SetAck(@, ok)]
         /\ workers' = [workers EXCEPT ![i].pc = "dl", ![i].heard = IF ok THEN "ok" ELSE "ko"]
    /\ UNCHANGED <<user, msg3, grants, current, nextTti>>

\* decode_pucch: users without a grant in the subframe may have sent a scheduling request.
DecodePucch(i) ==
    /\ At(i, "decode")
    /\ grants[workers[i].tti % SlotMod] = "none"
    /\ sr' \in {sr, attached}
    /\ Goto(i, "dl")
    /\ UNCHANGED <<harq, bsr, msg3, attached, grants, current, nextTti>>

\* dl_sched for TTI n + HarqDelay. dl_sched_rar sends this user's RAR once, with the grant of
\* message 3 for TTI_TX + MSG3_DELAY_MS later.
RunDl(i) ==
    /\ At(i, "dl")
    /\ current' = TtiAdd(workers[i].tti, HarqDelay)
    /\ \/ UNCHANGED msg3
       \/ /\ ~attached /\ \A s \in Slots : ~msg3[s]
          /\ msg3' = [msg3 EXCEPT ![TtiAdd(workers[i].tti, Rtt + Msg3Delay) % SlotMod] = TRUE]
    /\ Goto(i, "enter")
    /\ UNCHANGED <<harq, user, grants, nextTti>>

\* ul_sched up to sched_mutex.
EnterUl(i) ==
    /\ At(i, "enter")
    /\ current' = TtiAdd(workers[i].tti, Rtt)
    /\ Goto(i, "phich")
    /\ UNCHANGED <<harq, user, msg3, grants, nextTti>>

\* The PHICH loop, under sched_mutex.
Phich(i) ==
    /\ At(i, "phich")
    /\ \A j \in DOMAIN workers : workers[j].pc # "grant"
    /\ LET p == current % Rtt
           h == harq[p]
       IN  /\ harq' = [harq EXCEPT ![p] = HasPendingAck(h)]
           /\ workers' = [workers EXCEPT ![i].pc = "grant",
                              ![i].phich = IF ~h.need_ack THEN "none"
                                           ELSE IF h.ack THEN "ack" ELSE "nack"]
    /\ UNCHANGED <<user, msg3, grants, current, nextTti>>

\* get_pending_ul_new_data is not zero. "cqi" says whether an aperiodic CQI is due, once RRC
\* has configured it.
HasNewData(cqi) ==
    IF bsr = 0 THEN sr \/ (cqi /\ attached)
    ELSE bsr > FoldFunction(+, 0, [p \in Pids |-> harq[p].pending_data])

NoGrant(p) ==
    /\ harq' = [harq EXCEPT ![p] = ResetPendingData(@)]
    /\ UNCHANGED <<sr, msg3>>

\* The DCI could not be placed: h->reset(0).
NoDciBug(p) ==
    /\ harq' = [harq EXCEPT ![p] = ResetPendingData(ResetProc(@))]
    /\ sr' = FALSE
    /\ UNCHANGED msg3

NoDci(p) ==
    /\ harq' = [harq EXCEPT ![p] = ResetPendingData(ResetProc(@))]
    /\ UNCHANGED <<sr, msg3>>

\* allocate_user_newtx_prbs, then a new transport block of "tbs" data units.
GrantNew(p, tbs) ==
    /\ Empty(harq[p])
    /\ harq' = [harq EXCEPT ![p] = ResetPendingData(NewTx([@ EXCEPT !.max_retx = MaxRetx], tbs))]
    /\ sr' = FALSE
    /\ UNCHANGED msg3

\* allocate_user_retx_prbs, then the same block again.
GrantRetx(p) ==
    /\ ~Empty(harq[p])
    /\ harq' = [harq EXCEPT ![p] = NewRetx(@)]
    /\ UNCHANGED <<sr, msg3>>

\* Message 3: the RAR carried its grant, no DCI is needed. The process and the slot are those
\* of the subframe's own TTI, the pending data those of current_tti.
GrantMsg3(t, tbs) ==
    LET p == t % Rtt
        h == harq[p]
        sent == NewTx([h EXCEPT !.max_retx = IF Empty(h) THEN MaxMsg3 ELSE @], tbs)
    IN  /\ harq' = [q \in Pids |-> LET r == IF q = p THEN sent ELSE harq[q]
                                   IN  IF q = current % Rtt THEN ResetPendingData(r) ELSE r]
        /\ sr' = (sr /\ ~Empty(h))
        /\ msg3' = [msg3 EXCEPT ![t % SlotMod] = FALSE]

\* The PUSCH loop and what follows it, under sched_mutex; mac::get_ul_sched then replaces the
\* grants of the subframe's slot.
Grant(i) ==
    LET t == TtiAdd(workers[i].tti, Rtt)
        p == current % Rtt
    IN  /\ At(i, "grant")
        /\ \E kind \in Kinds, tbs \in 1 .. MaxTbs, cqi \in BOOLEAN :
             /\ (kind = "msg3") = msg3[t % SlotMod]
             /\ \/ kind = "msg3" /\ GrantMsg3(t, tbs)
                \/ kind = "new"  /\ HasNewData(cqi) /\ GrantNew(p, tbs)
                \/ kind = "retx" /\ GrantRetx(p)
                \/ kind = "none" /\ NoGrant(p)
                \/ kind = "none" /\ (~Empty(harq[p]) \/ HasNewData(cqi)) /\ NoDci(p)
             /\ grants' = [grants EXCEPT ![t % SlotMod] = kind]
             /\ workers' = [workers EXCEPT ![i].pc = "end", ![i].granted = kind]
        /\ attached' = (attached \/ msg3[t % SlotMod])
        /\ UNCHANGED <<bsr, current, nextTti>>

\* worker_end: the oldest subframe is transmitted and its worker is idle again.
End ==
    /\ workers # << >> /\ Head(workers).pc = "end"
    /\ workers' = Tail(workers)
    /\ UNCHANGED <<harq, user, msg3, grants, current, nextTti>>

-----------------------------------------------------------------------------
(* The upper layers                                                        *)

\* A buffer status report (ul_buffer_state) or received data (ul_recv_len).
UlBufferState ==
    /\ attached
    /\ bsr' \in 0 .. MaxBsr
    /\ UNCHANGED <<harq, sr, msg3, attached, grants, current, workers, nextTti>>

\* RRC configures the user anew: set_cfg resets the processes and removes the bearers. What was
\* heard of the old blocks (a history of the model) no longer counts.
UeCfg ==
    /\ MayReconf /\ attached
    /\ harq' = [p \in Pids |-> [ResetProc(harq[p]) EXCEPT !.max_retx = MaxRetx]]
    /\ bsr' = 0 /\ sr' = FALSE
    /\ workers' = [i \in DOMAIN workers |-> [workers[i] EXCEPT !.heard = "none"]]
    /\ UNCHANGED <<msg3, attached, grants, current, nextTti>>

Work(i) == \/ DecodePusch(i) \/ DecodePucch(i) \/ RunDl(i)
           \/ EnterUl(i) \/ Phich(i) \/ Grant(i)

Next == \/ Dispatch
        \/ \E i \in 1 .. NofWorkers : Work(i)
        \/ End
        \/ UlBufferState
        \/ UeCfg

Spec == Init /\ [][Next]_vars

-----------------------------------------------------------------------------
(* Properties                                                              *)

\* Types.
TypeOK ==
    /\ harq \in [Pids -> Process]
    /\ bsr \in 0 .. MaxBsr /\ sr \in BOOLEAN /\ attached \in BOOLEAN
    /\ msg3 \in [Slots -> BOOLEAN]
    /\ grants \in [Slots -> Kinds]
    /\ current \in Ttis /\ nextTti \in Ttis
    /\ workers \in Seq(Worker) /\ Len(workers) <= NofWorkers

\* The PHICH of a subframe answers what was received in it: ACK for a block that was
\* decoded, NACK for one that was not. The CRC goes to the process of the received TTI, the
\* feedback is read from the process of current_tti.
PhichAnswers ==
    \A i \in DOMAIN workers : LET w == workers[i] IN
        w.pc \in {"grant", "end"} /\ w.heard # "none" =>
            w.phich = IF w.heard = "ok" THEN "ack" ELSE "nack"

\* Only a block whose last reception failed is granted again (a received one would be
\* combined with nothing, and the UE has dropped it).
RetxOnlyIfNacked ==
    \A i \in DOMAIN workers : LET w == workers[i] IN
        w.granted = "retx" => w.phich = "nack" /\ w.heard # "ok"

\* The worker of the process's TTI is still at work on it.
Updating(p) == \E i \in DOMAIN workers :
                  workers[i].tti % Rtt = p /\ workers[i].pc # "end"

\* get_pending_ul_old_data counts only blocks that may still arrive or whose feedback is
\* still due: data counted for ever would be subtracted from every report of the user, which would starve.
OldDataInFlight ==
    \A p \in Pids : harq[p].pending_data > 0 =>
        harq[p].active \/ harq[p].need_ack \/ Updating(p)

\* A scheduling request is forgotten only when the user gets a grant for new data (or
\* is reconfigured): "Un-trigger SR" (scheduler.cc:970) is inside the success branch.
SrAnswered ==
    [][UeCfg \/ (sr /\ ~sr' =>
         \E i \in DOMAIN workers : At(i, "grant") /\ workers'[i].granted \in {"new", "msg3"})]_vars

-----------------------------------------------------------------------------
(* What the processes promise: stop-and-wait HARQ, one block per process   *)

AbsBlock(h) == [st |-> IF Empty(h) THEN "idle" ELSE IF h.ack_received THEN "nacked" ELSE "sent",
                n  |-> h.n_rtx]

tbBar == [p \in Pids |-> [b \in {0} |-> AbsBlock(harq[p])]]

Abs == INSTANCE HarqAbs WITH Procs <- Pids, TBs <- {0}, MaxRetx <- Most, tb <- tbBar

\* Every step of the program is a step of stop-and-wait HARQ.
StopAndWait == Abs!Spec
=============================================================================
