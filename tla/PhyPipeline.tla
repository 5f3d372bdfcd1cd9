---------------------------- MODULE PhyPipeline ----------------------------
(***************************************************************************)
(* The pool of PHY workers: txrx::run_thread gives every received subframe *)
(* to an idle worker, phch_worker::work_imp processes it and               *)
(* phch_common::worker_end makes the workers transmit in the order of the  *)
(* subframes with a chain of semaphores, one per tx_worker_cnt. Included   *)
(* are the start (subframes received before MAC and RRC are initialised    *)
(* are abandoned without worker_end) and phy::stop.                        *)
(*                                                                         *)
(* A worker in use is at                                                   *)
(*   "start"  started by the pool, before it tests running;                *)
(*   "lock"   past the test, before it takes its mutex;                    *)
(*   "work"   holding its mutex: decoding, scheduling, encoding;           *)
(*   "first"  in worker_end, before it reads is_first_tx;                  *)
(*   "clear"  having read it TRUE, before it clears it;                    *)
(*   "wait"   in sem_wait;                                                 *)
(*   "tx"     transmitting.                                                *)
(***************************************************************************)
EXTENDS Integers, Sequences, SequencesExt, FiniteSets

CONSTANTS
    NofWorkers,   \* expert.nof_phy_threads
    EarlyRadio,   \* whether subframes are received before MAC and RRC are initialised
    Spaced        \* whether the first subframe reaches worker_end before the others

ASSUME PoolOK == NofWorkers \in Nat \ {0} /\ EarlyRadio \in BOOLEAN /\ Spaced \in BOOLEAN

VARIABLES
    inflight,   \* the workers in use, in the order of their subframes
    cnt,        \* txrx::tx_worker_cnt
    sem,        \* phch_common::tx_sem
    isFirst,    \* phch_common::is_first_tx
    ready,      \* mac::started and sched::configured
    txrx,       \* the radio thread: "top" of its loop, in "wait_worker", "done"
    running,    \* txrx::running
    halted,     \* workers whose running flag stop() has cleared
    freed,      \* workers whose buffers stop() has freed
    phase,      \* progress of phy::stop
    victim      \* the worker that phy::stop is stopping

vars == <<inflight, cnt, sem, isFirst, ready, txrx, running, halted, freed, phase, victim>>
chain == <<cnt, sem, isFirst>>
stop  == <<running, halted, freed, phase, victim>>

Workers == 0 .. NofWorkers - 1
Pcs     == {"start", "lock", "work", "first", "clear", "wait", "tx"}
Entry   == [w : Workers, k : Workers, pc : Pcs]
Phases  == {"run", "join", "workers", "common", "pool", "done"}

InUse     == {inflight[i].w : i \in DOMAIN inflight}
At(i, pc) == i \in DOMAIN inflight /\ inflight[i].pc = pc
Goto(i, pc) == inflight' = [inflight EXCEPT ![i].pc = pc]

Init ==
    /\ inflight = << >>
    /\ cnt = 0
    /\ sem = [k \in Workers |-> 0]
    /\ isFirst = TRUE
    /\ ready = FALSE
    /\ txrx = "top"
    /\ running = TRUE
    /\ halted = {} /\ freed = {}
    /\ phase = "run" /\ victim = 0

-----------------------------------------------------------------------------
(* txrx::run_thread                                                        *)

LoopTop ==
    /\ txrx = "top"
    /\ txrx' = IF running THEN "wait_worker" ELSE "done"
    /\ UNCHANGED <<inflight, chain, ready, stop>>

\* Variants named ...Bug are the definitions that follow them with a plausible mistake.
\* wait_worker blocks until a worker is idle; set_time hands it the subframe and tx_worker_cnt.
\* EarlyRadio bounds the model: without it the first subframe comes after the initialisation.
Dispatch ==
    /\ txrx = "wait_worker" /\ (ready \/ EarlyRadio)
    /\ \E w \in Workers \ InUse :
         inflight' = Append(inflight, [w |-> w, k |-> cnt, pc |-> "start"])
    /\ cnt' = (cnt + 1) % NofWorkers
    /\ txrx' = "top"
    /\ UNCHANGED <<sem, isFirst, ready, stop>>

-----------------------------------------------------------------------------
(* phch_worker::work_imp                                                   *)

\* "if (!running) return": the worker is idle again without worker_end.
Begin(i) ==
    /\ At(i, "start")
    /\ IF inflight[i].w \in halted THEN inflight' = RemoveAt(inflight, i)
                                   ELSE Goto(i, "lock")
    /\ UNCHANGED <<chain, ready, txrx, stop>>

Lock(i) ==
    /\ At(i, "lock")
    /\ Goto(i, "work")
    /\ UNCHANGED <<chain, ready, txrx, stop>>

\* Until MAC and RRC are initialised get_dl_sched leaves cfi at 0, "Invalid CFI": the
\* worker jumps to unlock and leaves out worker_end.
Process(i) ==
    /\ At(i, "work")
    /\ IF ready THEN Goto(i, "first") ELSE inflight' = RemoveAt(inflight, i)
    /\ UNCHANGED <<chain, ready, txrx, stop>>

-----------------------------------------------------------------------------
(* phch_common::worker_end                                                 *)

TestFirst(i) ==
    /\ At(i, "first")
    /\ Spaced /\ isFirst => i = 1
    /\ Goto(i, IF isFirst THEN "clear" ELSE "wait")
    /\ UNCHANGED <<chain, ready, txrx, stop>>

ClearFirstBug(i) ==
    /\ At(i, "clear")
    /\ sem' = [sem EXCEPT ![inflight[i].k] = @ + 1]
    /\ Goto(i, "wait")
    /\ UNCHANGED <<isFirst, cnt, ready, txrx, stop>>

ClearFirst(i) ==
    /\ At(i, "clear")
    /\ isFirst' = FALSE
    /\ sem' = [sem EXCEPT ![inflight[i].k] = @ + 1]
    /\ Goto(i, "wait")
    /\ UNCHANGED <<cnt, ready, txrx, stop>>

WaitTurnBug(i) ==
    /\ At(i, "wait")
    /\ sem[inflight[i].k] > 0
    /\ Goto(i, "tx")
    /\ UNCHANGED <<chain, ready, txrx, stop>>

WaitTurn(i) ==
    /\ At(i, "wait")
    /\ sem[inflight[i].k] > 0
    /\ sem' = [sem EXCEPT ![inflight[i].k] = @ - 1]
    /\ Goto(i, "tx")
    /\ UNCHANGED <<cnt, isFirst, ready, txrx, stop>>

TransmitBug(i) ==
    /\ At(i, "tx")
    /\ sem' = [sem EXCEPT ![inflight[i].k] = @ + 1]
    /\ inflight' = RemoveAt(inflight, i)
    /\ UNCHANGED <<cnt, isFirst, ready, txrx, stop>>

\* radio->tx, then the next in turn is released and the worker is idle.
Transmit(i) ==
    /\ At(i, "tx")
    /\ sem' = [sem EXCEPT ![(inflight[i].k + 1) % NofWorkers] = @ + 1]
    /\ inflight' = RemoveAt(inflight, i)
    /\ UNCHANGED <<cnt, isFirst, ready, txrx, stop>>

-----------------------------------------------------------------------------
(* enb::init and phy::stop                                                 *)

\* mac::init and rrc::init run after phy::init has started the radio thread.
InitUpper ==
    /\ ~ready
    /\ ready' = TRUE
    /\ UNCHANGED <<inflight, chain, txrx, stop>>

\* tx_rx.stop() clears the flag and joins the thread.
StopTxrx ==
    /\ phase = "run" /\ ready
    /\ running' = FALSE
    /\ phase' = "join"
    /\ UNCHANGED <<inflight, chain, ready, txrx, halted, freed, victim>>

JoinTxrx ==
    /\ phase = "join" /\ txrx = "done"
    /\ phase' = "workers"
    /\ UNCHANGED <<inflight, chain, ready, txrx, running, halted, freed, victim>>

\* phch_worker::stop, first its flag ...
HaltWorker ==
    /\ phase = "workers" /\ victim \notin halted
    /\ halted' = halted \cup {victim}
    /\ UNCHANGED <<inflight, chain, ready, txrx, running, freed, phase, victim>>

\* ... then, with the worker's mutex, a wait of 100 ms for is_worker_running to be cleared:
\* the buffers are freed, or the worker is left running.
IsAt(w, pcs) == \E i \in DOMAIN inflight : inflight[i].w = w /\ inflight[i].pc \in pcs

NextVictim ==
    IF victim + 1 \in Workers THEN victim' = victim + 1 /\ UNCHANGED phase
                              ELSE phase' = "common" /\ UNCHANGED victim

FreeWorker ==
    /\ phase = "workers" /\ victim \in halted
    /\ ~IsAt(victim, {"work"})
    /\ freed' = IF IsAt(victim, {"first", "clear", "wait", "tx"}) THEN freed
                                                               ELSE freed \cup {victim}
    /\ NextVictim
    /\ UNCHANGED <<inflight, chain, ready, txrx, running, halted>>

StopCommonBug ==
    /\ phase = "common"
    /\ phase' = "pool"
    /\ UNCHANGED <<inflight, chain, ready, txrx, running, halted, freed, victim>>

\* phch_common::stop posts every semaphore.
StopCommon ==
    /\ phase = "common"
    /\ sem' = [k \in Workers |-> sem[k] + 1]
    /\ phase' = "pool"
    /\ UNCHANGED <<inflight, cnt, isFirst, ready, txrx, running, halted, freed, victim>>

\* workers_pool.stop() joins the worker threads.
StopPool ==
    /\ phase = "pool" /\ inflight = << >>
    /\ phase' = "done"
    /\ UNCHANGED <<inflight, chain, ready, txrx, running, halted, freed, victim>>

Work(i) == \/ Begin(i) \/ Lock(i) \/ Process(i)
           \/ TestFirst(i) \/ ClearFirst(i) \/ WaitTurn(i) \/ Transmit(i)

Stop == JoinTxrx \/ HaltWorker \/ FreeWorker \/ StopCommon \/ StopPool

Next == \/ LoopTop \/ Dispatch \/ InitUpper \/ StopTxrx \/ Stop
        \/ \E i \in 1 .. NofWorkers : Work(i)

\* Each worker runs, identified by its subframe's place in the order; the process that
\* initialises and stops the PHY is not obliged to begin.
Fairness == /\ WF_vars(LoopTop) /\ WF_vars(Dispatch) /\ WF_vars(InitUpper) /\ WF_vars(Stop)
            /\ \A w \in Workers :
                 WF_vars(\E i \in 1 .. NofWorkers : i \in DOMAIN inflight /\ inflight[i].w = w /\ Work(i))

Spec == Init /\ [][Next]_vars /\ Fairness

-----------------------------------------------------------------------------
(* Properties                                                              *)

\* Types.
TypeOK ==
    /\ inflight \in Seq(Entry) /\ Len(inflight) <= NofWorkers
    /\ cnt \in Workers
    /\ sem \in [Workers -> Nat]
    /\ isFirst \in BOOLEAN /\ ready \in BOOLEAN /\ running \in BOOLEAN
    /\ txrx \in {"top", "wait_worker", "done"}
    /\ halted \in SUBSET Workers /\ freed \in SUBSET Workers
    /\ phase \in Phases /\ victim \in Workers

\* "The transmission of UL subframes must be in sequence. The correct sequence is guaranteed
\* by a chain of N semaphores" (phch_common.cc:100): a worker transmits only when every
\* older subframe is done, until phy::stop releases everyone.
TransmitInOrder ==
    phase \notin {"pool", "done"} =>
        \A i \in DOMAIN inflight : At(i, "tx") => i = 1

\* The chain holds one permit: nobody's before the first worker has announced itself, then
\* a semaphore's or the transmitting worker's.
Posted  == UNION {{k} \X (1 .. sem[k]) : k \in Workers}
Permits == Cardinality({i \in DOMAIN inflight : At(i, "tx")}) + Cardinality(Posted)
OnePermit ==
    phase \notin {"pool", "done"} => Permits = IF isFirst THEN 0 ELSE 1

\* Every subframe given to a worker is transmitted, or given up by the stop: the worker
\* returns to the pool. Otherwise wait_worker would block the radio thread.
SubframeEnds == \A w \in Workers : w \in InUse ~> w \notin InUse

\* phy::stop returns.
StopReturns == phase = "join" ~> phase = "done"
=============================================================================
