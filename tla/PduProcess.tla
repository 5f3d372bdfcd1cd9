----------------------------- MODULE PduProcess -----------------------------
(***************************************************************************)
(* The way of an uplink MAC PDU from the grant to RLC: get_ul_sched takes  *)
(* a buffer of the user's pool for a grant, the PHY worker of that         *)
(* subframe decodes into it, crc_info queues it or gives it back, and the  *)
(* thread of class pdu_process parses what is queued. Users are removed    *)
(* meanwhile (ue_rem) and at the end MAC is stopped.                       *)
(*                                                                         *)
(* Several workers are in use at once; inflight holds them in the order of *)
(* their subframes, at                                                     *)
(*   "decode"  holding the worker's mutex, between two grants;             *)
(*   "write"   decoding into the buffer of a grant;                        *)
(*   "alloc"   past the last grant, with the scheduler's result;           *)
(*   "end"     in worker_end, where they leave in order (PhyPipeline).     *)
(***************************************************************************)
EXTENDS Integers, Sequences, SequencesExt, FiniteSets

CONSTANTS
    NofWorkers,   \* expert.nof_phy_threads
    HarqDelay,    \* HARQ_DELAY_MS
    RingSize,     \* TTIMOD_SZ, the slots of phch_common::ul_grants
    Period,       \* 10240, where TTIs start again: a multiple of both rings
    Users,        \* the RNTIs of the users, all registered at the start
    NofBufs       \* buffers of a user's pool, 128 in mac/ue.h

MaxTb   == 2                          \* SRSLTE_MAX_TB
NofHarq == 2 * HarqDelay * MaxTb      \* ue::NOF_HARQ_PROCESSES

ASSUME RingsOK ==
    /\ {NofWorkers, HarqDelay, RingSize, Period, NofBufs} \subseteq Nat \ {0}
    /\ Users \subseteq Nat \ {0} /\ IsFiniteSet(Users)
    /\ Period % RingSize = 0 /\ Period % NofHarq = 0
\* With more workers than this a worker writes the slot of grants another still reads.
ASSUME WorkersOK == NofWorkers <= RingSize - 2 * HarqDelay /\ NofWorkers <= 2 * HarqDelay

VARIABLES
    tti,        \* the next subframe received
    inflight,   \* the workers in use: worker, subframe, place, grant, result
    ring,       \* phch_common::ul_grants
    pending,    \* ue::pending_buffers
    queue,      \* the PDUs in ue::pdus
    free,       \* the free buffers of ue::pdus
    life,       \* a user: "in", "unsched" (out of the scheduler), "gone"
    rem,        \* RRC's thread in mac::ue_rem, and the subframes received meanwhile
    slow,       \* history: the users whose removal took too many subframes
    pdu,        \* the PDU thread
    haveData,   \* pdu_process::have_data
    phase       \* of enb::stop, for PHY and MAC

phy == <<tti, inflight, ring>>
ue  == <<pending, queue, free>>
vars == <<tti, inflight, ring, pending, queue, free, life, rem, slow, pdu, haveData, phase>>

Workers == 1 .. NofWorkers
Bufs    == 1 .. NofBufs
NoBuf   == 0
Grant   == [rnti : Users \union {0}, buf : Bufs \union {NoBuf}]
\* The subframes between a request and its grant's PUSCH that no worker in use hides, and
\* where the subframes since an event stop counting.
RoundTrip  == 2 * HarqDelay - NofWorkers + 1
Later(age) == IF age = RoundTrip THEN age ELSE age + 1
Idle    == [user |-> 0, buf |-> NoBuf, age |-> 0]
NoRemoval == [user |-> 0, w |-> 0, age |-> 0]

Entry  == [w : Workers, t : 0 .. Period - 1, pc : {"decode", "write", "alloc", "end"},
           j : Nat, nof : Nat, g : Grant, res : SUBSET Users]
Read   == [user : Users \union {0}, buf : Bufs \union {NoBuf}, age : 0 .. RoundTrip]
Removal == {NoRemoval} \union [user : Users, w : 1 .. NofWorkers + 1, age : 0 .. RoundTrip]
Thread == [pc : {"check", "rdlock", "pop", "parse", "store", "test", "wait", "exit"},
           todo : SUBSET Users, ret : BOOLEAN, read : Read]

TypeOK ==
    /\ tti \in 0 .. Period - 1
    /\ inflight \in Seq(Entry)
    /\ ring \in [0 .. RingSize - 1 -> Seq(Grant)]
    /\ pending \in [Users -> [0 .. NofHarq - 1 -> Bufs \union {NoBuf}]]
    /\ queue \in [Users -> Seq(Bufs)]
    /\ free \in [Users -> SUBSET Bufs]
    /\ life \in [Users -> {"in", "unsched", "gone"}]
    /\ rem \in Removal
    /\ slow \subseteq Users
    /\ pdu \in Thread
    /\ haveData \in BOOLEAN
    /\ phase \in {"run", "phy", "join"}

Init ==
    /\ tti = 0 /\ inflight = << >>
    /\ ring = [s \in 0 .. RingSize - 1 |-> << >>]
    /\ pending = [u \in Users |-> [p \in 0 .. NofHarq - 1 |-> NoBuf]]
    /\ queue = [u \in Users |-> << >>]
    /\ free = [u \in Users |-> Bufs]
    /\ life = [u \in Users |-> "in"]
    /\ rem = NoRemoval /\ slow = {}
    /\ pdu = [pc |-> "check", todo |-> {}, ret |-> FALSE, read |-> Idle]
    /\ haveData = FALSE
    /\ phase = "run"

-----------------------------------------------------------------------------
(* The PHY workers.                                                        *)

InUse     == {inflight[i].w : i \in DOMAIN inflight}
At(i, pc) == i \in DOMAIN inflight /\ inflight[i].pc = pc
Slot(t)   == t % RingSize
Pid(t)    == t % NofHarq

\* TTI_RX_ACK: the subframe of the PUSCH that the worker of subframe t grants.
TtiTxUl(t) == (t + 2 * HarqDelay) % Period

\* The write lock of MAC's users is asked for by ue_rem and by stop.
WrLocked == phase = "join" /\ pdu.pc # "exit"

\* txrx::run_thread gives the subframe to an idle worker, whose decode_pusch gets nof_grants.
Dispatch ==
    /\ phase = "run"
    /\ \E w \in Workers \ InUse :
         inflight' = Append(inflight,
           [w |-> w, t |-> tti, pc |-> "decode", j |-> 1, nof |-> Len(ring[Slot(tti)]),
            g |-> [rnti |-> 0, buf |-> NoBuf], res |-> {}])
    /\ tti' = (tti + 1) % Period
    /\ pdu' = IF pdu.read = Idle THEN pdu ELSE [pdu EXCEPT !.read.age = Later(@)]
    /\ rem' = IF rem.user = 0 THEN rem ELSE [rem EXCEPT !.age = Later(@)]
    /\ UNCHANGED <<ring, ue, life, slow, haveData, phase>>

\* The next grant of decode_pusch, if its RNTI is not zero.
BeginDecode(i) ==
    /\ At(i, "decode") /\ inflight[i].j <= inflight[i].nof
    /\ LET f == inflight[i]
           g == ring[Slot(f.t)][f.j]
       IN inflight' = [inflight EXCEPT ![i] =
                         IF g.rnti = 0 THEN [f EXCEPT !.j = @ + 1]
                         ELSE [f EXCEPT !.j = @ + 1, !.pc = "write", !.g = g]]
    /\ UNCHANGED <<tti, ring, ue, life, rem, slow, pdu, haveData, phase>>

\* A variant named ...Bug is the definition that follows them with a plausible mistake.
PushPduBug(u, p) ==
    /\ queue' = [queue EXCEPT ![u] = Append(@, pending[u][p])]
    /\ UNCHANGED <<pending, free>>

EarlyFreeBug(u, p) ==
    /\ queue' = [queue EXCEPT ![u] = Append(@, pending[u][p])]
    /\ free' = [free EXCEPT ![u] = @ \union {pending[u][p]}]
    /\ pending' = [pending EXCEPT ![u][p] = NoBuf]

\* ue::push_pdu of a buffer that was requested
PushPdu(u, p) ==
    /\ queue' = [queue EXCEPT ![u] = Append(@, pending[u][p])]
    /\ pending' = [pending EXCEPT ![u][p] = NoBuf]
    /\ UNCHANGED free

\* ue::deallocate_pdu
DeallocatePdu(u, p) ==
    /\ free' = [free EXCEPT ![u] = @ \union {pending[u][p]}]
    /\ pending' = [pending EXCEPT ![u][p] = NoBuf]
    /\ UNCHANGED queue

\* pdu_process::notify
NotifyBug ==
    /\ pdu' = IF pdu.pc = "wait" THEN [pdu EXCEPT !.pc = "test"] ELSE pdu
    /\ UNCHANGED haveData

Notify ==
    /\ haveData' = TRUE
    /\ pdu' = IF pdu.pc = "wait" THEN [pdu EXCEPT !.pc = "test"] ELSE pdu

\* mac::crc_info under the read lock. A buffer that was not requested is only reported.
CrcInfo(u, t, crc) ==
    \/ /\ life[u] = "gone"
       /\ UNCHANGED <<ue, pdu, haveData>>
    \/ /\ life[u] # "gone" /\ crc
       /\ IF pending[u][Pid(t)] # NoBuf THEN PushPdu(u, Pid(t)) ELSE UNCHANGED ue
       /\ Notify
    \/ /\ life[u] # "gone" /\ ~crc
       /\ IF pending[u][Pid(t)] # NoBuf THEN DeallocatePdu(u, Pid(t)) ELSE UNCHANGED ue
       /\ UNCHANGED <<pdu, haveData>>

EndDecode(i, crc) ==
    /\ At(i, "write") /\ ~WrLocked
    /\ CrcInfo(inflight[i].g.rnti, inflight[i].t, crc)
    /\ inflight' = [inflight EXCEPT ![i].pc = "decode", ![i].g = [rnti |-> 0, buf |-> NoBuf]]
    /\ UNCHANGED <<tti, ring, life, rem, slow, phase>>

\* mac::get_ul_sched: the scheduler runs, under its own lock ... The slot that decode_pusch
\* is through with is not read again before it is rewritten: the model forgets it here.
Schedule(i) ==
    /\ At(i, "decode") /\ inflight[i].j > inflight[i].nof
    /\ \E S \in SUBSET {u \in Users : life[u] = "in"} :
         inflight' = [inflight EXCEPT ![i].pc = "alloc", ![i].res = S]
    /\ ring' = [ring EXCEPT ![Slot(inflight[i].t)] = << >>]
    /\ UNCHANGED <<tti, ue, life, rem, slow, pdu, haveData, phase>>

\* phch_common::worker_end: a worker leaves when those of earlier subframes have left.
WorkerEnd(fs) ==
    \E n \in 0 .. Len(fs) :
       /\ \A i \in 1 .. n : fs[i].pc = "end"
       /\ n < Len(fs) => fs[n + 1].pc # "end"
       /\ inflight' = SubSeq(fs, n + 1, Len(fs))

\* ue::request_buffer answers NULL when the slot is taken or the pool is empty; free buffers
\* are alike.
Request(u, p) ==
    IF pending[u][p] # NoBuf \/ free[u] = {} THEN NoBuf
    ELSE CHOOSE b \in free[u] : TRUE

\* ... and the grants of the users that MAC still has are written, under the read lock.
Alloc(i) ==
    /\ At(i, "alloc") /\ ~WrLocked
    /\ LET t == TtiTxUl(inflight[i].t)
           S == {u \in inflight[i].res : life[u] # "gone"}
           got(u) == Request(u, Pid(t))
       IN /\ \E order \in [1 .. Cardinality(S) -> S] :
               /\ \A k, l \in DOMAIN order : k < l => order[k] < order[l]
               /\ ring' = [ring EXCEPT ![Slot(t)] =
                            [k \in DOMAIN order |-> [rnti |-> order[k], buf |-> got(order[k])]]]
          /\ pending' = [u \in Users |-> IF u \in S /\ got(u) # NoBuf
                                         THEN [pending[u] EXCEPT ![Pid(t)] = got(u)]
                                         ELSE pending[u]]
          /\ free' = [u \in Users |-> IF u \in S THEN free[u] \ {got(u)} ELSE free[u]]
    /\ WorkerEnd([inflight EXCEPT ![i].pc = "end", ![i].j = 1, ![i].nof = 0, ![i].res = {}])
    /\ UNCHANGED <<tti, queue, life, rem, slow, pdu, haveData, phase>>

-----------------------------------------------------------------------------
(* mac::pdu_process, the PDU thread.                                       *)

PduIn(pc) == pdu.pc = pc

Check ==
    /\ PduIn("check")
    /\ pdu' = [pdu EXCEPT !.pc = IF phase = "join" THEN "exit" ELSE "rdlock"]
    /\ UNCHANGED <<phy, ue, life, rem, slow, haveData, phase>>

\* mac::process_pdus
ProcessPdus ==
    /\ PduIn("rdlock") /\ ~WrLocked
    /\ LET here == {u \in Users : life[u] # "gone"}
       IN pdu' = [pdu EXCEPT !.pc = IF here = {} THEN "store" ELSE "pop", !.todo = here]
    /\ UNCHANGED <<phy, ue, life, rem, slow, haveData, phase>>

\* ue::process_pdu gives the buffer back and then reads the SDUs in it.
ParsePdu(u) ==
    /\ pdu' = [pdu EXCEPT !.pc = "parse", !.read = [user |-> u, buf |-> Head(queue[u]), age |-> 0]]
    /\ free' = [free EXCEPT ![u] = @ \union {Head(queue[u])}]
    /\ queue' = [queue EXCEPT ![u] = Tail(@)]
    /\ UNCHANGED pending

\* pdu_queue::process_pdus empties the queues of the users, one after the other; the last
\* one empty, the lock is released.
PopPdu ==
    /\ PduIn("pop")
    /\ \/ \E u \in pdu.todo :
            /\ \A v \in pdu.todo : u <= v
            /\ queue[u] # << >> /\ ParsePdu(u)
       \/ \E u \in pdu.todo :
            /\ \A v \in pdu.todo : u <= v
            /\ queue[u] = << >>
            /\ pdu' = [pdu EXCEPT !.todo = @ \ {u},
                                  !.pc = IF pdu.todo = {u} THEN "store" ELSE "pop"]
            /\ UNCHANGED ue
    /\ UNCHANGED <<phy, life, rem, slow, haveData, phase>>

PduParsed ==
    /\ PduIn("parse")
    /\ pdu' = [pdu EXCEPT !.pc = "pop", !.ret = TRUE, !.read = Idle]
    /\ UNCHANGED <<phy, ue, life, rem, slow, haveData, phase>>

\* have_data = handler->process_pdus(), without the mutex
StoreResult ==
    /\ PduIn("store")
    /\ haveData' = pdu.ret
    /\ pdu' = [pdu EXCEPT !.pc = "test", !.ret = FALSE]
    /\ UNCHANGED <<phy, ue, life, rem, slow, phase>>

TestData ==
    /\ PduIn("test")
    /\ pdu' = [pdu EXCEPT !.pc = IF haveData \/ phase = "join" THEN "check" ELSE "wait"]
    /\ UNCHANGED <<phy, ue, life, rem, slow, haveData, phase>>

PduThread ==
    Check \/ ProcessPdus \/ PopPdu \/ PduParsed \/ StoreResult \/ TestData

-----------------------------------------------------------------------------
(* mac::ue_rem, called by RRC's thread, and the stop of PHY and MAC.       *)

RemSched(u) ==
    /\ rem.user = 0 /\ life[u] = "in" /\ ~WrLocked
    /\ life' = [life EXCEPT ![u] = "unsched"]
    /\ rem' = [user |-> u, w |-> 1, age |-> 0]
    /\ UNCHANGED <<phy, ue, slow, pdu, haveData, phase>>

\* The worker holds its mutex from the first grant to worker_end.
Busy(w) == \E i \in DOMAIN inflight : inflight[i].w = w /\ inflight[i].pc # "end"

RemRntiBug ==
    /\ rem.w \in Workers /\ ~Busy(rem.w)
    /\ rem' = [rem EXCEPT !.w = @ + 1]
    /\ UNCHANGED <<phy, ue, life, slow, pdu, haveData, phase>>

\* phch_worker::rem_rnti of one worker, inside the read lock, clears the grants of all.
RemRnti ==
    /\ rem.w \in Workers /\ ~Busy(rem.w)
    /\ ring' = [s \in DOMAIN ring |-> [k \in DOMAIN ring[s] |->
                  IF ring[s][k].rnti = rem.user THEN [ring[s][k] EXCEPT !.rnti = 0]
                                                ELSE ring[s][k]]]
    /\ rem' = [rem EXCEPT !.w = @ + 1]
    /\ UNCHANGED <<tti, inflight, ue, life, slow, pdu, haveData, phase>>

\* The write lock, once the PDU thread is out of process_pdus: the ue object is deleted.
RemErase ==
    /\ rem.w > NofWorkers /\ ~WrLocked /\ pdu.pc \notin {"pop", "parse"}
    /\ life' = [life EXCEPT ![rem.user] = "gone"]
    /\ slow' = IF rem.age = RoundTrip THEN slow \union {rem.user} ELSE slow
    /\ rem' = NoRemoval
    /\ UNCHANGED <<phy, ue, pdu, haveData, phase>>

\* phy::stop returns when the workers are idle (PhyPipeline).
StopPhy ==
    /\ phase = "run"
    /\ phase' = "phy"
    /\ UNCHANGED <<phy, ue, life, rem, slow, pdu, haveData>>

StopMacBug ==
    /\ phase = "phy" /\ inflight = << >>
    /\ pdu.pc \notin {"pop", "parse"} /\ rem.w \notin Workers
    /\ phase' = "join"
    /\ life' = [u \in Users |-> "gone"]
    /\ UNCHANGED <<phy, ue, rem, slow, haveData, pdu>>

\* mac::stop takes the write lock, deletes the users, clears running, signals and waits.
\* A user whose removal has got this far is deleted twice; the model deletes it once.
StopMac ==
    /\ phase = "phy" /\ inflight = << >>
    /\ pdu.pc \notin {"pop", "parse"} /\ rem.w \notin Workers
    /\ phase' = "join"
    /\ life' = [u \in Users |-> "gone"]
    /\ pdu' = IF pdu.pc = "wait" THEN [pdu EXCEPT !.pc = "test"] ELSE pdu
    /\ UNCHANGED <<phy, ue, rem, slow, haveData>>

-----------------------------------------------------------------------------
WorkerStep(i) ==
    \/ BeginDecode(i)
    \/ \E crc \in BOOLEAN : EndDecode(i, crc)
    \/ Schedule(i)
    \/ Alloc(i)

RrcThread == (\E u \in Users : RemSched(u)) \/ RemRnti \/ RemErase

Next ==
    \/ Dispatch
    \/ \E i \in 1 .. NofWorkers : WorkerStep(i)
    \/ PduThread \/ RrcThread
    \/ StopPhy \/ StopMac

\* The PDU thread goes on; subframes, PDUs, removals and the stop may come or not.
Spec == Init /\ [][Next]_vars /\ WF_vars(PduThread)

-----------------------------------------------------------------------------
(* Properties.                                                             *)

PendingBufs(u) == {pending[u][p] : p \in DOMAIN pending[u]} \ {NoBuf}

\* A buffer is free, or requested for one grant, or queued once: never two of these, and
\* never none (request_buffer, push_pdu, deallocate_pdu and process_pdu between them).
OneOwner ==
    \A u \in Users : life[u] # "gone" =>
      /\ Bufs = free[u] \union PendingBufs(u) \union ToSet(queue[u])
      /\ Cardinality(free[u]) + Cardinality(PendingBufs(u)) + Len(queue[u]) = NofBufs

\* A worker decodes into the buffer requested for its own grant, of a user that MAC still
\* has: no other worker has changed the slot, no thread has given the buffer on. A worker
\* that rem_rnti has already passed may meet a grant of one it has not: only a removal that
\* takes as long as a HARQ round trip, less the workers, deletes the user under its hands.
DecodesIntoOwn ==
    \A i \in DOMAIN inflight : inflight[i].pc = "write" =>
      LET u == inflight[i].g.rnti
      IN IF life[u] = "gone" THEN u \in slow
                             ELSE pending[u][Pid(inflight[i].t)] = inflight[i].g.buf

\* process_pdu reads a buffer it has already given back. A worker overwrites it only if
\* the PDU takes as long as a HARQ round trip less the subframes the workers are behind.
ReadInTime ==
    \A i \in DOMAIN inflight :
      inflight[i].pc = "write" /\ inflight[i].g.buf # NoBuf
        /\ inflight[i].g.rnti = pdu.read.user /\ inflight[i].g.buf = pdu.read.buf
      => pdu.read.age = RoundTrip

\* A notify that comes while the thread stores the result of the last pass is lost, but
\* no PDU stays for ever: the next notify, if PDUs keep coming, gets the earlier ones too.
Received == \E i \in 1 .. NofWorkers : EndDecode(i, TRUE)
QueuedIsRead ==
    ([]<><<Received>>_vars) =>
      \A u \in Users : queue[u] # << >> ~> (pdu.read.user = u \/ life[u] = "gone")

\* mac::stop returns, unless the PDU thread has just passed its test of running: stop
\* waits for it holding the write lock that process_pdus needs for reading.
StopReturns ==
    phase = "join" ~> (PduIn("exit") \/ PduIn("rdlock"))
=============================================================================
