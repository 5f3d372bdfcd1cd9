----------------------------- MODULE DlBroadcast -----------------------------
(***************************************************************************)
(* What a cell sends to all: system information, paging and MBMS. Every    *)
(* PHY worker asks get_sf_config for the kind of its subframe and goes     *)
(* through these points:                                                   *)
(*   "sched"   enters sched::dl_sched, which stores its subframe and the   *)
(*             room there is in variables that all workers share, before   *)
(*             it takes sched_mutex; or, in an MBSFN subframe, runs        *)
(*             get_mch_sched, which divides the subframes of the MCH among *)
(*             the sessions or reads the session whose turn it is;         *)
(*   "si"      locks sched_mutex, opens and closes the windows of the SI   *)
(*             messages;                                                   *)
(*   "tx"      schedules the messages that are due;                        *)
(*   "page"    takes the pages that RRC has for the subframe, and unlocks  *)
(*             after the responses and the data;                           *)
(*   "read"    copies the PCCH message (get_dl_sched);                     *)
(*   "ul"      enters sched::ul_sched, which stores the uplink subframe in *)
(*             the same variables;                                         *)
(*   "grant"   runs ul_sched under sched_mutex;                            *)
(*   "encode"  encodes what the grants point to.                           *)
(* Subframes start in order and end in order (PhyPipeline); in between the *)
(* workers overtake each other. Each point reads the shared variables      *)
(* once: a store that meets a loop is taken as before or after it.         *)
(***************************************************************************)
EXTENDS Integers, Sequences, SequencesExt, FiniteSets, FiniteSetsExt

CONSTANTS
    NofWorkers,   \* expert.nof_phy_threads
    NofFrames,    \* 1024, where the SFN starts again
    NofRbg,       \* resource block groups of the cell
    SiRbg,        \* sched::si_n_rbg
    NofDci,       \* DCIs of bc_aggr_level that the common search space holds
    SiWindow,     \* cfg.si_window_ms
    SibPeriod,    \* cfg.sibs[i].period_rf, for the messages configured
    Cycle,        \* default paging cycle T
    Nb,           \* T * nB: Nb of is_paging_opportunity
    UeIds,        \* UE identity index values
    MaxPageRec,   \* LIBLTE_RRC_MAX_PAGE_REC
    McchPeriod, McchSf,   \* frames of the MCCH repetition period; its subframe, offset 0
    MchSfs,       \* mch_table: the MBSFN subframes of every frame
    NofSessions,  \* mch.num_mtch_sched
    SfAllocEnd,   \* pmch_config_r9.sf_alloc_end_r9
    BytesPerSf,   \* tbs/8 - 6 of the MCH
    Backlogs      \* the queue lengths RLC reports for a session

Period   == 10 * NofFrames
Sibs     == DOMAIN SibPeriod
Sessions == 0 .. NofSessions - 1

ASSUME CellOK ==
    /\ NofWorkers \in 1 .. 4 /\ NofFrames \in Nat \ {0} /\ SiWindow \in Nat \ {0}
    /\ NofRbg \in Nat /\ SiRbg \in Nat /\ NofDci \in Nat
    /\ IsFiniteSet(Sibs) /\ Sibs \subseteq Nat
    /\ \A i \in Sibs : SibPeriod[i] \in Nat \ {0} /\ NofFrames % SibPeriod[i] = 0
    /\ UeIds \subseteq Nat /\ Cycle \in Nat \ {0} /\ Nb \in Nat \ {0}
    /\ NofFrames % Cycle = 0 /\ McchPeriod \in Nat \ {0} /\ NofFrames % McchPeriod = 0
    /\ NofSessions \in Nat \ {0} /\ BytesPerSf \in Nat \ {0} /\ SfAllocEnd \in Nat \ {0}
    /\ Backlogs \subseteq Nat
    /\ McchSf \in MchSfs /\ MchSfs \subseteq {1, 2, 3, 6, 7, 8}

VARIABLES
    tti,       \* the next subframe
    inflight,  \* the workers in use: subframe, place, pages assembled, PCCH granted
    pending,   \* rrc::pending_paging
    bitBuf,    \* rrc::bit_buf_paging: the pages in the message packed last
    payload,   \* mac::pcch_payload_buffer
    now,       \* of sched: current_tti (and sfn), sf_idx, avail_rbg, the common DCI places free
    sibs,      \* sched::pending_sibs
    mch,       \* mac::mch: where sessions stop, the subframe of the allocation
    fits,      \* history: the sessions with data, if all of it fits this period
    served     \* history: the sessions read since the last MCCH

paging == <<pending, bitBuf, payload>>
mbms   == <<mch, fits, served>>
vars   == <<tti, inflight, pending, bitBuf, payload, now, sibs, mch, fits, served>>

Points == {"sched", "si", "tx", "page", "read", "ul", "grant", "encode", "end"}

TypeOK ==
    /\ tti \in 0 .. Period - 1
    /\ inflight \in Seq([t : 0 .. Period - 1, pc : Points, ues : SUBSET UeIds, pcch : BOOLEAN])
    /\ now \in [tti : 0 .. Period - 1, sf : 0 .. 9, rbg : Int, dci : Int]
    /\ pending \subseteq UeIds /\ bitBuf \subseteq UeIds /\ payload \subseteq UeIds
    /\ sibs \in [Sibs -> [on : BOOLEAN, start : 0 .. Period - 1, n : 0 .. 4]]
    /\ mch \in [stop : [Sessions -> Nat], cur : Nat]
    /\ fits \subseteq Sessions /\ served \subseteq Sessions

Init ==
    /\ tti = 0 /\ inflight = << >>
    /\ pending = {} /\ bitBuf = {} /\ payload = {}
    /\ now = [tti |-> 0, sf |-> 0, rbg |-> 0, dci |-> NofDci]
    /\ sibs = [i \in Sibs |-> [on |-> FALSE, start |-> 0, n |-> 0]]
    /\ mch = [stop |-> [k \in Sessions |-> 0], cur |-> 0]
    /\ fits = {} /\ served = {}

-----------------------------------------------------------------------------
Sfn(t) == t \div 10
Sf(t)  == t % 10

\* srslte_tti_interval: how long after b the subframe a is.
Interval(a, b) == (a - b) % Period

At(i, pc) == i \in DOMAIN inflight /\ inflight[i].pc = pc

Goto(i, pc) == inflight' = [inflight EXCEPT ![i].pc = pc]

\* phch_common::is_mcch_subframe and is_mch_subframe, one frame per allocation period
IsMcch(t) == Sfn(t) % McchPeriod = 0 /\ Sf(t) = McchSf
IsMch(t)  == IsMcch(t) \/ Sf(t) \in MchSfs

\* txrx::run_thread
Dispatch ==
    /\ Len(inflight) < NofWorkers
    /\ inflight' = Append(inflight, [t |-> tti, pc |-> "sched", ues |-> {}, pcch |-> FALSE])
    /\ tti' = (tti + 1) % Period
    /\ UNCHANGED <<paging, now, sibs, mbms>>

\* s1ap::handle_paging, rrc::add_paging_id: a page already pending is not replaced.
AddPagingId(u) ==
    /\ pending' = pending \union {u}
    /\ UNCHANGED <<tti, inflight, bitBuf, payload, now, sibs, mbms>>

-----------------------------------------------------------------------------
(* Paging occasions, Section 7 of 36.304 as rrc::is_paging_opportunity.    *)

N  == Min({Cycle, Nb})
Ns == Max({Nb \div Cycle, 1})

SfPattern == << <<9, 4, -1, 0>>, <<-1, 9, -1, 4>>, <<-1, -1, -1, 5>>, <<-1, -1, -1, 9>> >>

\* Variants named ...Bug are the definitions that follow them with a plausible mistake.
PatternBug(u, t) ==
    /\ Sfn(t) % Cycle = (Cycle \div N) * (u % N)
    /\ Sf(t) = SfPattern[((Ns - 1) % 4) + 1][((u \div N) % Ns) + 1]

Occasion(u, t) ==
    /\ Sfn(t) % Cycle = (Cycle \div N) * (u % N)
    /\ Sf(t) = SfPattern[((u \div N) % Ns) + 1][((Ns - 1) % 4) + 1]

\* The first records of the map that are due, at most MaxPageRec.
Assembled(t) ==
    LET due == {u \in pending : Occasion(u, t)}
    IN {u \in due : Cardinality({v \in due : v < u}) < MaxPageRec}

-----------------------------------------------------------------------------
(* The variables of the scheduler that its callers share.                  *)

\* HARQ_DELAY_MS of the srslte library: the uplink is scheduled that many subframes further ahead.
HarqDelay == 4

UlTti(t) == (t + HarqDelay) % Period

\* Between "si" and "page" a worker has sched_mutex.
Unlocked == \A j \in DOMAIN inflight : inflight[j].pc \notin {"tx", "page"}

\* What dl_sched and ul_sched store before they lock. The places of DCIs (used_cce) are all free
\* again unless the other of the two has just been called for the same subframe.
Stored(t, own, sf, rbg) ==
    [tti |-> t, sf |-> sf, rbg |-> rbg, dci |-> IF now.tti # own THEN NofDci ELSE now.dci]

EnterDl(i) ==
    /\ At(i, "sched") /\ ~IsMch(inflight[i].t)
    /\ LET t == inflight[i].t IN now' = Stored(t, t, Sf(t), NofRbg)
    /\ Goto(i, "si")
    /\ UNCHANGED <<tti, paging, sibs, mbms>>

EnterUl(i) ==
    /\ At(i, "ul")
    /\ LET t == inflight[i].t IN now' = Stored(UlTti(t), t, Sf(t), now.rbg)
    /\ Goto(i, "grant")
    /\ UNCHANGED <<tti, paging, sibs, mbms>>

\* The rest of ul_sched: its DCIs take any of the places.
UlSched(i) ==
    /\ At(i, "grant") /\ Unlocked
    /\ \E dci \in 0 .. now.dci : now' = [now EXCEPT !.dci = dci]
    /\ Goto(i, "encode")
    /\ UNCHANGED <<tti, paging, sibs, mbms>>

-----------------------------------------------------------------------------
(* System information, the windows of sched::dl_sched_bc.                  *)

Opens(i) ==
    LET x == IF i = 0 THEN 5 ELSE (i - 1) * SiWindow
    IN Sfn(now.tti) % SibPeriod[i] = x \div 10 /\ now.sf = x % 10

\* A window opens at its subframe and is closed in the first one found past its end;
\* SIB1 is always in its window.
Window(i) ==
    LET s == sibs[i]
    IN IF ~s.on
       THEN IF Opens(i) THEN [on |-> TRUE, start |-> now.tti, n |-> 0] ELSE s
       ELSE IF i > 0 /\ Interval(now.tti, s.start) > SiWindow
            THEN [s EXCEPT !.on = FALSE, !.start = 0]
            ELSE IF i = 0 /\ s.n = 4 THEN [s EXCEPT !.n = 0] ELSE s

SiWindows(i) ==
    /\ At(i, "si") /\ Unlocked
    /\ sibs' = [k \in Sibs |-> Window(k)]
    /\ Goto(i, "tx")
    /\ UNCHANGED <<tti, paging, now, mbms>>

NofTx == IF SiWindow <= 10 THEN 1 ELSE IF SiWindow <= 20 THEN 2
         ELSE IF SiWindow <= 30 THEN 3 ELSE 4

SiDueBug(i) ==
    LET s == sibs[i]
    IN /\ s.on /\ s.n < 4
       /\ IF i = 0 THEN Sfn(now.tti) % 2 = 0 /\ now.sf = 5
          ELSE now.sf = 9 /\ now.tti - s.start > (SiWindow \div NofTx) * (s.n + 1)

\* n_sf is unsigned: a window opened in a later TTI counts as long past.
SiDue(i) ==
    LET s == sibs[i]
    IN /\ s.on /\ s.n < 4
       /\ IF i = 0 THEN Sfn(now.tti) % 2 = 0 /\ now.sf = 5
          ELSE /\ now.sf = 9
               /\ now.tti < s.start \/ now.tti - s.start >= (SiWindow \div NofTx) * s.n

\* After n broadcast messages: more than SiRbg groups and a DCI are left.
Room(n) == now.rbg - SiRbg * n > SiRbg /\ n < now.dci

Used(n) == [now EXCEPT !.rbg = @ - SiRbg * n, !.dci = @ - n]

Sent ==
    LET due == {i \in Sibs : SiDue(i)}
    IN {i \in due : Room(Cardinality({j \in due : j < i}))}

SiMessages(i) ==
    /\ At(i, "tx")
    /\ sibs' = [k \in Sibs |-> IF k \in Sent THEN [sibs[k] EXCEPT !.n = @ + 1] ELSE sibs[k]]
    /\ now' = Used(Cardinality(Sent))
    /\ Goto(i, "page")
    /\ UNCHANGED <<tti, paging, mbms>>

\* RRC has removed the users from pending_paging whether there is room for the message or not.
\* Then the responses of dl_sched_rar and the data take any of the groups and DCIs left.
Paging(i) ==
    /\ At(i, "page")
    /\ LET ues  == Assembled(now.tti)
           pcch == ues # {} /\ Room(0)
           left == Used(IF pcch THEN 1 ELSE 0)
       IN /\ pending' = pending \ ues
          /\ bitBuf' = IF ues = {} THEN bitBuf ELSE ues
          /\ inflight' = [inflight EXCEPT ![i].pc = "read", ![i].ues = ues, ![i].pcch = pcch]
          /\ \E rbg \in 0 .. left.rbg, dci \in 0 .. left.dci :
                now' = [left EXCEPT !.rbg = rbg, !.dci = dci]
    /\ UNCHANGED <<tti, payload, sibs, mbms>>

\* The rest of get_dl_sched: the PCCH message is copied into MAC's buffer (read_pdu_pcch).
GetDlSched(i) ==
    /\ At(i, "read")
    /\ payload' = IF inflight[i].pcch THEN bitBuf ELSE payload
    /\ Goto(i, "ul")
    /\ UNCHANGED <<tti, pending, bitBuf, now, sibs, mbms>>

\* work_imp encodes what the grants point to; the subframes end in order (worker_end).
Encode(i) ==
    /\ At(i, "encode")
    /\ LET fs  == [inflight EXCEPT ![i].pc = "end"]
           run == {k \in DOMAIN fs : fs[k].pc # "end"}
       IN inflight' = IF run = {} THEN << >> ELSE SubSeq(fs, Min(run), Len(fs))
    /\ UNCHANGED <<tti, paging, now, sibs, mbms>>

-----------------------------------------------------------------------------
(* MBMS: get_mch_sched.                                                    *)

\* The running sums of the loops over the sessions.
Sums(f) ==
    LET sum[k \in Sessions] == IF k = 0 THEN f[0] ELSE sum[k - 1] + f[k]
    IN sum

Total(bytes) == Sums(bytes)[NofSessions - 1]

StopsBug(bytes) ==
    [k \in Sessions |-> (bytes[k] + BytesPerSf - 1) \div BytesPerSf]

\* build_mch_sched: the last subframe of each session. When the data does not fit the
\* share of a session is an integer division, 0 unless one session has all the data.
Stops(bytes) ==
    LET total == Total(bytes)
        share(k) == IF total >= SfAllocEnd * BytesPerSf
                    THEN SfAllocEnd * (bytes[k] \div total)
                    ELSE (bytes[k] + BytesPerSf - 1) \div BytesPerSf
    IN Sums([k \in Sessions |-> share(k)])

Scheduled(i, m) ==
    /\ mch' = m
    /\ Goto(i, "ul")
    /\ UNCHANGED <<tti, paging, now, sibs>>

GetMcch(i) ==
    /\ At(i, "sched") /\ IsMcch(inflight[i].t)
    /\ \E bytes \in [Sessions -> Backlogs] :
         /\ Scheduled(i, [stop |-> Stops(bytes), cur |-> 1])
         /\ fits' = IF Total(bytes) < SfAllocEnd * BytesPerSf
                    THEN {k \in Sessions : bytes[k] > 0} ELSE {}
    /\ served' = {}

\* The first session that has not stopped is read; after the last one nothing is sent.
GetMch(i) ==
    /\ At(i, "sched") /\ IsMch(inflight[i].t) /\ ~IsMcch(inflight[i].t)
    /\ Scheduled(i, [mch EXCEPT !.cur = @ + 1])
    /\ LET open == {k \in Sessions : mch.cur <= mch.stop[k]}
       IN served' = IF mch.cur <= mch.stop[NofSessions - 1] THEN served \union {Min(open)}
                    ELSE served
    /\ UNCHANGED fits

-----------------------------------------------------------------------------
Worker(i) ==
    \/ EnterDl(i) \/ SiWindows(i) \/ SiMessages(i) \/ Paging(i) \/ GetDlSched(i)
    \/ GetMcch(i) \/ GetMch(i) \/ EnterUl(i) \/ UlSched(i) \/ Encode(i)

Next ==
    \/ Dispatch
    \/ \E u \in UeIds : AddPagingId(u)
    \/ \E i \in 1 .. NofWorkers : Worker(i)

\* Subframes keep coming and a worker finishes the one it has: it waits for sched_mutex only,
\* whose holder goes on, and the receive thread for the worker whose turn it is.
Spec == Init /\ [][Next]_vars /\ WF_vars(Dispatch \/ \E i \in 1 .. NofWorkers : Worker(i))

-----------------------------------------------------------------------------
(* Properties.                                                             *)

\* "Described in Section 7 of 36.304" (rrc.cc:394): a page is sent in the paging occasion of its
\* user, the only subframe in which the user listens. RRC chooses the pages for current_tti, and
\* what it packs waits in a buffer that all workers share until it is encoded.
PagedAtOccasion ==
    \A i \in DOMAIN inflight :
        inflight[i].pc = "encode" /\ inflight[i].pcch => \A u \in payload : Occasion(u, inflight[i].t)

\* A page is sent: RRC forgets it before the scheduler has room for it, and is not asked again.
PagesSent ==
    \A u \in UeIds : u \in pending ~>
        \E i \in 1 .. NofWorkers : At(i, "encode") /\ inflight[i].pcch /\ u \in payload

\* When the window of an SI message is closed the message has been sent as often as the length
\* of the window asks for (dl_sched_bc counts what has had a group and a DCI, and only the
\* subframes 9 of the window are tried).
SiSent == [][\A k \in Sibs : sibs[k].on /\ ~sibs'[k].on => sibs[k].n = NofTx]_vars

\* When all the data that RLC has at an MCCH fits into the period every session that has some
\* is read before the next MCCH.
SessionsServed ==
    [][\A i \in 1 .. NofWorkers : GetMcch(i) => fits \subseteq served]_vars

=============================================================================
