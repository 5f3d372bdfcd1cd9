---------------------------- MODULE RandomAccess ----------------------------
(***************************************************************************)
(* Random access up to the grant of message 3. txrx gives the subframes of *)
(* PRACH opportunities to the PRACH thread; for every preamble it detects, *)
(* mac::rach_detected stores the request in mac::pending_rars and then in  *)
(* sched::pending_rar. Once per TTI a PHY worker                           *)
(*   "dl"   runs sched::dl_sched_rar, which answers or discards requests   *)
(*          and reserves message 3 (sched::pending_msg3),                  *)
(*   "rar"  assembles the random access responses (mac::assemble_rar),     *)
(*   "ul"   uses up the message 3 of the uplink TTI (sched::ul_sched);     *)
(* "rx" stands for the next subframe. The PRACH thread is asynchronous: a  *)
(* request may be stored at any later time, between any two of these.      *)
(*                                                                         *)
(* Abstracted: preamble and timing advance (they go with the temporary     *)
(* RNTI), the number of resource block groups (a request finds room or     *)
(* not), DCI placement (a free choice), users (registering one changes     *)
(* nothing here; the user of a message 3 exists).                          *)
(***************************************************************************)
EXTENDS Integers, Sequences, SequencesExt, FiniteSets, FiniteSetsExt

CONSTANTS
    TtiMod,       \* TTIs per hyperframe, 10240 in the code
    HarqDelay,    \* HARQ_DELAY_MS of the srslte library, 4
    Msg3Delay,    \* MSG3_DELAY_MS of the srslte library, 2
    SlotMod,      \* slots of pending_msg3, 10
    Lead,         \* TTIs from the preamble to the first possible answer, 3
    Window,       \* cell_cfg_t::prach_rar_window
    PrachTtis,    \* TTIs that are PRACH opportunities
    MaxPreambles, \* bound on the preambles detected in one opportunity
    NofBuffers,   \* buffers of the PRACH thread, 8
    MaxRars,      \* MAX_PENDING_RARS, 64
    MaxPending,   \* SCHED_MAX_PENDING_RAR, 8
    NofRntis,     \* RNTIs from 70 to 59999
    BusyTtis,     \* TTIs whose system information may leave no room for every response
    MaxLag        \* bound on the TTIs the PRACH thread is behind the receiver

ASSUME RaConstantsOK ==
    /\ TtiMod \in Nat \ {0} /\ HarqDelay \in Nat /\ Msg3Delay \in Nat /\ SlotMod \in Nat \ {0}
    /\ Lead \in Nat /\ Window \in Nat /\ PrachTtis \subseteq 0 .. TtiMod - 1
    /\ MaxPreambles \in Nat /\ NofBuffers \in Nat \ {0}
    /\ MaxRars \in Nat \ {0} /\ MaxPending \in Nat \ {0} /\ NofRntis \in Nat \ {0}
    /\ BusyTtis \subseteq 0 .. TtiMod - 1 /\ MaxLag \in Nat

VARIABLES
    tti,      \* TTI of the last received subframe
    pc,       \* progress of its worker
    buffers,  \* prach_worker::pending_buffers, the TTI of each
    prach,    \* the PRACH thread: the buffer it works on, preambles left, slot found
    lastRnti, \* mac::last_rnti
    rars,     \* mac::pending_rars: temp_crnti, NoRnti when free
    pend,     \* sched::pending_rar
    msg3,     \* sched::pending_msg3
    granted,  \* the RARs scheduled in this TTI, to be assembled
    sent,     \* history: the RARs assembled in this TTI
    due       \* history: the RNTIs that were told to send message 3, per slot

vars == <<tti, pc, buffers, prach, lastRnti, rars, pend, msg3, granted, sent, due>>
worker == <<granted, sent, msg3, due>>

Ttis    == 0 .. TtiMod - 1
Rntis   == 1 .. NofRntis
NoRnti  == 0
Indices == 0 .. MaxPending - 1
Slots   == 0 .. SlotMod - 1

TtiAdd(t, d) == (t + d) % TtiMod
Age(t, n)    == (t + TtiMod - n) % TtiMod

\* buf_rar is positive exactly when the request is pending ("on").
Requests == [on : BOOLEAN, ra_id : 0 .. MaxRars - 1, rnti : Rntis \cup {NoRnti}, tti : Ttis]
NoRequest == [on |-> FALSE, ra_id |-> 0, rnti |-> NoRnti, tti |-> 0]
NoMsg3 == [enabled |-> FALSE, rnti |-> NoRnti]
Idle == [busy |-> FALSE, tti |-> 0, left |-> 0, ra_id |-> MaxRars]

Init ==
    /\ tti \in Ttis /\ pc = "rx"
    /\ buffers = << >> /\ prach = Idle
    /\ lastRnti = 1
    /\ rars = [k \in 0 .. MaxRars - 1 |-> NoRnti]
    /\ pend = [j \in Indices |-> NoRequest]
    /\ msg3 = [s \in Slots |-> NoMsg3]
    /\ granted = << >> /\ sent = {}
    /\ due = [s \in Slots |-> {}]

-----------------------------------------------------------------------------
(* The PRACH thread                                                        *)

\* The preambles that the PRACH thread has not dealt with.
Late == ToSet(buffers) \cup (IF prach.busy THEN {prach.tti} ELSE {})

\* txrx starts the worker of the next subframe; prach_worker::new_tti keeps the subframe if it is an
\* opportunity and a buffer is free. The first conjunct of the guard is the bound MaxLag.
Receive ==
    /\ \A n \in Late : Age(tti, n) < MaxLag
    /\ pc = "rx"
    /\ tti' = TtiAdd(tti, 1)
    /\ pc' = "dl"
    /\ buffers' = IF tti' \in PrachTtis /\ Len(buffers) + (IF prach.busy THEN 1 ELSE 0) < NofBuffers
                  THEN Append(buffers, tti') ELSE buffers
    /\ sent' = {}
    /\ UNCHANGED <<prach, lastRnti, rars, pend, msg3, granted, due>>

\* run_tti: the preambles of the next buffer.
Detect ==
    /\ ~prach.busy /\ buffers # << >>
    /\ \E n \in 0 .. MaxPreambles :
         prach' = [busy |-> TRUE, tti |-> Head(buffers), left |-> n, ra_id |-> MaxRars]
    /\ buffers' = Tail(buffers)
    /\ UNCHANGED <<tti, pc, lastRnti, rars, pend, worker>>

\* rach_detected: the search stops at the last slot without testing it.
FreeRar == CHOOSE k \in 0 .. MaxRars - 1 :
              /\ \A l \in 0 .. k - 1 : rars[l] # NoRnti
              /\ rars[k] = NoRnti \/ k = MaxRars - 1

\* rach_detected: the user's RA information.
SaveRar ==
    /\ prach.left > 0 /\ prach.ra_id = MaxRars
    /\ rars' = [rars EXCEPT ![FreeRar] = lastRnti]
    /\ prach' = [prach EXCEPT !.ra_id = FreeRar]
    /\ UNCHANGED <<tti, pc, buffers, lastRnti, pend, worker>>

\* Variants named ...Bug are the definitions that follow them with a plausible mistake.
AddRequestBug(request) ==
    IF \E j \in Indices : ~pend[j].on
    THEN pend' = [pend EXCEPT ![CHOOSE j \in Indices : ~pend[j].on] =
                                  [request EXCEPT !.rnti = IF @ = NofRntis THEN 1 ELSE @ + 1]]
    ELSE UNCHANGED pend

\* dl_rach_info: the first free slot, or nothing (the caller ignores the failure).
AddRequest(request) ==
    IF \E j \in Indices : ~pend[j].on
    THEN pend' = [pend EXCEPT ![CHOOSE j \in Indices : /\ ~pend[j].on
                                                       /\ \A l \in 0 .. j - 1 : pend[l].on] = request]
    ELSE UNCHANGED pend

\* rach_detected: the scheduler is told and the next RNTI chosen.
TriggerRach ==
    /\ prach.ra_id # MaxRars
    /\ AddRequest([on |-> TRUE, ra_id |-> prach.ra_id, rnti |-> lastRnti, tti |-> prach.tti])
    /\ lastRnti' = IF lastRnti = NofRntis THEN 1 ELSE lastRnti + 1
    /\ prach' = [prach EXCEPT !.ra_id = MaxRars, !.left = @ - 1]
    /\ UNCHANGED <<tti, pc, buffers, rars, worker>>

\* run_thread gives the buffer back.
BufferDone ==
    /\ prach.busy /\ prach.left = 0
    /\ prach' = Idle
    /\ UNCHANGED <<tti, pc, buffers, lastRnti, rars, pend, worker>>

-----------------------------------------------------------------------------
(* sched::dl_sched_rar                                                     *)

InWindowBug(n, t) == t >= n + Lead

InWindowShort(n, t) == t <= (n + Window) % TtiMod /\ t >= n + Lead

InWindow(n, t) == t <= (n + Window + Lead) % TtiMod /\ t >= n + Lead

DiscardBug(st, i) == st

Discard(st, i) == [st EXCEPT !.pend[i].on = FALSE, !.pend[i].tti = 0]

Msg3SlotBug(t) == (t + HarqDelay) % SlotMod

\* The entry of pending_msg3 for the message 3 of a response sent in TTI t.
Msg3Slot(t) == (t + Msg3Delay + HarqDelay) % SlotMod

\* The requests of one TTI (and the free slots that hold the same TTI) are counted, the first
\* is answered.
Answer(st, i, t) ==
    LET group == {j \in Indices : st.pend[j].tti = st.pend[i].tti}
        first == st.pend[Min(group)]
    IN  [pend |-> [st.pend EXCEPT ![Min(group)].on = FALSE, ![Min(group)].tti = 0],
         msg3 |-> [st.msg3 EXCEPT ![Msg3Slot(t)] = [enabled |-> TRUE, rnti |-> first.rnti]],
         list |-> Append(st.list, [ra_id |-> first.ra_id, rnti |-> first.rnti,
                                   tti |-> st.pend[i].tti, n |-> Cardinality(group)])]

VisitBug(st, i, t, room, dci) ==
    IF ~room THEN st
    ELSE IF ~InWindow(st.pend[i].tti, t) THEN Discard(st, i)
    ELSE IF dci THEN Answer(st, i, t) ELSE st

\* One iteration of the outer loop; "room": enough resource blocks are left, "dci": so is a DCI.
Visit(st, i, t, room, dci) ==
    IF ~st.pend[i].on \/ ~room THEN st
    ELSE IF ~InWindow(st.pend[i].tti, t) THEN Discard(st, i)
    ELSE IF dci THEN Answer(st, i, t) ELSE st

\* The whole loop: the first "room" slots find resource blocks, those of "dci" a DCI.
Visited(t, room, dci) ==
    LET after[k \in 0 .. MaxPending] ==
          IF k = 0 THEN [pend |-> pend, msg3 |-> msg3, list |-> << >>]
          ELSE Visit(after[k - 1], k - 1, t, k <= room, k - 1 \in dci)
    IN  after[MaxPending]

\* Outside BusyTtis there is room for every response.
DlSchedRar ==
    /\ pc = "dl"
    /\ \E room \in 0 .. MaxPending, dci \in SUBSET Indices :
         LET t == TtiAdd(tti, HarqDelay)
             st == Visited(t, room, dci)
         IN  /\ t \in BusyTtis \/ (room = MaxPending /\ dci = Indices)
             /\ pend' = st.pend /\ msg3' = st.msg3 /\ granted' = st.list
    /\ pc' = "rar"
    /\ UNCHANGED <<tti, buffers, prach, lastRnti, rars, sent, due>>

\* A RAR of more than one grant has blank ones after the first, of ra_id 0 ("blank": they are packed
\* if the PDU has room).
Blank(rar, blank) == rar.n > 1 /\ blank

\* mac::assemble_rar: the identity is looked up under ra_id and its slot is freed. The UE sends
\* message 3 six subframes later.
AssembleRar ==
    /\ pc = "rar" /\ granted # << >>
    /\ LET rar == Head(granted)
           s == (TtiAdd(tti, HarqDelay) + 6) % SlotMod
       IN  /\ sent' = sent \cup {[rnti |-> rar.rnti, crnti |-> rars[rar.ra_id], tti |-> rar.tti]}
           /\ due' = [due EXCEPT ![s] = @ \cup {rars[rar.ra_id]}]
           /\ \E blank \in BOOLEAN :
                rars' = [k \in DOMAIN rars |->
                           IF k = rar.ra_id \/ (k = 0 /\ Blank(rar, blank)) THEN NoRnti ELSE rars[k]]
    /\ granted' = Tail(granted)
    /\ UNCHANGED <<tti, pc, buffers, prach, lastRnti, pend, msg3>>

Assembled ==
    /\ pc = "rar" /\ granted = << >>
    /\ pc' = "ul"
    /\ UNCHANGED <<tti, buffers, prach, lastRnti, rars, pend, worker>>

\* ul_sched: the message 3 of the TTI is scheduled.
UlSched ==
    /\ pc = "ul"
    /\ LET s == TtiAdd(tti, 2 * HarqDelay) % SlotMod
       IN  /\ msg3' = [msg3 EXCEPT ![s].enabled = FALSE]
           /\ due' = [due EXCEPT ![s] = {}]
    /\ pc' = "rx"
    /\ UNCHANGED <<tti, buffers, prach, lastRnti, rars, pend, granted, sent>>

Worker == Receive \/ DlSchedRar \/ AssembleRar \/ Assembled \/ UlSched
Prach  == Detect \/ SaveRar \/ TriggerRach \/ BufferDone

Next == Worker \/ Prach

\* The worker and the PRACH thread run.
Fairness == WF_vars(Worker) /\ WF_vars(Prach)

Spec == Init /\ [][Next]_vars /\ Fairness

-----------------------------------------------------------------------------
(* Properties                                                              *)

\* Types.
TypeOK ==
    /\ tti \in Ttis /\ pc \in {"rx", "dl", "rar", "ul"}
    /\ buffers \in Seq(PrachTtis) /\ Len(buffers) <= NofBuffers
    /\ prach \in [busy : BOOLEAN, tti : Ttis, left : 0 .. MaxPreambles, ra_id : 0 .. MaxRars]
    /\ lastRnti \in Rntis
    /\ rars \in [0 .. MaxRars - 1 -> Rntis \cup {NoRnti}]
    /\ pend \in [Indices -> Requests]
    /\ msg3 \in [Slots -> [enabled : BOOLEAN, rnti : Rntis \cup {NoRnti}]]
    /\ due \in [Slots -> SUBSET (Rntis \cup {NoRnti})]

\* A response is sent within the RAR window of its preamble and never before it: the UE
\* listens only then (the window test of dl_sched_rar, made on wrapping TTIs for requests that
\* the PRACH thread stores late and that wait for room).
AnsweredInWindow ==
    \A r \in sent : Age(TtiAdd(tti, HarqDelay), r.tti) \in Lead .. Lead + Window

\* A response carries the temporary RNTI (and with it preamble and timing advance) of the
\* request it was scheduled for: mac and sched keep the two halves in tables linked by ra_id,
\* filled by one thread and emptied by another (rach_detected, assemble_rar).
RarIdentity == \A r \in sent : r.crnti = r.rnti

\* The same of a response on its way to assemble_rar, whatever other requests are pending: its
\* entry of pending_rars still holds its RNTI. The last entry may be overwritten (the search for
\* a free one in rach_detected stops there without a test), the first be freed by the blank grants
\* of another response (when an opportunity has several preambles).
EntryKept ==
    \A k \in DOMAIN granted :
        LET e == granted[k].ra_id
        IN  e # MaxRars - 1 /\ (e = 0 => MaxPreambles < 2) => rars[e] = granted[k].rnti

\* A TTI is reserved for a message 3 from the response that asks for it until ul_sched comes to
\* it, and no other TTI is: dl_sched_rar writes the slots of pending_msg3 ahead of the one that
\* ul_sched uses up, and they are used again after SlotMod TTIs.
Msg3Matched ==
    \A s \in Slots : msg3[s].enabled <=>
        due[s] # {} \/ (granted # << >> /\ s = Msg3Slot(TtiAdd(tti, HarqDelay)))

\* "Save UL resources" (scheduler.cc:634): every UE that was told to send message 3 in a TTI is
\* the one the TTI is reserved for (pending_msg3 has one entry per TTI).
Msg3Reserved ==
    \A s \in Slots : \A r \in due[s] : msg3[s] = [enabled |-> TRUE, rnti |-> r]

\* A response goes to a request that is pending when it is scheduled ("Find all pending RARs with
\* same transmission TTI", scheduler.cc:613), not to one answered before.
AnswersPending ==
    [][\A k \in DOMAIN granted' \ DOMAIN granted :
          \E j \in Indices : pend[j].on /\ pend[j].rnti = granted'[k].rnti]_vars

\* A request is answered or discarded: its slot is free again.
RequestEnds == \A j \in Indices : pend[j].on ~> ~pend[j].on

\* dl_sched_rar frees the slot of request j without an answer to it.
GivenUp(j) ==
    pend[j].on /\ ~pend'[j].on /\ \A k \in DOMAIN granted' : granted'[k].rnti # pend[j].rnti

\* "Check if we are still within the RAR window, otherwise discard it" (scheduler.cc:607): a
\* request is given up only when its window has passed.
DiscardedAfterWindow ==
    [][\A j \in Indices :
         GivenUp(j) => Age(TtiAdd(tti, HarqDelay), pend[j].tti) > Lead + Window]_vars

\* The same of the requests that can be answered at all: those whose window ends before the
\* TTIs start again at 0, where the comparison of dl_sched_rar does not hold.
KeptInWindow ==
    [][\A j \in Indices :
         GivenUp(j) => \/ Age(TtiAdd(tti, HarqDelay), pend[j].tti) > Lead + Window
                       \/ pend[j].tti + Lead + Window >= TtiMod]_vars
=============================================================================
