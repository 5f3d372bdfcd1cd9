# srsENB in TLA+

A verification project for srsENB, the LTE eNodeB under `src/srsenb`: TLA+ modules of its
protocol logic, TLC runs on small instances, and theorems proved with TLAPS for every value of
the constants. `PROJECT.json` is the index: components, runs, the source lines each definition
stands for, hazards, findings and theorems. Paths below are relative to `src/srsenb/src`.

## The system

| component | state | operations | called by |
|---|---|---|---|
| PHY workers (`phy/txrx`, `phch_worker`, `phch_common`) | the subframe in work, feedback flags `pending_ack[TTI%10]`, uplink grants, one semaphore per worker | receive a subframe, decode, run the schedulers, encode, transmit in order, stop | one radio thread, `nof_phy_threads` workers |
| PRACH (`phy/prach_worker`) | buffers of PRACH subframes | keep, detect, report to MAC | radio thread, its own thread |
| Scheduler (`mac/scheduler*`) | users, HARQ processes, pending SIBs, RARs and messages 3, `current_tti` | `dl_sched`, `ul_sched`, feedback, buffer reports, configuration | PHY workers, PRACH, RLC, RRC |
| MAC (`mac/mac`, `mac/ue`) | users, pending RAR identities, softbuffers, PDU queues | `rach_detected`, `ack_info`, `crc_info`, `ue_cfg`, `ue_rem`, PDU thread | PHY workers, PRACH, RRC |
| RRC (`upper/rrc`) | users and their state, PUCCH resources, paging | connection, reconfiguration, release, inactivity | its queue thread, MAC, S1AP |
| S1AP (`upper/s1ap`) | contexts by RNTI and eNodeB id, the MME connection | NAS transport, context setup and release, E-RABs | receive thread, RRC |
| RLC, PDCP, GTP-U (`upper`) | bearers of each user, tunnels | add and remove users and bearers, data | RRC, MAC, network thread |
| MBMS (`phy/phch_common`, `mac/mac`) | subframe tables, the MCH allocation of the period | `get_sf_config`, `get_mch_sched` | PHY workers |
| Configuration, metrics, signal processing, MATLAB scripts | - | - | - |

How they interact. The radio thread gives each received subframe to an idle worker. The worker of
TTI n decodes what arrived in n and reports feedback, CRCs and scheduling requests to the
scheduler, then runs `dl_sched` for n+4 and `ul_sched` for n+8, encodes, and transmits when its
turn comes. RLC reports queue sizes, RRC adds, configures and removes users, both through MAC
and at any time. S1AP and RRC call each other directly, from two threads.

What is hard here: several workers share the scheduler, and `sched_mutex` is taken after the
shared TTI was written; what a worker decides is answered 8 subframes later by another one; TTIs
wrap after 10240; feedback, CRCs, DCIs and resource blocks may be missing in any subframe; a
request is spread over tables of two classes; the PRACH thread is as late as it likes; the stop
meets workers at every point.

What makes each part correct:

- HARQ, both directions: stop-and-wait. A block in flight is left alone until its feedback is
  due; a block is retransmitted only when it was lost, and not for ever; feedback reaches the
  process it belongs to; nothing stays blocked.
- PHY pipeline: subframes are transmitted in the order of reception, every subframe ends, the stop
  returns.
- Random access: a response is sent in its window, to a request that is pending, with that
  request's identity; message 3 is reserved for exactly one UE; each request ends.
- PUCCH resources: no two users share one; a released one can be given again.
- MAC PDU thread: every PDU is processed, once, and its buffer given back.
- User lifecycle: RRC, S1AP, MAC, RLC, PDCP and GTP-U agree on who exists; a release ends in all
  of them whatever crosses it.
- Broadcast: a page reaches the air in its user's occasion, in the message of that subframe; an
  SI window holds its transmissions; MBMS sessions that fit are served.
- Resource allocation: no two allocations of a subframe overlap.

`PROJECT.json` lists the hazards with their lines.

## Modules

| module | models | state and actions |
|---|---|---|
| `HarqAbs` | what HARQ promises | one record per block: idle, sent or nacked, and its count |
| `DlHarq` | downlink HARQ of one user under the workers | `scheduler_harq.cc`, `scheduler_ue.cc`, the downlink metric, `dl_sched_data`, the feedback flags of `phch_common` |
| `MCDlHarq` | instances of `DlHarq` | constants and their proportions |
| `DlHarqProofs` | theorems about `DlHarq` | - |
| `UlHarq` | uplink HARQ of one user under the workers | `decode_pusch`, `decode_pucch`, `ul_sched`, the uplink metric, PHICH, message 3 |
| `UlHarqProofs` | theorems about `UlHarq` | - |
| `PhyPipeline` | worker pool, transmission chain, start and stop | `txrx`, `work_imp`, `worker_end`, `phy::stop` |
| `PhyProofs` | theorems about `PhyPipeline` | - |
| `RandomAccess` | random access up to the grant of message 3 | `prach_worker`, `rach_detected`, `dl_rach_info`, `dl_sched_rar`, `assemble_rar` |
| `RaProofs` | theorems about `RandomAccess` | - |
| `UserLifecycle` | one user after the other through RRC, S1AP, MAC, RLC, PDCP and GTP-U | `rrc.cc`, `s1ap.cc`, `gtpu.cc`, `rlc.cc`, `pdcp.cc`, the user maps of `mac.cc` |
| `UserProofs` | theorems about `UserLifecycle` | - |
| `PucchAlloc` | the counters from which RRC derives PUCCH resources | `sr_allocate`, `cqi_allocate`, `sr_free`, `cqi_free`, the set-up and removal that call them |
| `RrcProofs` | theorems about `DlBroadcast` and `PucchAlloc` | - |
| `ModArith` | lemmas about remainders, for circles of TTIs and semaphores; products; induction as a least number | - |
| `PduProcess` | an uplink PDU from its grant to RLC | `get_ul_sched`, `decode_pusch`, `crc_info`, `ue.cc`'s buffers, the PDU thread, `ue_rem`, `stop` |
| `PduProofs` | theorems about `PduProcess` | - |
| `DlBroadcast`, `MCDlBroadcast` | system information, paging, MBMS | `dl_sched_bc`, `is_paging_opportunity`, `get_dl_sched`, `get_mch_sched`, `get_sf_config` |

Definitions named `...Bug` (and `InWindowShort`) are the definitions that follow them with a
plausible mistake. Each property of a passing run is violated when one of them takes the place of
the right one; `PROJECT.json` says which ("mutants").

### DlHarq

`workers` is the sequence of subframes being processed, oldest first; each has a program counter.
One action per step between two shared accesses: the feedback of the subframe (`decode`),
the entry of `dl_sched` that stores the shared `current_tti` without a lock (`enter`), the metric
(`select`) and the loop body of `dl_sched_data` (`generate`) under `sched_mutex`, the entry of
`ul_sched`, which overwrites `current_tti` (`ul`), the arming of the feedback flag (`send`), and the
end in TTI order. Buffer reports, rank reports, the end of the dedicated configuration and
a reconfiguration interleave with all of them. `sent` is a history variable. Whether resource
blocks and a DCI location are found is a free choice, so every allocation may fail.

`StopAndWait` is the refinement of `HarqAbs`, with a process's block mapped to idle
(`is_empty`), nacked (feedback received) or sent.

### UlHarq

The same pipeline for the synchronous uplink: CRC or scheduling request (`decode`), the
announcement of a message 3 (`dl`), the unlocked store of `current_tti` (`enter`), PHICH
(`phich`) and the loop over new grants, retransmissions and message 3 with the update of the data
in flight (`grant`). It refines `HarqAbs` too, one block per process.

### PhyPipeline

The workers in use, the semaphores, `is_first_tx` read and cleared without a lock (two actions),
the error exit of `work_imp`, and `phy::stop` step by step: join the radio thread, clear
`running`, take the mutex and free the buffers of each worker, post every semaphore, join the
pool. `EarlyRadio` lets subframes arrive before MAC and RRC are initialised, which is what
`enb::init` does: `phy::init` starts the radio thread before `mac::init` and `rrc::init`. `Spaced`
says that the first subframe reaches `worker_end` before the second: it has a millisecond for that.

### RandomAccess

Two tables (`rars`, `pend`) linked by `ra_id`, filled by the PRACH thread in two steps and emptied
by a worker in two others. The window test is the code's, wrapping where it wraps. `msg3`
is `pending_msg3`; `due` is a history variable, the UEs that were told to use each entry.

One worker after the other calls the scheduler here: with several, `dl_sched_rar` reads the `current_tti`
of another subframe as `dl_sched_bc` and `dl_sched_data` do, which `DlBroadcast` and `DlHarq` model. What this
module shows, it shows of an eNodeB with one PHY worker and a PRACH thread that interleaves with it.

### UserLifecycle

Five threads (PRACH worker, MAC's PDU thread, RRC's queue thread, activity monitor, S1AP thread) act
on the maps of six layers; each map is a function whose domain is the set of its keys, and each call on
an unlocked map is a step. `user_mutex` and MAC's read-write lock are modelled where they are held
across calls. `mme` and `air` are the environment: what the MME believes, and the messages a UE has not
answered yet, which may come back in any order or not at all.

Abstractions. An RNTI is used once. A deadline of `is_timeout` may pass at any round of the monitor.
PHY follows the scheduler and PDCP follows RLC, which the same callers create and remove. The user of
the MBMS RNTI is left out. The S1AP PDU that is passed on after a reconnection is empty or stale;
the (external) decoder is taken to refuse it. A receive error of -1 is not seen by the code either,
since the length is unsigned. The MME forgets its contexts when the link is lost.

What the module shows besides its properties: a release command by MME identifier finds RNTI 0, because
`ue_ctxt_t.rnti` is never assigned, and leaves the context behind; blank contexts made by `operator[]`
may remain in S1AP; `rnti_bearers` of GTP-U can get a blank entry for a user that has gone. The
properties allow these leftovers: they hold no user.

### PucchAlloc

A step is a whole handler of the RRC thread. RRC keeps the number of users of each slot and derives the
resource from it; `pos` is that number at the time of the placement. `lost` and `freed` are history.
`CollisionsExplained` says exactly when two users share a resource: after somebody left the slot (the
next one is placed by the counter alone), or when one of them is the user too many that `>` lets in
where `>=` is meant. `I_sr` and `pmi_idx`, functions of the subframe alone, are left out.

### PduProcess

Workers overlap; each decodes the grants of its subframe, reports the CRC, schedules, and writes the
grants of 8 subframes later into the ring `ul_grants`. A buffer of the user's pool is free, requested
for a grant (`pending`) or queued. The PDU thread's flag is set under the mutex and overwritten
without it. `ue_rem` goes through the scheduler, the workers one by one, and MAC's map. `slow` and the
ages are history: they say how many subframes a removal or a parse has taken.

Two properties hold only by timing, and say so. `process_pdu` gives a buffer back and reads it
afterwards (`ReadInTime`), and a worker that `rem_rnti` has passed may decode a grant of one it has
not (`DecodesIntoOwn`): both are safe as long as the removal or the parse takes less than
`RoundTrip` subframes. `WorkersOK` is an assumption the program does not check: the ring has
10 slots and grants are written 8 ahead, so more than 2 workers overwrite grants that are being read
(2 is the default of `nof_phy_threads`, `enb.conf.example:146`).
`StopReturns` excuses a thread that has just passed its test of `running`: `mac::stop` then waits for it
with the write lock that it needs.

Left out: error exits of `work_imp` (`PhyPipeline`), conversions of DCIs that fail, the second deletion
of a user whose removal the stop has overtaken, and soft buffers.

### DlBroadcast

The subframe variables of the scheduler (`current_tti`, `sfn`, `sf_idx`, `avail_rbg` and what is free of
`used_cce`) are one variable, `now`, that all workers share. A worker stores its subframe there when it
enters `dl_sched` (`EnterDl`) and the uplink's when it enters `ul_sched` (`EnterUl`), both before
`sched_mutex`; under the mutex come the windows (`SiWindows`), the SI messages (`SiMessages`), and
paging with the responses and data after it (`Paging`), each working on what `now` holds by then. Without the mutex
it copies the PCCH message (`GetDlSched`) and encodes (`Encode`). RRC removes users
from `pending_paging` when it assembles their message, before the scheduler knows whether there are
groups and CCEs for it; the message lies in RRC's `bit_buf_paging` and then in MAC's
`pcch_payload_buffer`, shared by all subframes. In MBSFN subframes `get_mch_sched`, which uses its own TTI,
divides the period's subframes among the sessions. `Room` counts a DCI's CCEs as a number of DCIs. `fits`
and `served` are history.

With two workers, the default of `nof_phy_threads` (`enb.conf.example:146`), one worker's entry changes the
subframe another one schedules for. A page then goes out in a subframe that is not its occasion
(`PagedAtOccasion` fails), or RRC packs a second message over one that has not been encoded; a subframe 9 is taken for another one and an SI window
closes without a transmission (`SiSent` fails). `PagesSent` and `SiSent`, and the theorem about `SiSent`,
are therefore about an eNodeB of **one PHY worker**, and so is the run. `SessionsServed` does not depend on these variables:
its theorem is about up to four workers.

The instance is a cell of 15 PRB with nB = 2T, where a page and the SI message share subframe 9. What its
constants exclude besides a second worker, and what happens there: with 6 PRB (`NofRbg = 6`, `SiRbg = 4`) there is no room for
both and the page is lost (`PagesSent` fails); a window of 1, 2, 5 or 15 ms holds fewer subframes 9 than it has transmissions
(`SiSent` fails). With `SfAllocEnd` equal to all MCH subframes of the period (`64*6` in
`rrc.cc:746`) and two sessions whose data just fits, the subframe of the MCCH and the rounding leave the last session
none (`SessionsServed` fails). The theorems name these conditions (below).
Left out: `start_rbg`, which another worker's `dl_sched` resets like `avail_rbg`, so that two allocations of a
subframe may overlap; MBSFN allocations of four frames; the set-up of MBMS (`write_mcch`); and two workers
inside `get_mch_sched`, which has no lock: each call is one step here, in any order of the workers.

## Runs

| run | instance | shows |
|---|---|---|
| `dl_single` | 1 worker, 2 processes, 1 block | `InFlightKept`, `NoEarlyReuse` under any loss, `BlockedPidFreed` although allocations and feedback fail for ever |
| `dl_workers` | 2 workers, 1 process, reconfigurations | `RetxBound`, stop-and-wait, and how far the race on `current_tti` can carry a grant from its subframe (`GrantTtiNear`) |
| `dl_mimo` | 2 blocks, rank changes | `NackedHasRetxLeft`, stop-and-wait with formats 1 and 2 |
| `ul_harq` | 1 worker, 2 processes, message 3, reconfigurations | `PhichAnswers`, `RetxOnlyIfNacked`, `OldDataInFlight`, `SrAnswered`, stop-and-wait |
| `phy_pipeline` | 3 workers, start after initialisation, stop anywhere | `TransmitInOrder`, `OnePermit`, `SubframeEnds`, `StopReturns` |
| `ra_crowded` | 1 worker, opportunities in successive TTIs, so that two responses share a TTI, and one whose window ends in the next hyperframe | `AnsweredInWindow`, `Msg3Matched`, `EntryKept`, `AnswersPending`, `KeptInWindow`, `RequestEnds` |
| `user_lifecycle` | 2 users, 1 connects, 1 further event (data, failure, second bearer, loss of the MME) | `LayersAgree`, `RegisteredIsComplete`, `NoConnectedOrphan`, `EveryUserLeaves` |
| `pucch` | 5 users, 2 PRBs for SR, 2 subframes for CQI, 1 user per slot | `CountsMatch`, `CollisionsExplained`, `HeldByUsers` |
| `pdu` | 2 workers, 1 user with 2 buffers, removal and stop anywhere | `OneOwner`, `DecodesIntoOwn`, `ReadInTime`, `QueuedIsRead`, `StopReturns` |
| `dl_broadcast` | 1 worker, SIB1 and an SI message, 2 users paged, 2 MBMS sessions | `PagesSent`, `SiSent`, `SessionsServed` |

Two runs are findings: TLC finds the property violated, and `PROJECT.json` quotes the line it contradicts.

| run | what happens |
|---|---|
| `user_locks` | the PDU thread waits for `user_mutex` in `upd_user` with MAC's read lock, the RRC thread for the write lock in `ue_rem` with `user_mutex`: `UpdUserReturns` fails |
| `ra_wrap` | one opportunity per frame: a request whose window ends in the next hyperframe is discarded inside it, for the window's end wraps and the TTI it is compared with does not: `DiscardedAfterWindow` fails |

`EveryUserLeaves` excuses this deadlock and nothing else. Other deviations that the models show when their constants or
invariants are changed:

- `DlHarq` with two workers, the default of `nof_phy_threads`: a grant is recorded under the TTI another worker has stored in
  `current_tti` since (`GrantRecorded`), although `scheduler.h:42` says of all operations but `ue_cfg` and `ue_rem`: "Rest of
  operations are thread-safe". What still holds is what `dl_workers` checks.
- `UlHarq` with two workers: `current_tti` is overwritten before it is used, and `PhichAnswers`,
  `RetxOnlyIfNacked` and `OldDataInFlight` fail.
- `UlHarq`: a lost block whose retransmission finds no DCI is acknowledged one round trip later;
  `PhichAnswers` is about subframes in which something was received.
- `PhyPipeline` with `EarlyRadio`: a subframe abandoned at start-up never passes its turn on, and
  later subframes overtake each other (`TransmitInOrder`).
- `DlBroadcast` with two workers: RRC is asked for the pages of another worker's TTI and a page goes out in a subframe its user
  does not listen to (`PagedAtOccasion`), or is overwritten before it is encoded; `SiSent` fails.
- `RandomAccess`, in the instance of `ra_crowded`: two requests that have waited for room are answered in one TTI, both UEs send message 3 in the
  same resource blocks and only the second is reserved for (`Msg3Reserved`). Two requests in the last entry of `pending_rars`,
  which `rach_detected` does not test, get one identity (`RarIdentity`); `EntryKept` is about the entries before it.
- `RandomAccess` with an opportunity in TTI 0: a request behind a free slot, which holds TTI 0 too, is not
  answered and the slot's old request is (`AnswersPending`).

With two blocks `BlockedPidFreed` and `RetxBound` do not hold, so `dl_single` and `RetxBounded` are about one
block: a block given up by `set_ack` keeps `ack = false`, its process counts as one with a pending
retransmission, and the other block of the process is repeated with it, past its limit and before the
time-out sees it, for as long as its feedback is lost.

Bounds. The code's round trip is 8 TTIs, its slots 10, its hyperframe 10240, its time-out 50. The
instances keep their order and divisibility (`MCDlHarq!Proportions`, `UlConstantsOK`) and shrink
the numbers: round trip 2, slots 3 or 4, hyperframe 4 to 12, so that every run wraps the TTI many
times and a process outlives its slot. The number of processes is 1 or 2: two are enough for
one to be mistaken for another. `RandomAccess` keeps 4, 2, 10 and 3 and a hyperframe of 20 with two
or three opportunities and a window of 2 (10, the default of `sib.conf.example:29`, in `ra_wrap`); there a worker runs to its end before the next subframe. `MaxLag` bounds how late the PRACH thread is: later than that an
age in a hyperframe of 20 TTIs means something else than in one of 10240. `BusyTtis` are the
subframes the system information may fill: a request could otherwise wait for more than a hyperframe.
`MaxBuf`, `MaxBsr` and `MaxTbs` bound queued data, of which only emptiness is tested. `ul_harq` has one worker; what holds for several is proved (below), and the
race on `current_tti` is the downlink one.
`UserLifecycle`: two users are what it takes for one to return as the other, and every event that would make a
behaviour endless is counted by `MaxEvents`; releases, answers and rounds of the monitor are not.
`PucchAlloc`: five users for two places and one too many on each fill every slot; its theorems hold for all bounds.
`PduProcess` keeps 2 * `HarqDelay` = 2, two blocks and a ring of 4: two subframes behind, as in the code; a
pool of 2 buffers runs empty, and the period is a multiple of both rings. `DlBroadcast` has a
hyperframe of 4 frames, a multiple of every period in it.

Fairness. Workers, the radio thread and the PRACH thread run (weak fairness of their steps); RLC,
RRC and `phy::stop`'s caller owe nothing. No fairness makes an allocation succeed or feedback arrive.
`PhyPipeline` allows a stop at any time, after which nothing moves: its run does not check deadlock;
nor do those of `UserLifecycle` and `PucchAlloc`, whose users are used up, and of `PduProcess`, which stops.
In `UserLifecycle` the threads of RRC, of MAC's users and of the S1AP handlers are weakly fair, and each user's
round of the monitor strongly: it comes every 10 ms, the mutex is free again and again in between, and the
messages of a UE are finite. The MME, the UE and the link owe nothing. In `PduProcess` only the PDU thread is
fair; `QueuedIsRead` is about users whose PDUs keep coming, because a lost notify is made good by the
next. In `DlBroadcast` subframes keep coming and workers end: they wait for `sched_mutex` only, whose holder goes on.

## Proofs

`DlHarqProofs` proves, from `ConstantsOK` and for any number of workers, processes, blocks and TTIs:

- `TypeCorrect`: `Spec => []TypeOK`. Types are inductive; a lemma per action, and lemmas for what
  `set_ack`, `new_tx`, `new_retx` and the time-out return. `TypeOK` bounds the record of each worker
  too, because `generate` indexes the processes by what `select` stored.
- `NackedHasRetx`: `Spec => []NackedHasRetxLeft`. `HarqSteps` is the argument: every step changes
  the processes in one of three ways (feedback for flagged blocks, a transmission by one process
  with others timed out, or blocks dropped), and each keeps the invariant.
- `ImplementsStopAndWait`: `Spec => StopAndWait`, for both block configurations, with any race
  between the workers. Each of the three kinds of step maps to an action of `HarqAbs` or to a stutter.
- `RetxBounded`: for one block (`SingleBlock`), `RetxBound`. It is not inductive: a process is
  selected by its count in one step and transmitted on in another. `RetxInv` adds that
  only one worker is between the two (`OneScheduler`, the mutual exclusion of `sched_mutex`) and
  that what it selected may still be repeated (`SelectedCanRepeat`), which feedback and rank
  reports in between preserve.
- `GrantsAreNear` (`GrantTtiNear`), for any number of workers and with reconfigurations: the TTI under which a grant is recorded
  is one that a subframe fewer than `NofWorkers` away stores (`Storable`: its downlink or its uplink TTI). The grant's own
  TTI it is for one worker only. The invariant is `InLine`: the workers in use have successive subframes, since a worker ends
  only after those before it, and `current` is always one of theirs while a worker schedules.
- `InFlightIsKept` (`InFlightKept`) and `ReusedWhenDue` (`NoEarlyReuse`), the
  properties that depend on the timing of the pipeline, under `InTurn`: one worker and no reconfiguration (with either of
  them they do not hold), a block may be repeated, and the proportions of the code (10 slots that cover a round trip of 8 and divide
  the hyperframe; a time-out of 50, which is at least a round trip and less than half a hyperframe). One or two blocks, any
  rank. The invariant `FlightInv` says between two subframes (`Waiting`) and at each program counter of the worker (`Working`):
  a process in use was transmitted at most the time-out ago (`Ages`; so a new transmission shares its TTI with no process in use,
  although idle ones keep theirs for ever); a slot's grant was sent at most `SlotMod` subframes ago, and until its feedback is due its process is `Held`, the
  only one in use with its TTI, active and without feedback (`Flight`); what the metric selected is empty or old enough (`MayUse`).
  Feedback can reach an idle process that still has an old TTI and bring it back into use, and the invariant allows it:
  `OnlyDue` says only that the feedback of a subframe changes processes that have its TTI.

`RrcProofs` proves about `PucchAlloc`, from `PucchAssumption` only and for any number of users,
PRBs, subframes and places per slot:

- `PucchTypeCorrect`, `CountersExact` (`CountsMatch`), `OnlyUsersHold` (`HeldByUsers`) and
  `CollisionsOnlyThen` (`CollisionsExplained`).
- The invariant is one per pool, `PoolInv`. Besides the types and the counters it says that
  in a slot nobody has left the positions are distinct and below the counter, which no property
  states and the absence of collisions needs. `Place...` and `Free...` lemmas are about one placement
  and one release, counting by adding or removing one element of a finite set; `ConReqPools` reduces a
  handler to at most one placement per pool; `Regions` is the arithmetic of the positions of two PRBs.

and about `DlBroadcast`, from `CellOK`, for any users, SI messages, periods and length of the hyperframe, and, but for `SiIsSent`, up to
four workers (`MAX_WORKERS` of `phy.h`):

- `SiIsSent` (`SiSent`), under `SiFits`: one PHY worker, the window has 10, 20 or 40 ms and leaves two frames of the hyperframe, and
  every SI message has room in one subframe. `Base` says that the workers in use have the last subframes before the next one, in order
  (`InLine`). `NowIs` is what one worker gives: while it schedules, the shared variables hold its own subframe, and in subframe 9
  all groups and DCIs are free when the SI messages come. The invariant is about the age of an open window (`OpenFor`): it has had a transmission for each of
  its subframes 9 but the one the worker has yet to schedule, and it is closed soon after its end, so it is never taken for a
  window of an earlier hyperframe. `WindowsOpen` and `MessagesSent` are the two steps that touch it, and `ClosesServed` the closing.
- `AllSessionsServed` (`SessionsServed`), under `SessionsFit`: for one session an MCH subframe besides the MCCH's and those below; for several, the MCH subframes from
  one MCCH to the next are at least `SfAllocEnd` plus one for each session (the MCCH, and what the shares of the others are
  rounded up by), and two for each worker but one if MCH subframes are so close (`~MchApart`) that workers overtake the
  MCCH or are overtaken by it: `current_sf_allocation_num` is reset and counted without a lock, and such a worker counts for the
  wrong period. The hypothesis is sharp: with one subframe less TLC finds a session that is not read, with `MchApart` and
  without. `SeenNext` counts the MCH subframes since the MCCH (`Since` subframes ago) whatever the MBSFN pattern;
  `CurCount`, the heart of `MbInv`, says how far the MAC's number may be from that count; `StopsFit`, from sums
  that are found by induction as a least number (`UpTo`), that a session with data has a subframe before the next MCCH
  whatever RLC reports; `ReadFrom`, that the session has been read once its first subframe is past.
- `BroadcastTypeCorrect`: `Spec => []TypeOK`, without hypotheses.

`UlHarqProofs` proves, from the assumptions of `UlHarq`:

- `UlTypeCorrect`, `RequestsAnswered` (`SrAnswered`) and `UplinkIsStopAndWait` (`StopAndWait`) for any number
  of workers. Message 3 is put into its process without a look at it; `UnknownInv` says that until then
  nothing is known of the user, so that every process is idle. Then every step is one of `HarqAbs`.
- `PhichIsRight` (`PhichAnswers`), `RetxIsRight` (`RetxOnlyIfNacked`) and `OldDataIsInFlight`
  (`OldDataInFlight`) for one worker (`SingleWorker`), any round trip, number of slots and hyperframe.
  `FeedbackDue`: a process in use owes the UE feedback. `GrantsAhead`: a grant recorded for one of the
  subframes of the next round trip was given to a process that owes feedback, which is what the CRC of
  that subframe will set. `TurnInv` says what the worker knows of its process at each program
  counter, from the reception to the new grant, and `DataKept` that data counted as on its way belongs
  to a process that owes feedback or is being worked on. The arithmetic of TTIs modulo round trip, slots
  and hyperframe is in `ModArith`.

`PhyProofs` proves, for any number of workers, when reception starts after the initialisation and the
first subframe is first in `worker_end` (`Started`, the instance of the run):

- `PhyTypeCorrect`, `SubframesInOrder` (`TransmitInOrder`) and `PermitIsKept` (`OnePermit`). The
  invariant `Chain` measures every subframe by its distance, on the circle of semaphores, from the one
  whose turn it is: distances grow from the oldest subframe to the youngest, the counter of the radio
  thread is ahead of them all, and the one permit is at distance 0 or held by the worker there. While
  subframes are received the distances have no gap, which is why the counter cannot lap the oldest;
  `phy::stop` makes gaps but no new subframes.
  `PoolInv` has the part about workers: one subframe each, which bounds their number.

`PduProofs` proves, from `RingsOK` and `WorkersOK`, for any finite set of users, pool and number of workers:

- `PduTypeCorrect` and `BuffersHaveOneOwner` (`OneOwner`). The invariant `PduInv` has three parts besides the
  types. `Owns` names the owner of each buffer of a user's pool, also of a user that MAC has deleted: free,
  pending in one place, or queued at one place; `Pushed`, `Deallocated`, `Popped` and `Requested` are its four
  moves, and `OwnedCounts` turns it into the sum of `OneOwner`. `Line` says that the workers in use are
  different and hold consecutive subframes. `Reads` says that a decoding worker's slot still has the
  grants it counted, which needs that no other worker in use empties or writes that slot (`SlotsDiffer`):
  this is where `WorkersOK` is needed. A grant that had changed under the worker could name no user at all.
- `DecodesIntoItsOwn` (`DecodesIntoOwn`) and `ReadsInTime` (`ReadInTime`), the two properties about the time a removal
  or a parse takes. The invariant `GrantsInv` adds to `PduInv` what is known of the grants on their way. `Slotted`: a slot
  holds grants only from the `Alloc` of its subframe to the `Schedule` that ends it, one per user. `Kept`: the buffer of a grant is
  pending, and of a user that can still be scheduled no other is; so a decode meets the buffer of its own request.
  `Granting`: the users a worker is about to give a grant. `Leaving` and `Left`: what is left of the grants of a user being removed,
  pass by pass of `rem_rnti`, unless the removal has already taken a round trip. `BeingRead` and `Due`: a buffer that the PDU thread still
  reads can be decoded into only for a subframe that was not received when it was given back, which is met `RoundTrip` subframes
  later at the earliest. `Places` is the arithmetic under all of them: the subframes in work or still to come, at most
  `NofWorkers + 2 * HarqDelay`, have each a slot and a place in the hyperframe of their own.

`UserProofs` proves, from `BoundsAssumption` only and for any numbers of RNTIs, of users that connect, of
queued messages and of spontaneous events, with the five threads interleaved as the locks let them:

- `UserTypeCorrect`, `LayersAlwaysAgree` (`LayersAgree`), `RegisteredAlwaysComplete` (`RegisteredIsComplete`)
  and `NeverConnectedOrphan` (`NoConnectedOrphan`). None of the three is inductive; `UserInv` adds what the
  code relies on without saying so. `Threads`: who holds `user_mutex`, and that nobody removes the
  user the RRC thread is working on. `Layers`: what each layer has of a user while it is created, there or
  removed, in the order of the calls. `Unseen`: of an RNTI that RRC has not added yet the UE has no message
  and the queue no answer, so that a new user starts with nothing behind it. `Bearers`: from the moment
  a message is sent to the UE until the user leaves, what its answer will rely on is there: a tunnel for
  each bearer, and for the default bearer while the answer to the security command or to the
  reconfiguration is awaited. A late answer after the release of the E-RABs is the case that needs it.
  `Contexts`: a user that the MME has known either has a context in S1AP or is on its way out; like
  `Bearers`, this must be said of the users that will connect when an awaited answer arrives. Each of the 30
  or so handlers keeps every part; the lemmas before them are about the maps (`Put`, `Erase`), the queue and
  the calls into other layers.

`RaProofs` proves, for any numbers of slots, preambles, RNTIs and TTIs, windows and sets of opportunities:

- `RaTypeCorrect` and `AnswersInWindow` (`AnsweredInWindow`), without any assumption;
  `AnswersArePending` (`AnswersPending`), if TTI 0 is no opportunity (a free slot of `pending_rar` holds TTI 0).
- `KeepsInWindow` (`KeptInWindow`), from `RoomComes` and `Lead <= HarqDelay`, for opportunities in any TTIs. `RoomComes`: of the TTIs after
  each opportunity there is one, less than a hyperframe later, at which the PRACH thread is through with it, its
  window is over and the responses find room. Without it a request grows as old as a hyperframe and cannot be told from a
  new one. What the theorem leaves to the end of the hyperframe is what `ra_wrap` shows: it is the only place where a request is given up
  inside its window.
- `RarsKeepIdentity` (`RarIdentity`), from `RoomComes` and `OneAtATime`: one preamble per opportunity and opportunities
  further apart than `Lead + Window - HarqDelay`. The default configuration has it, barely: one opportunity each
  10 TTIs, and 9 with its window of 10. With two preambles the property does not depend on the code alone but on
  which of the slots of `pending_rars` are still in use.
- `Msg3HasItsTti` (`Msg3Matched`), from `Msg3Fits` only: the hyperframe is a multiple of the 10 entries of `pending_msg3`, and the
  UE's six subframes are `MSG3_DELAY_MS + HARQ_DELAY_MS`. However many responses share a TTI, a TTI is reserved exactly when a UE was told
  to use it; that it is reserved for the right one fails when they do (`Msg3Reserved`).

The constants of `ra_crowded` meet the assumptions of the theorems whose properties it checks; `RarIdentity` is no property of a run, for
`OneAtATime` leaves out what `ra_crowded` is about. The loop of `dl_sched_rar` is a recursive function; what it does in
all its iterations is proved by induction in the form of a least number (`LeastNat`, `UpTo`, `LoopRuns`): `Looped` says what
becomes of each request, `Named` who is answered, `Single` when only one is. The invariant: `InTime`, the age of what is
scheduled in this TTI; `Stored`, the TTIs in the slots; `Ordered`, which says that the opportunities are dealt with in
their order and none of them too late, so that ages do not wrap; `Queued`, that nothing younger than the PRACH thread's
opportunity is requested; `Linked`, that the entry of `pending_rars` is right as long as its request can be answered and that
the thread can have overwritten it only when it cannot; `Reserved`, that the entries of `pending_msg3` in use are those of the last
`Msg3Delay` TTIs and of the response that is assembled.

Only model-checked: every liveness property, which is out of the prover's reach, so also `PagesSent`, and `EntryKept`. Every other invariant and
action property of a passing run is stated by a theorem, under the assumptions given above; those of the
findings are not theorems, for they do not hold.

## The plan

The core of each part above is modelled, with what each module names as left out. What would extend the project:

1. `RbAlloc`: the resource-block masks of `scheduler_metric.cc` and the CCE search as operators
   against reference definitions; no two grants of a subframe overlap.
2. Buffer status: `set_lcg`, which removes a channel only from its new group (`ue.cc:98`), and the reports per group.
3. The workers of `DlBroadcast` inside `get_mch_sched`, `used_cce` cleared in the middle of a search
   (`scheduler.cc:764`, `815`), and several workers in `RandomAccess` and, beyond the theorems, in `UlHarq`'s run.


## Not modelled

Encoding, decoding and detection are calls of the srslte library: numerical code whose outcome
is a free choice here. Configuration parsing, metrics, logging and packet capture have no state
that the protocol reads. The MATLAB scripts evaluate traces offline.

Hazards seen while reading and outside the models: the receive soft buffer is indexed by TTI modulo
twice the number of processes, so that a retransmission meets another one (`ue.cc:107`); a repetition period of
256 frames becomes 0 in a `uint8_t` and the modulo divides by it (`phch_common.cc:305`), and a table
index with an offset runs past the table (line 368); `write_mcch` copies SIB13 over SIB2 (`mac.cc:979`);
`generate_format1a` asks for the index after its loop's last (`scheduler.cc:1111`); in cells of 6 PRB the
reservation for PRACH moves the start but not the end of the data groups (`scheduler.cc:685`); a PDU popped for
a user that is gone is not given back to its pool (`rrc.cc:814`); an idle HARQ process has TTI 0, a
TTI that occurs on the air (`scheduler_harq.cc:74`); `running` is tested before the mutex
is taken in `work_imp`, and the stop frees the buffers in between (`phch_worker.cc:373`).
