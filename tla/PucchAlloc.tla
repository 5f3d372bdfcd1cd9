------------------------------ MODULE PucchAlloc ------------------------------
(***************************************************************************)
(* The PUCCH resources of RRC: a connected user is given one for its       *)
(* scheduling requests and one for its periodic CQI reports.  RRC keeps no *)
(* table of resources, only the number of users of each slot (a PRB and a  *)
(* subframe), and derives the resource from that number.                   *)
(*                                                                         *)
(* All of it happens in the RRC thread, one handler after the other: a     *)
(* step is a whole handler.  A subframe is an index into sf_mapping.       *)
(*                                                                         *)
(* Init, Next and the others have Pucch in their names: RrcProofs is about *)
(* this module and DlBroadcast together.                                   *)
(***************************************************************************)
EXTENDS Integers, FiniteSets

CONSTANTS
  User,           \* the users that may exist
  SrPrb, SrSf, SrMisfit,     \* cfg.sr_cfg: nof_prb, nof_subframes and the subframes
                             \* whose sf_mapping is not below the period
  CqiPrb, CqiSf, CqiMisfit,  \* cfg.cqi_cfg: the same
  MaxUsers,       \* max_users = 12 * c / delta_pucch_shift
  NcsAn,          \* n_cs_an of SIB2
  PeriodicCqi     \* cqi_cfg.mode is periodic

ASSUME PucchAssumption ==
  /\ IsFiniteSet(User)
  /\ SrPrb \in Nat /\ SrSf \in Nat /\ CqiPrb \in Nat /\ CqiSf \in Nat
  /\ MaxUsers \in Nat \ {0} /\ NcsAn \in Nat
  /\ SrMisfit \subseteq Nat /\ CqiMisfit \subseteq Nat /\ PeriodicCqi \in BOOLEAN

VARIABLES
  users,   \* rrc::users
  pool     \* per kind of resource: the users' slots and positions, the counters, two histories

pucchVars == <<users, pool>>

Kind == {"sr", "cqi"}
SlotsOf(k) == IF k = "sr" THEN (0..SrPrb - 1) \X (0..SrSf - 1)
                          ELSE (0..CqiPrb - 1) \X (0..CqiSf - 1)
NoSlot == <<-1, -1>>
Misfit(k) == IF k = "sr" THEN SrMisfit ELSE CqiMisfit

PoolType(k) ==
  [at    : [User -> SlotsOf(k) \cup {NoSlot}],  \* sr_sched_prb_idx, sr_sched_sf_idx; NoSlot while not sr_allocated
   pos   : [User -> Nat],                       \* users the slot had when this one was placed
   nof   : [SlotsOf(k) -> Nat],                 \* sr_sched.nof_users
   lost  : [SlotsOf(k) -> Nat],                 \* history: places given up without being freed
   freed : SUBSET SlotsOf(k)]                   \* history: slots a user has left

PucchTypeOK ==
  /\ users \subseteq User
  /\ DOMAIN pool = Kind /\ pool = [k \in Kind |-> pool[k]]
  /\ \A k \in Kind : pool[k] \in PoolType(k)

EmptyPool(k) ==
  [at |-> [u \in User |-> NoSlot], pos |-> [u \in User |-> 0],
   nof |-> [s \in SlotsOf(k) |-> 0], lost |-> [s \in SlotsOf(k) |-> 0], freed |-> {}]

PucchInit == users = {} /\ pool = [k \in Kind |-> EmptyPool(k)]

AddUser(u) == u \notin users /\ users' = users \cup {u} /\ UNCHANGED pool

\* The first slot with the fewest users, PRBs in the outer loop.
Before(s, t) == s[1] < t[1] \/ (s[1] = t[1] /\ s[2] <= t[2])
LeastLoaded(k, s) ==
  /\ s \in SlotsOf(k)
  /\ \A t \in SlotsOf(k) : \/ pool[k].nof[s] < pool[k].nof[t]
                           \/ pool[k].nof[s] = pool[k].nof[t] /\ Before(s, t)

\* One user too many more.
GrantsBug(k, s) == LeastLoaded(k, s) /\ pool[k].nof[s] <= MaxUsers + 1 /\ s[2] \notin Misfit(k)
\* Refused when the slot has more than max_users users (not when it has them).
Grants(k, s) == LeastLoaded(k, s) /\ pool[k].nof[s] <= MaxUsers /\ s[2] \notin Misfit(k)

\* The position forgotten: every user of a slot is given its first resource.
PlaceBug(P, u, s) ==
  [at    |-> [P.at EXCEPT ![u] = s],
   pos   |-> [P.pos EXCEPT ![u] = 0],
   nof   |-> [P.nof EXCEPT ![s] = @ + 1],
   lost  |-> [t \in DOMAIN P.lost |-> IF t = P.at[u] THEN P.lost[t] + 1 ELSE P.lost[t]],
   freed |-> P.freed]
\* A user that already had a place keeps no record of it.
Place(P, u, s) ==
  [at    |-> [P.at EXCEPT ![u] = s],
   pos   |-> [P.pos EXCEPT ![u] = P.nof[s]],
   nof   |-> [P.nof EXCEPT ![s] = @ + 1],
   lost  |-> [t \in DOMAIN P.lost |-> IF t = P.at[u] THEN P.lost[t] + 1 ELSE P.lost[t]],
   freed |-> P.freed]

\* send_connection_setup: without a place for SR no CQI is tried; without one
\* for CQI the place for SR stays.  No message is sent in either case.
ConReq(u) ==
  /\ u \in users
  /\ \/ /\ \A s \in SlotsOf("sr") : ~Grants("sr", s)
        /\ UNCHANGED pool
     \/ \E s \in SlotsOf("sr") :
          /\ Grants("sr", s)
          /\ \/ /\ PeriodicCqi => \A t \in SlotsOf("cqi") : ~Grants("cqi", t)
                /\ pool' = [pool EXCEPT !["sr"] = Place(pool["sr"], u, s)]
             \/ \E t \in SlotsOf("cqi") :
                  /\ PeriodicCqi /\ Grants("cqi", t)
                  /\ pool' = [pool EXCEPT !["sr"]  = Place(pool["sr"], u, s),
                                          !["cqi"] = Place(pool["cqi"], u, t)]
  /\ UNCHANGED users

\* The counter left alone.
FreeBug(P, u) ==
  [at    |-> [P.at EXCEPT ![u] = NoSlot],
   pos   |-> [P.pos EXCEPT ![u] = 0],
   nof   |-> P.nof,
   lost  |-> P.lost,
   freed |-> P.freed \cup ({P.at[u]} \ {NoSlot})]
\* sr_free, cqi_free: the counter goes down unless it is zero.  The user object
\* goes with its slot; the place is lost to the counter if it was zero.
Free(P, u) ==
  [at    |-> [P.at EXCEPT ![u] = NoSlot],
   pos   |-> [P.pos EXCEPT ![u] = 0],
   nof   |-> [t \in DOMAIN P.nof |-> IF t = P.at[u] /\ P.nof[t] > 0 THEN P.nof[t] - 1 ELSE P.nof[t]],
   lost  |-> P.lost,
   freed |-> P.freed \cup ({P.at[u]} \ {NoSlot})]

RemUser(u) ==
  /\ u \in users
  /\ users' = users \ {u}
  /\ pool' = [k \in Kind |-> Free(pool[k], u)]

PucchNext == \E u \in User : AddUser(u) \/ ConReq(u) \/ RemUser(u)
PucchSpec == PucchInit /\ [][PucchNext]_pucchVars

(***************************************************************************)
(* Properties.                                                             *)
(***************************************************************************)
Holders(P, s) == {u \in User : P.at[u] = s}

\* RRC's only record of who has what is a counter per slot: it equals the
\* users of the slot plus the places that were given up without being freed
\* (a connection request handled twice, rrc.cc:1055), so rrc.cc:1827 never
\* finds it at zero, a removed user leaves nothing behind, and users that ask
\* once can never exhaust the PUCCH by coming and going.
CountsMatch ==
  \A k \in Kind : \A s \in SlotsOf(k) :
    pool[k].nof[s] = Cardinality(Holders(pool[k], s)) + pool[k].lost[s]

\* The resource sent to a user: N_pucch_sr (rrc.cc:1878) or n_pucch_2 (rrc.cc:1969).
Npucch(P, u) == P.at[u][1] * MaxUsers + P.pos[u] + NcsAn

\* Two users are given the same resource in the same subframe in two cases
\* only: somebody has left their slot (the next one is placed by the counter
\* alone), or one of them is the user too many of its slot, whose resource is
\* the first one of the next PRB (rrc.cc:1860).
CollisionsExplained ==
  \A k \in Kind : \A u, v \in User :
    LET P == pool[k] IN
    /\ u # v /\ P.at[u] # NoSlot /\ P.at[v] # NoSlot
    /\ P.at[u][2] = P.at[v][2] /\ Npucch(P, u) = Npucch(P, v)
    => \/ P.at[u] = P.at[v] /\ P.at[u] \in P.freed
       \/ P.pos[u] = MaxUsers \/ P.pos[v] = MaxUsers

\* A user holds resources only while it exists, and its position never goes
\* past the region of its slot by more than that one.
HeldByUsers ==
  \A k \in Kind : \A u \in User :
    /\ pool[k].at[u] # NoSlot => u \in users
    /\ pool[k].pos[u] <= MaxUsers

=============================================================================
