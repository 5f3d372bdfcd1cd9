---------------------------- MODULE UserLifecycle ----------------------------
(***************************************************************************)
(* The life of a user through the layers of the eNodeB: created by a       *)
(* preamble, connected by RRC, known to the MME through S1AP, and removed  *)
(* by the MME, by inactivity, by a radio-link failure or because it came   *)
(* back under a new RNTI.                                                  *)
(*                                                                         *)
(* Threads: PRACH worker (mac::rach_detected), MAC PDU thread (messages of *)
(* the UE, C-RNTI elements), RRC thread (its queue), activity monitor, and *)
(* S1AP thread.  RRC's user_mutex and MAC's rwlock are modelled where they *)
(* are held across calls; a std::map is a function whose domain is the set *)
(* of its keys, and each call on an unlocked map is one step.              *)
(*                                                                         *)
(* Abstractions: an RNTI is used once (the counter of MAC goes round after *)
(* 60000); a deadline of is_timeout may pass at any round of the monitor,  *)
(* and only its being met in the end is assumed; PHY follows the scheduler *)
(* and PDCP follows RLC (the same callers create, extend and remove them); *)
(* downlink NAS text changes nothing but the identifier of the MME.        *)
(***************************************************************************)
EXTENDS Integers, Sequences, FiniteSets, Functions

CONSTANTS
  MaxRnti,      \* users created in a behaviour, at most one S1AP identifier each
  MaxQueue,     \* bound: no new event enters a longer RRC queue
  Connecting,   \* bound: the RNTIs whose UE asks for a connection
  MaxEvents     \* bound: uplink data and NAS, radio-link failures, second E-RABs, losses of the MME

ASSUME BoundsAssumption ==
  /\ {MaxRnti, MaxQueue} \subseteq Nat \ {0}
  /\ Connecting \subseteq 1..MaxRnti /\ MaxEvents \in Nat

VARIABLES
  users,        \* rrc::users: state, radio-link failures, E-RABs, PHY configuration in use
  queue,        \* rrc::rx_pdu_queue
  mutex,        \* holder of rrc::user_mutex: a thread or "free"
  mac,          \* mac::ue_db: RNTI of the entry -> the rnti field of its ue object
  sched,        \* users of the scheduler and of the PHY
  l2,           \* rlc::users and pdcp::users: the bearers of each user
  gtpu,         \* gtpu::rnti_bearers: the bearers with a tunnel, {} for a blank entry
  ctxt,         \* s1ap::ue_ctxt_map
  enbId,        \* s1ap::enbid_to_rnti_map
  nextEnb,      \* s1ap::next_eNB_UE_S1AP_ID
  mme,          \* external: what the MME believes of each eNB identifier
  s1,           \* the S1 link: "down", "asked" (no response yet), "up" (mme_connected), "ended"
  air,          \* external: messages sent to each UE and not answered yet
  pc,           \* what each thread is in the middle of
  used          \* counters of the bounds and UEs that have sent Msg3

vars == <<users, queue, mutex, mac, sched, l2, gtpu, ctxt, enbId, nextEnb,
          mme, s1, air, pc, used>>
rrcVars  == <<users, queue, mutex>>
lowVars  == <<mac, sched, l2, gtpu>>
s1apVars == <<ctxt, enbId, nextEnb, mme, s1>>

Rnti   == 1..MaxRnti
EnbIds == 1..MaxRnti
States == {"IDLE", "WAIT_FOR_CON_SETUP_COMPLETE", "WAIT_FOR_CON_RECONF_COMPLETE",
           "REGISTERED", "RELEASE_REQUEST"}
Drb1 == 3
Drb2 == 4
Idle == [at |-> "idle", r |-> 0, old |-> 0]
At(where, r) == [at |-> where, r |-> r, old |-> 0]

Put(f, k, v)  == [x \in DOMAIN f \cup {k} |-> IF x = k THEN v ELSE f[x]]
Erase(f, k)   == Restrict(f, DOMAIN f \ {k})
Item(k, r)    == [kind |-> k, rnti |-> r, old |-> 0]
NewUser == [state |-> "IDLE", rlf |-> 0, erabs |-> {}, cfgOk |-> FALSE]
Srb0 == 0
NewBearers == {Srb0}       \* SRB0 is added with the user

TypeOK ==
  /\ DOMAIN users \subseteq Rnti /\ DOMAIN mac \subseteq Rnti /\ sched \subseteq Rnti
  /\ \A r \in DOMAIN users : /\ users[r].state \in States
                             /\ users[r].rlf \in Nat
                             /\ users[r].erabs \subseteq {Drb1, Drb2}
                             /\ users[r].cfgOk \in BOOLEAN
  /\ \A r \in DOMAIN mac : mac[r] \in Rnti
  /\ DOMAIN l2 \subseteq Rnti /\ \A r \in DOMAIN l2 : l2[r] \subseteq 0..Drb2
  /\ DOMAIN gtpu \subseteq Rnti /\ \A r \in DOMAIN gtpu : gtpu[r] \subseteq {Drb1, Drb2}
  /\ DOMAIN ctxt \subseteq Rnti
  /\ \A r \in DOMAIN ctxt : /\ ctxt[r].enb \in {0} \cup EnbIds
                            /\ ctxt[r].mme \in {0} \cup EnbIds
                            /\ ctxt[r].rel \in BOOLEAN
  /\ DOMAIN enbId \subseteq EnbIds /\ \A e \in DOMAIN enbId : enbId[e] \in Rnti
  /\ nextEnb \in 1..MaxRnti + 1 /\ s1 \in {"down", "asked", "up", "ended"}
  /\ mme \in [EnbIds -> {"none", "known", "setup", "active", "erab"}]
  /\ air \in [Rnti -> SUBSET {"setup", "smc", "reconf"}]
  /\ mutex \in {"free", "rrc", "mon"}
  /\ \A i \in DOMAIN queue : queue[i].rnti \in Rnti

Init ==
  /\ users = <<>> /\ queue = <<>> /\ mutex = "free"
  /\ mac = <<>> /\ sched = {} /\ l2 = <<>> /\ gtpu = <<>>
  /\ ctxt = <<>> /\ enbId = <<>> /\ nextEnb = 1 /\ s1 = "down"
  /\ mme = [e \in EnbIds |-> "none"]
  /\ air = [r \in Rnti |-> {}]
  /\ pc = [rrc |-> Idle, mon |-> Idle, s1ap |-> Idle, pdu |-> Idle, prach |-> Idle]
  /\ used = [rnti |-> 0, msg3 |-> {}, events |-> 0]

(***************************************************************************)
(* PRACH worker: a new user in MAC and in the scheduler, then in RRC.      *)
(***************************************************************************)
RachDetected ==
  /\ pc.prach = Idle /\ used.rnti < MaxRnti
  /\ LET r == used.rnti + 1
     IN /\ mac' = Put(mac, r, r) /\ sched' = sched \cup {r}
        /\ used' = [used EXCEPT !.rnti = r]
        /\ pc' = [pc EXCEPT !.prach = At("add_user", r)]
  /\ UNCHANGED <<rrcVars, l2, gtpu, s1apVars, air>>

AddUser ==
  /\ pc.prach # Idle /\ mutex = "free"
  /\ LET r == pc.prach.r
     IN IF r \in DOMAIN users THEN UNCHANGED <<users, l2>>
        ELSE users' = Put(users, r, NewUser) /\ l2' = Put(l2, r, NewBearers)
  /\ pc' = [pc EXCEPT !.prach = Idle]
  /\ UNCHANGED <<queue, mutex, mac, sched, gtpu, s1apVars, air, used>>

(***************************************************************************)
(* MAC PDU thread.  It holds the read lock of ue_db while it hands over    *)
(* what the UE sent, so also while upd_user waits for user_mutex.          *)
(***************************************************************************)
Event == used.events < MaxEvents /\ used' = [used EXCEPT !.events = @ + 1]
Room == Len(queue) < MaxQueue
Reachable(r) == r \in DOMAIN mac /\ mac[r] \in DOMAIN l2 /\ pc.pdu = Idle /\ Room

Msg3(r) ==
  /\ Reachable(r) /\ r \notin used.msg3
  /\ \/ r \in Connecting /\ queue' = Append(queue, Item("CON_REQ", r))
     \/ \E old \in Rnti \ {r} :
          queue' = Append(queue, [Item("REEST_REQ", r) EXCEPT !.old = old])
  /\ used' = [used EXCEPT !.msg3 = @ \cup {r}]
  /\ UNCHANGED <<users, mutex, lowVars, s1apVars, air, pc>>

CrntiCe(r) ==
  /\ r \in DOMAIN mac /\ pc.pdu = Idle /\ Room /\ r \notin used.msg3
  /\ \E old \in {x \in sched : x < r} :
       /\ queue' = Append(queue, Item("REM", r))
       /\ pc' = [pc EXCEPT !.pdu = [at |-> "upd_user", r |-> r, old |-> old]]
  /\ used' = [used EXCEPT !.msg3 = @ \cup {r}]
  /\ UNCHANGED <<users, mutex, lowVars, s1apVars, air>>

\* rlc::write_sdu and pdcp::write_sdu drop what they have no user for.
SendDl(r, m) == IF r \in DOMAIN l2 THEN [air EXCEPT ![r] = @ \cup {m}] ELSE air
\* A UE told to leave answers nothing more.
Released(r) == [air EXCEPT ![r] = {}]

UpdUser ==
  /\ pc.pdu # Idle /\ mutex = "free"
  /\ LET old == pc.pdu.old IN
     /\ IF old \notin DOMAIN users THEN UNCHANGED <<users, air>>
        ELSE IF users[old].state = "REGISTERED"
        THEN /\ users' = [users EXCEPT ![old].state = "WAIT_FOR_CON_RECONF_COMPLETE"]
             /\ air' = SendDl(old, "reconf")
        ELSE /\ air' = Released(old)
             /\ UNCHANGED users
     /\ mac' = [mac EXCEPT ![pc.pdu.r] = old]
  /\ pc' = [pc EXCEPT !.pdu = Idle]
  /\ UNCHANGED <<queue, mutex, sched, l2, gtpu, s1apVars, used>>

\* The UE answers a message of RRC.
AnswerKind(m) == CASE m = "setup"  -> "SETUP_COMPLETE"
                   [] m = "smc"    -> "SECURITY_MODE_COMPLETE"
                   [] m = "reconf" -> "RECONF_COMPLETE"

Answer(r) ==
  /\ Reachable(r) /\ mac[r] = r
  /\ \E m \in air[r] :
       /\ queue' = Append(queue, Item(AnswerKind(m), r))
       /\ air' = [air EXCEPT ![r] = @ \ {m}]
  /\ UNCHANGED <<users, mutex, lowVars, s1apVars, pc, used>>

\* Uplink data: PDCP hands it to GTP-U, whose map makes a blank entry for a
\* user it does not know, and MAC reports the activity.
GtpuWrite(r) == gtpu' = IF r \in DOMAIN gtpu THEN gtpu ELSE Put(gtpu, r, {})

UlData(t) ==
  /\ Reachable(t) /\ Drb1 \in l2[mac[t]]
  /\ LET r == mac[t]
     IN GtpuWrite(r) /\ queue' = Append(queue, Item("ACT", r))
  /\ Event
  /\ UNCHANGED <<users, mutex, mac, sched, l2, s1apVars, air, pc>>

\* NAS text on SRB1: only its way through the maps of S1AP matters here.
UlNas(r) ==
  /\ Reachable(r) /\ mac[r] = r /\ 1 \in l2[r]
  /\ queue' = Append(queue, Item("NAS", r))
  /\ Event
  /\ UNCHANGED <<users, mutex, lowVars, s1apVars, air, pc>>

\* mac::rl_failure after enough failed receptions.
RlFailure(r) ==
  /\ r \in DOMAIN mac /\ Room
  /\ queue' = Append(queue, Item("RLF", r))
  /\ Event
  /\ UNCHANGED <<users, mutex, lowVars, s1apVars, air, pc>>

(***************************************************************************)
(* S1AP calls made by other threads.                                       *)
(***************************************************************************)
UserExists(r) == r \in DOMAIN ctxt

\* A stale context dropped without telling RRC.
ReleaseItemsBug(r) == <<>>
\* user_release: the second request finds a context the MME never released
\* and drops it; without the MME the first one is recorded and not sent.
ReleaseItems(r) == IF UserExists(r) /\ ctxt[r].rel THEN <<Item("REL", r)>> ELSE <<>>
UserRelease(r) ==
  ctxt' = IF ~UserExists(r) THEN ctxt
          ELSE IF ctxt[r].rel THEN Erase(ctxt, r) ELSE [ctxt EXCEPT ![r].rel = TRUE]

\* ue_ctxt_map[rnti]: operator[] makes a context of zeroes for an unknown user.
MmeConnected == s1 = "up"
Blank == [enb |-> 0, mme |-> 0, rel |-> FALSE]
CtxtOf(r) == IF r \in DOMAIN ctxt THEN ctxt[r] ELSE Blank

\* What the MME makes of a message, when it gets it: senders return false
\* without a connection, and nobody looks.
Told(e, from, to) == IF MmeConnected /\ e \in EnbIds /\ mme[e] \in from
                     THEN [mme EXCEPT ![e] = to] ELSE mme
InitialUeMessage(e) == mme' = Told(e, {"none"}, "known")

InitialUe(r) ==
  /\ nextEnb \in EnbIds
  /\ ctxt' = Put(ctxt, r, [enb |-> nextEnb, mme |-> CtxtOf(r).mme, rel |-> FALSE])
  /\ enbId' = Put(enbId, nextEnb, r)
  /\ nextEnb' = nextEnb + 1
  /\ InitialUeMessage(nextEnb)

\* ue_ctxt_setup_complete: a response with the E-RABs, or a failure.
InitialCtxtSetupResponse(r) == mme' = Told(CtxtOf(r).enb, {"setup"}, "active")
InitialCtxtSetupFailure(r)  == UNCHANGED mme

UeCtxtSetupComplete(r, erabs) ==
  /\ ctxt' = IF MmeConnected THEN Put(ctxt, r, CtxtOf(r)) ELSE ctxt
  /\ IF erabs # {} THEN InitialCtxtSetupResponse(r) ELSE InitialCtxtSetupFailure(r)

(***************************************************************************)
(* RRC thread: one item of the queue at a time, without user_mutex except  *)
(* in rem_user.  An item of an unknown user is dropped.                    *)
(***************************************************************************)
Pops(kind) == /\ pc.rrc = Idle /\ queue # <<>>
              /\ Head(queue).kind = kind /\ Head(queue).rnti \in DOMAIN users
Who == Head(queue).rnti
RrcAt(where, r) == pc' = [pc EXCEPT !.rrc = At(where, r)]

DiscardItem ==
  /\ pc.rrc = Idle /\ queue # <<>> /\ Who \notin DOMAIN users
  /\ queue' = Tail(queue)
  /\ UNCHANGED <<users, mutex, lowVars, s1apVars, air, pc, used>>

AddBearers(r, bearers) == IF r \in DOMAIN l2 THEN [l2 EXCEPT ![r] = @ \cup bearers] ELSE l2

\* The three messages that configure bearers; they give up without resources
\* on the PUCCH or with a QCI nobody configured.
ConnectionSetup(r, resources) ==
  IF resources THEN l2' = AddBearers(r, {1}) /\ air' = SendDl(r, "setup")
               ELSE UNCHANGED <<l2, air>>
ConnectionReconf(r, configured) ==
  IF configured THEN l2' = AddBearers(r, {2, Drb1}) /\ air' = SendDl(r, "reconf")
                ELSE UNCHANGED <<l2, air>>
ReconfNewBearer(r, configured) ==
  IF configured THEN l2' = AddBearers(r, {Drb2}) /\ air' = SendDl(r, "reconf")
                ELSE UNCHANGED <<l2, air>>

\* handle_rrc_con_req: the state changes even if PUCCH resources ran out and
\* no setup was sent.
ConReq ==
  /\ Pops("CON_REQ") /\ queue' = Tail(queue)
  /\ \E resources \in BOOLEAN :
       /\ users' = [users EXCEPT ![Who].state = "WAIT_FOR_CON_SETUP_COMPLETE",
                                 ![Who].cfgOk = IF resources THEN FALSE ELSE @]
       /\ ConnectionSetup(Who, resources)
  /\ UNCHANGED <<mutex, mac, sched, gtpu, s1apVars, pc, used>>

ReestReq ==
  /\ Pops("REEST_REQ")
  /\ LET old == Head(queue).old IN
     IF users[Who].state # "IDLE"
     THEN queue' = Tail(queue) /\ UNCHANGED ctxt
     ELSE IF old \in DOMAIN users
     THEN UserRelease(old) /\ queue' = Tail(queue) \o ReleaseItems(old) \o <<Item("REM", Who)>>
     ELSE queue' = Append(Tail(queue), Item("REM", Who)) /\ UNCHANGED ctxt
  /\ UNCHANGED <<users, mutex, lowVars, enbId, nextEnb, mme, s1, air, pc, used>>

SetupComplete ==
  /\ Pops("SETUP_COMPLETE") /\ queue' = Tail(queue)
  /\ users' = [users EXCEPT ![Who].cfgOk = TRUE,
                            ![Who].state = "WAIT_FOR_CON_RECONF_COMPLETE"]
  /\ InitialUe(Who)
  /\ UNCHANGED <<mutex, lowVars, s1, air, pc, used>>

\* The MME is answered first; the bearers are then set up if the QCI of DRB1
\* is configured.  Reading erabs[5] creates it.
SecurityModeComplete ==
  /\ Pops("SECURITY_MODE_COMPLETE") /\ queue' = Tail(queue)
  /\ UeCtxtSetupComplete(Who, users[Who].erabs)
  /\ \E configured \in BOOLEAN :
       /\ configured => Drb1 \in users[Who].erabs
       /\ ConnectionReconf(Who, configured)
  /\ users' = [users EXCEPT ![Who].cfgOk = FALSE,
                            ![Who].erabs = @ \cup {Drb1},
                            ![Who].state = "WAIT_FOR_CON_RECONF_COMPLETE"]
  /\ UNCHANGED <<mutex, mac, sched, gtpu, enbId, nextEnb, s1, pc, used>>

ReconfComplete ==
  /\ Pops("RECONF_COMPLETE") /\ queue' = Tail(queue)
  /\ users' = [users EXCEPT ![Who].cfgOk = TRUE,
                            ![Who].state = "REGISTERED"]
  /\ UNCHANGED <<mutex, lowVars, s1apVars, air, pc, used>>

SetActivity ==
  /\ Pops("ACT") /\ queue' = Tail(queue)
  /\ UNCHANGED <<users, mutex, lowVars, s1apVars, air, pc, used>>

\* s1ap::write_pdu: the context may go between the test and the sending, which
\* then makes a blank one.
UlInfoTransfer ==
  /\ Pops("NAS") /\ queue' = Tail(queue)
  /\ IF UserExists(Who) THEN RrcAt("nas", Who) ELSE UNCHANGED pc
  /\ UNCHANGED <<users, mutex, lowVars, s1apVars, air, used>>

UlNasTransport ==
  /\ pc.rrc.at = "nas"
  /\ ctxt' = IF MmeConnected THEN Put(ctxt, pc.rrc.r, CtxtOf(pc.rrc.r)) ELSE ctxt
  /\ pc' = [pc EXCEPT !.rrc = Idle]
  /\ UNCHANGED <<rrcVars, lowVars, enbId, nextEnb, mme, s1, air, used>>

\* process_rl_failure: the existence test and the request are two calls.
ProcessRlFailure ==
  /\ Pops("RLF")
  /\ users' = [users EXCEPT ![Who].rlf = @ + 1]
  /\ IF users[Who].rlf > 0 THEN queue' = Tail(queue) /\ UNCHANGED pc
     ELSE IF UserExists(Who) THEN queue' = Tail(queue) /\ RrcAt("rl_failure", Who)
     ELSE queue' = Append(Tail(queue), Item("REM", Who)) /\ UNCHANGED pc
  /\ UNCHANGED <<mutex, lowVars, s1apVars, air, used>>

RlFailureRelease ==
  /\ pc.rrc.at = "rl_failure"
  /\ UserRelease(pc.rrc.r) /\ queue' = queue \o ReleaseItems(pc.rrc.r)
  /\ pc' = [pc EXCEPT !.rrc = Idle]
  /\ UNCHANGED <<users, mutex, lowVars, enbId, nextEnb, mme, s1, air, used>>

\* process_release_complete: 50 ms of sleep between the message and the removal.
ProcessReleaseComplete ==
  /\ Pops("REL") /\ queue' = Tail(queue)
  /\ RrcAt("released", Who)
  /\ UNCHANGED <<users, mutex, lowVars, s1apVars, air, used>>

ReleaseSlept ==
  /\ pc.rrc.at = "released"
  /\ queue' = Append(queue, Item("REM", pc.rrc.r))
  /\ air' = IF users[pc.rrc.r].state = "IDLE" THEN air ELSE Released(pc.rrc.r)
  /\ pc' = [pc EXCEPT !.rrc = Idle]
  /\ UNCHANGED <<users, mutex, lowVars, s1apVars, used>>

\* rem_user, under user_mutex: scheduler and PHY; MAC, which waits for its
\* readers, and GTP-U; then RLC, PDCP and RRC itself.
RemUser ==
  /\ Pops("REM") /\ mutex = "free"
  /\ queue' = Tail(queue) /\ mutex' = "rrc"
  /\ sched' = IF Who \in DOMAIN mac THEN sched \ {Who} ELSE sched
  /\ RrcAt("rem_mac", Who)
  /\ UNCHANGED <<users, mac, l2, gtpu, s1apVars, air, used>>

\* The tunnels left out.
RemMacGtpuBug ==
  /\ pc.rrc.at = "rem_mac" /\ pc.pdu = Idle
  /\ mac' = Erase(mac, pc.rrc.r) /\ RrcAt("rem_l2", pc.rrc.r)
  /\ UNCHANGED <<rrcVars, sched, l2, gtpu, s1apVars, air, used>>
RemMacGtpu ==
  /\ pc.rrc.at = "rem_mac" /\ pc.pdu = Idle
  /\ mac' = Erase(mac, pc.rrc.r) /\ gtpu' = Erase(gtpu, pc.rrc.r)
  /\ RrcAt("rem_l2", pc.rrc.r)
  /\ UNCHANGED <<rrcVars, sched, l2, s1apVars, air, used>>

RemRlcPdcp ==
  /\ pc.rrc.at = "rem_l2"
  /\ l2' = Erase(l2, pc.rrc.r) /\ users' = Erase(users, pc.rrc.r)
  /\ mutex' = "free"
  /\ pc' = [pc EXCEPT !.rrc = Idle]
  /\ UNCHANGED <<queue, mac, sched, gtpu, s1apVars, air, used>>

RrcThread == \/ DiscardItem \/ ConReq \/ ReestReq \/ SetupComplete
             \/ SecurityModeComplete \/ ReconfComplete \/ SetActivity
             \/ UlInfoTransfer \/ UlNasTransport
             \/ ProcessRlFailure \/ RlFailureRelease
             \/ ProcessReleaseComplete \/ ReleaseSlept
             \/ RemUser \/ RemMacGtpu \/ RemRlcPdcp

(***************************************************************************)
(* Activity monitor: a user whose deadline has passed.                     *)
(***************************************************************************)
\* is_timeout answers yes: the user is to be released.
IsTimeout(r) == users' = [users EXCEPT ![r].state = "RELEASE_REQUEST"]

\* A late user that S1AP does not know is left to S1AP all the same.
MonitorCheckBug(r) ==
  /\ r \in DOMAIN users /\ pc.mon = Idle /\ mutex = "free" /\ Room
  /\ IsTimeout(r)
  /\ pc' = [pc EXCEPT !.mon = At("release", r)] /\ mutex' = "mon"
  /\ UNCHANGED <<queue, lowVars, s1apVars, air, used>>
MonitorCheck(r) ==
  /\ r \in DOMAIN users /\ pc.mon = Idle /\ mutex = "free" /\ Room
  /\ IsTimeout(r)
  /\ IF UserExists(r)
     THEN pc' = [pc EXCEPT !.mon = At("release", r)] /\ mutex' = "mon" /\ UNCHANGED queue
     ELSE queue' = Append(queue, Item("REM", r)) /\ UNCHANGED <<pc, mutex>>
  /\ UNCHANGED <<lowVars, s1apVars, air, used>>

MonitorRelease ==
  /\ pc.mon # Idle
  /\ UserRelease(pc.mon.r) /\ queue' = queue \o ReleaseItems(pc.mon.r)
  /\ mutex' = "free" /\ pc' = [pc EXCEPT !.mon = Idle]
  /\ UNCHANGED <<users, lowVars, enbId, nextEnb, mme, s1, air, used>>

(***************************************************************************)
(* S1AP thread.  A message of the MME names an eNB identifier it believes  *)
(* in; RRC is called under user_mutex.                                     *)
(***************************************************************************)
Receives(e, beliefs) ==
  /\ pc.s1ap = Idle /\ mutex = "free" /\ MmeConnected
  /\ mme[e] \in beliefs /\ e \in DOMAIN enbId
Active == {"known", "setup", "active", "erab"}

\* Both set-up handlers and the NAS transport note the identifier of the MME.
NoteMmeId(e) == ctxt' = Put(ctxt, enbId[e], [CtxtOf(enbId[e]) EXCEPT !.mme = e])

DlNasTransport(e) ==
  /\ Receives(e, Active) /\ NoteMmeId(e)
  /\ UNCHANGED <<rrcVars, lowVars, enbId, nextEnb, mme, s1, air, pc, used>>

\* The tunnel left out for a user that has one.
AddTunnelBug(r, lcid) == gtpu' = IF r \in DOMAIN gtpu THEN gtpu ELSE Put(gtpu, r, {lcid})
AddTunnel(r, lcid) ==
  gtpu' = Put(gtpu, r, (IF r \in DOMAIN gtpu THEN gtpu[r] ELSE {}) \cup {lcid})
SetupErab(r, lcid) ==
  /\ users' = [users EXCEPT ![r].erabs = @ \cup {lcid}]
  /\ AddTunnel(r, lcid)

SecurityModeCommand(r) == air' = SendDl(r, "smc")

InitialCtxtSetupRequest(e) ==
  /\ Receives(e, {"known"}) /\ NoteMmeId(e)
  /\ mme' = [mme EXCEPT ![e] = "setup"]
  /\ LET r == enbId[e]
     IN IF r \in DOMAIN users THEN SetupErab(r, Drb1) /\ SecurityModeCommand(r)
        ELSE UNCHANGED <<users, gtpu, air>>
  /\ UNCHANGED <<queue, mutex, mac, sched, l2, enbId, nextEnb, s1, pc, used>>

\* rrc::setup_ue_erabs answers the MME before the bearer is configured.
ErabSetupResponse(e) == mme' = Told(e, {"active"}, "erab")

ErabSetupRequest(e) ==
  /\ Receives(e, {"active"}) /\ NoteMmeId(e) /\ Event
  /\ LET r == enbId[e]
     IN IF r \notin DOMAIN users THEN UNCHANGED <<users, gtpu, l2, air, mme>>
        ELSE /\ SetupErab(r, Drb2) /\ ErabSetupResponse(e)
             /\ \E configured \in BOOLEAN : ReconfNewBearer(r, configured)
  /\ UNCHANGED <<queue, mutex, mac, sched, enbId, nextEnb, s1, pc>>

\* UEContextReleaseCommand with both identifiers: forget the eNB identifier,
\* clear the E-RABs under user_mutex; then, without it, answer, drop the
\* context and tell RRC.
ReleaseErabs(r) == users' = IF r \in DOMAIN users THEN [users EXCEPT ![r].erabs = {}] ELSE users

ReleaseCommand(e) ==
  /\ Receives(e, Active)
  /\ mme' = [mme EXCEPT ![e] = "none"] /\ enbId' = Erase(enbId, e)
  /\ LET r == enbId[e]
     IN IF UserExists(r)
        THEN ReleaseErabs(r) /\ pc' = [pc EXCEPT !.s1ap = At("complete", r)]
        ELSE UNCHANGED <<users, pc>>
  /\ UNCHANGED <<queue, mutex, lowVars, ctxt, nextEnb, s1, air, used>>

ReleaseCommandComplete ==
  /\ pc.s1ap # Idle
  /\ ctxt' = Erase(ctxt, pc.s1ap.r)
  /\ queue' = Append(queue, Item("REL", pc.s1ap.r))
  /\ pc' = [pc EXCEPT !.s1ap = Idle]
  /\ UNCHANGED <<users, mutex, lowVars, enbId, nextEnb, mme, s1, air, used>>

\* The same command with the identifier of the MME only: find_mme_ue_id returns
\* the rnti field of the context, which nobody sets, so no context is found.
ReleaseCommandMmeId(e) ==
  /\ Receives(e, Active)
  /\ mme' = [mme EXCEPT ![e] = "none"]
  /\ \E r \in DOMAIN ctxt : ctxt[r].mme = e /\ enbId' = Erase(enbId, ctxt[r].enb)
  /\ UNCHANGED <<rrcVars, lowVars, ctxt, nextEnb, s1, air, pc, used>>

\* recv returns 0: the eNodeB connects again and asks for a new S1 set-up; if
\* the request cannot be sent the thread ends.  A set-up failure changes nothing.
MmeDown ==
  /\ pc.s1ap = Idle /\ s1 \in {"asked", "up"}
  /\ s1' = "down" /\ mme' = [e \in EnbIds |-> "none"]
  /\ Event
  /\ UNCHANGED <<rrcVars, lowVars, ctxt, enbId, nextEnb, air, pc>>

SetupS1 ==
  /\ s1 = "down" /\ s1' \in {"asked", "ended"}
  /\ UNCHANGED <<rrcVars, lowVars, ctxt, enbId, nextEnb, mme, air, pc, used>>

S1SetupResponse ==
  /\ s1 = "asked" /\ s1' = "up"
  /\ UNCHANGED <<rrcVars, lowVars, ctxt, enbId, nextEnb, mme, air, pc, used>>

Ue(r) == Msg3(r) \/ CrntiCe(r) \/ Answer(r) \/ UlData(r) \/ UlNas(r) \/ RlFailure(r)
Mme(e) == \/ DlNasTransport(e) \/ InitialCtxtSetupRequest(e) \/ ErabSetupRequest(e)
          \/ ReleaseCommand(e) \/ ReleaseCommandMmeId(e)

Next == \/ RachDetected \/ AddUser \/ UpdUser
        \/ \E r \in Rnti : Ue(r) \/ MonitorCheck(r)
        \/ RrcThread \/ MonitorRelease
        \/ \E e \in EnbIds : Mme(e)
        \/ ReleaseCommandComplete \/ MmeDown \/ SetupS1 \/ S1SetupResponse

\* Every thread runs and time passes; UEs and the MME owe nothing.
Fairness == /\ WF_vars(AddUser) /\ WF_vars(UpdUser)
            /\ WF_vars(RrcThread)
            /\ \A r \in Rnti : SF_vars(MonitorCheck(r))
            /\ WF_vars(MonitorRelease)
            /\ WF_vars(ReleaseCommandComplete)
Spec == Init /\ [][Next]_vars /\ Fairness

(***************************************************************************)
(* Properties.                                                             *)
(***************************************************************************)
Removing(r) == pc.rrc.r = r /\ pc.rrc.at \in {"rem_mac", "rem_l2"}
OnItsWayOut(r) == \/ \E i \in DOMAIN queue : queue[i].rnti = r /\ queue[i].kind \in {"REL", "REM"}
                  \/ pc.rrc.r = r /\ pc.rrc.at \in {"released", "rem_mac", "rem_l2"}

\* No layer keeps a user the others do not have (rrc.cc:599 removes it from
\* all of them, rrc.cc:165 and mac.cc:480 create it): RRC, RLC and PDCP have
\* the same users; MAC and the scheduler have them too unless the user is
\* being created or removed; and a tunnel with an E-RAB has a user.
LayersAgree ==
  /\ DOMAIN l2 = DOMAIN users
  /\ \A r \in DOMAIN mac \cup DOMAIN users :
       ~Removing(r) => /\ r \in DOMAIN mac /\ r \in sched
                       /\ r \in DOMAIN users \/ pc.prach.r = r
  /\ sched \subseteq DOMAIN mac
  /\ \A r \in DOMAIN gtpu : gtpu[r] # {} => r \in DOMAIN users

\* A user RRC reports as connected (rrc.cc:1021) has a data bearer that works
\* end to end - in RLC, PDCP and GTP-U - no data bearer of its RLC and PDCP
\* lacks its tunnel, and its PHY configuration is in use, whatever releases,
\* timeouts and set-ups crossed on the way.
Tunnels(r) == IF r \in DOMAIN gtpu THEN gtpu[r] ELSE {}
RegisteredIsComplete ==
  \A r \in DOMAIN users : users[r].state = "REGISTERED" /\ ~Removing(r) =>
    /\ users[r].cfgOk
    /\ l2[r] \cap {Drb1, Drb2} # {} /\ l2[r] \cap {Drb1, Drb2} \subseteq Tunnels(r)

\* A user past its set-up whose S1AP context is gone is on its way out: every
\* path that erases the context (s1ap.cc:223, s1ap.cc:600) has its removal in
\* RRC's queue or under way, even when a late message of the UE comes between.
NoConnectedOrphan ==
  \A r \in DOMAIN users :
    users[r].state \in {"WAIT_FOR_CON_RECONF_COMPLETE", "REGISTERED"} /\ r \notin DOMAIN ctxt
      => OnItsWayOut(r)

\* The PDU thread in upd_user and the RRC thread in rem_user wait for each other.
Deadlocked == pc.pdu # Idle /\ pc.rrc.at = "rem_mac"

\* Every user leaves all layers in the end, for whatever reason it stopped
\* sending: the MME may be lost, its command may cross the request of the
\* eNodeB, or be one that finds no context (rrc.cc:841, s1ap.cc:221); or the
\* locks of MAC and RRC are held crosswise.
EveryUserLeaves ==
  \A r \in Rnti : r \in DOMAIN users ~> r \notin DOMAIN users \cup DOMAIN mac \/ Deadlocked

\* rrc.cc:197: upd_user is "Called by MAC reader thread (can wait to process)":
\* the wait ends.
UpdUserReturns == pc.pdu # Idle ~> pc.pdu = Idle

=============================================================================
