----------------------------- MODULE UserProofs -----------------------------
(***************************************************************************)
(* UserLifecycle, for any number of users and events and any bound of the  *)
(* queue: what the layers know of a user agrees, a registered user has its *)
(* bearer, and a user without a context at the MME is being removed.       *)
(***************************************************************************)
EXTENDS UserLifecycle, SequenceTheorems, TLAPS

Map(V) == UNION {[D -> V] : D \in SUBSET Rnti}

Kinds   == {"CON_REQ", "REEST_REQ", "SETUP_COMPLETE", "SECURITY_MODE_COMPLETE",
            "RECONF_COMPLETE", "NAS", "ACT", "RLF", "REL", "REM"}
Answers == {"SETUP_COMPLETE", "SECURITY_MODE_COMPLETE", "RECONF_COMPLETE"}
Drbs    == {Drb1, Drb2}
Removal == {"rem_mac", "rem_l2"}

User    == [state : States, rlf : Nat, erabs : SUBSET Drbs, cfgOk : BOOLEAN]
Ctxt    == [enb : {0} \cup EnbIds, mme : {0} \cup EnbIds, rel : BOOLEAN]
Entry  == [kind : Kinds, rnti : Rnti, old : {0} \cup Rnti]
Doing(places) == {Idle} \cup [at : places, r : Rnti, old : {0} \cup Rnti]

\* MAC asks RRC to go on under an old RNTI.
Updating == {Idle} \cup [at : {"upd_user"}, r : Rnti, old : Rnti]

Places == [rrc : Doing({"nas", "rl_failure", "released"} \cup Removal),
           mon : Doing({"release"}), s1ap : Doing({"complete"}),
           pdu : Updating, prach : Doing({"add_user"})]

Types ==
    /\ users \in Map(User) /\ l2 \in Map(SUBSET (0 .. Drb2)) /\ mac \in Map(Rnti)
    /\ gtpu \in Map(SUBSET Drbs) /\ ctxt \in Map(Ctxt) /\ enbId \in Map(Rnti)
    /\ sched \in SUBSET Rnti
    /\ queue \in Seq(Entry)
    /\ nextEnb \in 1 .. MaxRnti + 1 /\ s1 \in {"down", "asked", "up", "ended"}
    /\ mme \in [EnbIds -> {"none", "known", "setup", "active", "erab"}]
    /\ air \in [Rnti -> SUBSET {"setup", "smc", "reconf"}]
    /\ mutex \in {"free", "rrc", "mon"}
    /\ pc \in Places
    /\ used \in [rnti : 0 .. MaxRnti, msg3 : SUBSET Rnti, events : 0 .. MaxEvents]

\* user_mutex is held for a removal, and by the monitor while it asks S1AP. Nobody but the
\* RRC thread removes the user it is working on.
Threads ==
    /\ mutex = "rrc" <=> pc.rrc.at \in Removal
    /\ mutex = "mon" <=> pc.mon # Idle
    /\ pc.rrc # Idle => pc.rrc.r \in DOMAIN users

\* What each layer has of a user that is being created, is there or is being removed.
Layers ==
    /\ DOMAIN l2 = DOMAIN users /\ sched \subseteq DOMAIN mac
    /\ \A r \in DOMAIN users : ~Removing(r) => r \in sched
    /\ \A r \in DOMAIN mac : r \in DOMAIN users \/ pc.prach.r = r
    /\ pc.prach # Idle => pc.prach.r \in sched \ DOMAIN users
    /\ pc.rrc.at \in Removal => pc.rrc.r \notin sched
    /\ pc.rrc.at = "rem_l2" => pc.rrc.r \notin DOMAIN mac /\ Tunnels(pc.rrc.r) = {}
    /\ \A r \in Rnti : Tunnels(r) # {} => r \in DOMAIN users

Queued(q) == {q[i] : i \in DOMAIN q}

\* A message m of RRC that the UE has, or its answer in RRC's queue.
Awaited(r, m) ==
    \/ m \in air[r]
    \/ \E x \in Queued(queue) : x.kind = AnswerKind(m) /\ x.rnti = r

\* An RNTI that RRC has not seen yet: the UE has no message, RRC's queue no answer to one.
Fresh(r) == r > used.rnti \/ pc.prach.r = r
Unseen ==
    /\ pc.prach.r <= used.rnti
    /\ \A r \in Rnti : Fresh(r) =>
         /\ r \notin DOMAIN users /\ air[r] = {}
         /\ \A x \in Queued(queue) : x.rnti = r => x.kind \notin Answers

\* What is set up of the bearers before the UE is told, and stays until it leaves.
Leaves(r)  == pc.rrc.at = "rem_l2" /\ pc.rrc.r = r
Secures(r) == Awaited(r, "smc") \/ Drb1 \in users[r].erabs
Bears(r)   == Awaited(r, "reconf") \/ users[r].state = "REGISTERED"
Bearers ==
    \A r \in DOMAIN users :
      /\ ~Leaves(r) => /\ l2[r] \cap Drbs \subseteq Tunnels(r)
                       /\ Secures(r) => Drb1 \in Tunnels(r)
      /\ users[r].state = "REGISTERED" => users[r].cfgOk
      /\ Bears(r) => l2[r] \cap Drbs # {}

\* A user that S1AP has known and does not know any more is on its way out.
Known(r) == \/ Awaited(r, "smc") \/ Awaited(r, "reconf")
            \/ users[r].state \in {"WAIT_FOR_CON_RECONF_COMPLETE", "REGISTERED"}
Contexts ==
    \A r \in DOMAIN users : Known(r) => r \in DOMAIN ctxt \/ OnItsWayOut(r)

UserInv == Types /\ Threads /\ Layers /\ Unseen /\ Bearers /\ Contexts

LEMMA MapFields ==
  ASSUME NEW V, NEW f \in Map(V)
  PROVE  /\ DOMAIN f \subseteq Rnti
         /\ \A r \in DOMAIN f : f[r] \in V
         /\ f = [r \in DOMAIN f |-> f[r]]
  BY DEF Map

LEMMA MapIntro ==
  ASSUME NEW V, NEW D \in SUBSET Rnti, NEW f, f = [r \in D |-> f[r]], \A r \in D : f[r] \in V
  PROVE  f \in Map(V)
  BY DEF Map

LEMMA PutMap ==
  ASSUME NEW V, NEW f \in Map(V), NEW k \in Rnti, NEW v \in V
  PROVE  Put(f, k, v) \in Map(V)
  <1> DEFINE g == [r \in DOMAIN f \cup {k} |-> IF r = k THEN v ELSE f[r]]
  <1>1. DOMAIN f \subseteq Rnti /\ \A r \in DOMAIN f : f[r] \in V
    BY MapFields
  <1>2. g \in [DOMAIN f \cup {k} -> V]
    BY <1>1
  <1>3. g \in Map(V)
    BY <1>1, <1>2 DEF Map
  <1>4. QED
    BY <1>3 DEF Put

LEMMA EraseMap ==
  ASSUME NEW V, NEW f \in Map(V), NEW k
  PROVE  Erase(f, k) \in Map(V)
  <1> DEFINE g == [r \in DOMAIN f \ {k} |-> f[r]]
  <1>1. DOMAIN f \subseteq Rnti /\ \A r \in DOMAIN f : f[r] \in V
    BY MapFields
  <1>2. g \in [DOMAIN f \ {k} -> V]
    BY <1>1
  <1>3. g \in Map(V)
    BY <1>1, <1>2 DEF Map
  <1>4. QED
    BY <1>3 DEF Erase, Restrict

LEMMA ExceptMap ==
  ASSUME NEW V, NEW f \in Map(V), NEW k \in DOMAIN f, NEW v \in V
  PROVE  [f EXCEPT ![k] = v] \in Map(V)
  BY DEF Map

\* What is in the queue after each operation on it.
LEMMA Queues ==
  /\ \A q \in Seq(Entry), x \in Entry :
       Append(q, x) \in Seq(Entry) /\ Queued(Append(q, x)) = Queued(q) \cup {x}
  /\ \A q \in Seq(Entry) : q # << >> =>
       /\ Tail(q) \in Seq(Entry) /\ Head(q) \in Entry
       /\ Queued(q) = Queued(Tail(q)) \cup {Head(q)}
  /\ \A q, s \in Seq(Entry) :
       q \o s \in Seq(Entry) /\ Queued(q \o s) = Queued(q) \cup Queued(s)
  /\ \A q \in Seq(Entry) : Queued(q) \subseteq Entry
  /\ Queued(<< >>) = {}
  /\ \A x : Queued(<<x>>) = {x}
  <1>1. ASSUME NEW q \in Seq(Entry)
        PROVE  /\ Len(q) \in Nat /\ DOMAIN q = 1 .. Len(q)
               /\ \A i \in 1 .. Len(q) : q[i] \in Entry
    BY LenProperties, ElementOfSeq
  <1>2. ASSUME NEW q \in Seq(Entry), NEW x \in Entry
        PROVE  Append(q, x) \in Seq(Entry) /\ Queued(Append(q, x)) = Queued(q) \cup {x}
    <2>1. /\ Append(q, x) \in Seq(Entry) /\ Len(Append(q, x)) = Len(q) + 1
          /\ \A i \in 1 .. Len(q) : Append(q, x)[i] = q[i]
          /\ Append(q, x)[Len(q) + 1] = x
      BY AppendProperties
    <2>2. \A i : i \in 1 .. Len(q) + 1 <=> i \in 1 .. Len(q) \/ i = Len(q) + 1
      BY <1>1
    <2>3. QED
      BY <1>1, <2>1, <2>2 DEF Queued
  <1>3. ASSUME NEW q \in Seq(Entry), q # << >>
        PROVE  /\ Tail(q) \in Seq(Entry) /\ Head(q) \in Entry
               /\ Queued(q) = Queued(Tail(q)) \cup {Head(q)}
    <2>1. /\ Tail(q) \in Seq(Entry) /\ Head(q) \in Entry /\ Len(Tail(q)) = Len(q) - 1
          /\ \A i \in 1 .. Len(Tail(q)) : Tail(q)[i] = q[i + 1]
          /\ Head(q) = q[1] /\ Len(q) > 0
      BY <1>1, <1>3, HeadTailProperties, EmptySeq
    <2>2. Len(q) \in Nat /\ DOMAIN q = 1 .. Len(q) /\ DOMAIN Tail(q) = 1 .. Len(q) - 1
      BY <1>1, <2>1
    <2>3. \A i \in 1 .. Len(q) - 1 : i + 1 \in 1 .. Len(q)
      BY <2>2
    <2>4. \A i \in 1 .. Len(q) : i = 1 \/ (i - 1 \in 1 .. Len(q) - 1 /\ (i - 1) + 1 = i)
      BY <2>2
    <2>5. 1 \in 1 .. Len(q)
      BY <2>1, <2>2
    <2>6. Queued(q) \subseteq Queued(Tail(q)) \cup {Head(q)}
      <3>1. ASSUME NEW i \in 1 .. Len(q), i # 1
            PROVE  q[i] \in Queued(Tail(q))
        <4>1. i - 1 \in 1 .. Len(q) - 1 /\ Tail(q)[i - 1] = q[i]
          BY <2>1, <2>4, <3>1
        <4>2. QED
          BY <2>2, <4>1 DEF Queued
      <3>2. QED
        BY <2>1, <2>2, <3>1 DEF Queued
    <2>7. Queued(Tail(q)) \cup {Head(q)} \subseteq Queued(q)
      BY <2>1, <2>2, <2>3, <2>5 DEF Queued
    <2>8. QED
      BY <2>1, <2>6, <2>7
  <1>4. ASSUME NEW q \in Seq(Entry), NEW s \in Seq(Entry)
        PROVE  q \o s \in Seq(Entry) /\ Queued(q \o s) = Queued(q) \cup Queued(s)
    <2>1. /\ q \o s \in Seq(Entry) /\ Len(q \o s) = Len(q) + Len(s)
          /\ \A i \in 1 .. Len(q) + Len(s) :
               (q \o s)[i] = IF i <= Len(q) THEN q[i] ELSE s[i - Len(q)]
      BY <1>1, ConcatProperties
    <2>2. /\ Len(q) \in Nat /\ DOMAIN q = 1 .. Len(q) /\ Len(s) \in Nat /\ DOMAIN s = 1 .. Len(s)
          /\ DOMAIN (q \o s) = 1 .. Len(q) + Len(s)
      BY <1>1, <2>1
    <2>3. \A i \in 1 .. Len(q) + Len(s) : i \in 1 .. Len(q) \/ (i > Len(q) /\ i - Len(q) \in 1 .. Len(s))
      BY <2>2
    <2>4. \A i \in 1 .. Len(q) : i \in 1 .. Len(q) + Len(s) /\ i <= Len(q)
      BY <2>2
    <2>5. \A i \in 1 .. Len(s) : /\ Len(q) + i \in 1 .. Len(q) + Len(s) /\ ~(Len(q) + i <= Len(q))
                                 /\ (Len(q) + i) - Len(q) = i
      BY <2>2
    <2>6. Queued(q \o s) \subseteq Queued(q) \cup Queued(s)
      BY <2>1, <2>2, <2>3 DEF Queued
    <2>7. Queued(q) \subseteq Queued(q \o s)
      BY <2>1, <2>2, <2>4 DEF Queued
    <2>8. Queued(s) \subseteq Queued(q \o s)
      BY <2>1, <2>2, <2>5 DEF Queued
    <2>9. QED
      BY <2>1, <2>6, <2>7, <2>8
  <1>5. \A q \in Seq(Entry) : Queued(q) \subseteq Entry
    BY <1>1 DEF Queued
  <1>6. Queued(<< >>) = {} /\ \A x : Queued(<<x>>) = {x}
    BY DEF Queued
  <1>7. QED
    BY <1>2, <1>3, <1>4, <1>5, <1>6

LEMMA TypeFacts ==
  ASSUME Types
  PROVE  /\ DOMAIN users \subseteq Rnti /\ DOMAIN l2 \subseteq Rnti /\ DOMAIN mac \subseteq Rnti
         /\ DOMAIN gtpu \subseteq Rnti /\ DOMAIN ctxt \subseteq Rnti /\ DOMAIN enbId \subseteq Rnti
         /\ \A r \in DOMAIN users : users[r] \in User
         /\ \A r \in DOMAIN l2 : l2[r] \subseteq 0 .. Drb2
         /\ \A r \in DOMAIN mac : mac[r] \in Rnti
         /\ \A r \in DOMAIN gtpu : gtpu[r] \subseteq Drbs
         /\ \A r \in DOMAIN ctxt : ctxt[r] \in Ctxt
         /\ \A e \in DOMAIN enbId : enbId[e] \in Rnti
         /\ queue \in Seq(Entry)
  BY MapFields DEF Types

-----------------------------------------------------------------------------
(* What a step does to the users that stay.                                *)

Kept(r) ==
    /\ r \in DOMAIN users
    /\ ~Leaves(r)' => /\ ~Leaves(r) /\ Tunnels(r) \subseteq Tunnels(r)'
                      /\ l2'[r] \cap Drbs \subseteq l2[r] \cup Tunnels(r)' \cup {b \in {Drb1} : Secures(r)}
                      /\ Secures(r)' => Secures(r) \/ Drb1 \in Tunnels(r)'
    /\ users'[r].state = "REGISTERED" =>
         users'[r].cfgOk \/ (users[r].state = "REGISTERED" /\ users[r].cfgOk = users'[r].cfgOk)
    /\ l2[r] \cap Drbs \subseteq l2'[r]
    /\ Bears(r)' => Bears(r) \/ l2'[r] \cap Drbs # {}
    /\ Known(r)' => Known(r) \/ r \in DOMAIN ctxt'
    /\ r \in DOMAIN ctxt => r \in DOMAIN ctxt' \/ OnItsWayOut(r)'
    /\ OnItsWayOut(r) => OnItsWayOut(r)'

\* A user that RRC has just created.
Created(r) ==
    /\ users'[r] = NewUser /\ l2'[r] = NewBearers
    /\ ~Awaited(r, "smc")' /\ ~Awaited(r, "reconf")'

LEMMA KeptInv ==
  ASSUME Bearers, Contexts, \A r \in DOMAIN users' : Kept(r) \/ Created(r)
  PROVE  Bearers' /\ Contexts'
  <1>1. ASSUME NEW r \in DOMAIN users', Kept(r)
        PROVE  /\ ~Leaves(r)' => /\ l2'[r] \cap Drbs \subseteq Tunnels(r)'
                                 /\ Secures(r)' => Drb1 \in Tunnels(r)'
               /\ users'[r].state = "REGISTERED" => users'[r].cfgOk
               /\ Bears(r)' => l2'[r] \cap Drbs # {}
               /\ Known(r)' => r \in DOMAIN ctxt' \/ OnItsWayOut(r)'
    <2> SUFFICES ASSUME r \in DOMAIN users PROVE
               /\ ~Leaves(r)' => /\ l2'[r] \cap Drbs \subseteq Tunnels(r)'
                                 /\ Secures(r)' => Drb1 \in Tunnels(r)'
               /\ users'[r].state = "REGISTERED" => users'[r].cfgOk
               /\ Bears(r)' => l2'[r] \cap Drbs # {}
               /\ Known(r)' => r \in DOMAIN ctxt' \/ OnItsWayOut(r)'
      BY <1>1 DEF Kept
    <2>1. /\ ~Leaves(r) => /\ l2[r] \cap Drbs \subseteq Tunnels(r)
                           /\ Secures(r) => Drb1 \in Tunnels(r)
          /\ users[r].state = "REGISTERED" => users[r].cfgOk
          /\ Bears(r) => l2[r] \cap Drbs # {}
          /\ Known(r) => r \in DOMAIN ctxt \/ OnItsWayOut(r)
      BY DEF Bearers, Contexts
    <2>2. ~Leaves(r)' => l2'[r] \cap Drbs \subseteq Tunnels(r)'
      BY <1>1, <2>1 DEF Kept
    <2>3. ~Leaves(r)' /\ Secures(r)' => Drb1 \in Tunnels(r)'
      BY <1>1, <2>1 DEF Kept
    <2>4. users'[r].state = "REGISTERED" => users'[r].cfgOk
      BY <1>1, <2>1 DEF Kept
    <2>5. Bears(r)' => l2'[r] \cap Drbs # {}
      BY <1>1, <2>1 DEF Kept
    <2>6. Known(r)' => r \in DOMAIN ctxt' \/ OnItsWayOut(r)'
      BY <1>1, <2>1 DEF Kept
    <2>7. QED
      BY <2>2, <2>3, <2>4, <2>5, <2>6
  <1>2. ASSUME NEW r \in DOMAIN users', Created(r)
        PROVE  /\ l2'[r] \cap Drbs = {} /\ ~Secures(r)' /\ ~Bears(r)' /\ ~Known(r)'
               /\ users'[r].state # "REGISTERED"
    BY <1>2 DEF Created, NewUser, NewBearers, Srb0, Drbs, Drb1, Drb2, Secures, Bears, Known
  <1>3. Bearers'
    BY <1>1, <1>2 DEF Bearers
  <1>4. Contexts'
    BY <1>1, <1>2 DEF Contexts
  <1>5. QED
    BY <1>3, <1>4

LEMMA LayersKept ==
  ASSUME Layers, DOMAIN users' = DOMAIN users, DOMAIN l2' = DOMAIN l2, DOMAIN mac' = DOMAIN mac,
         UNCHANGED sched, pc'.prach = pc.prach,
         \/ pc'.rrc = pc.rrc
         \/ pc.rrc.at \notin Removal /\ pc'.rrc.at \notin Removal,
         \A r \in Rnti : Tunnels(r)' = Tunnels(r) \/ (r \in DOMAIN users /\ ~Leaves(r)),
         pc.rrc.at = "rem_l2" => pc.rrc.r \in Rnti
  PROVE  Layers'
  BY DEF Layers, Removing, Removal, Leaves

LEMMA UnseenKept ==
  ASSUME Unseen, DOMAIN users' = DOMAIN users, used'.rnti = used.rnti, pc'.prach = pc.prach,
         \A r \in Rnti : air'[r] \subseteq air[r] \/ r \in DOMAIN users,
         \A x \in Queued(queue') : x \in Queued(queue) \/ x.kind \notin Answers \/ x.rnti \in DOMAIN users
  PROVE  Unseen'
  BY DEF Unseen, Fresh

\* The words of OnItsWayOut about the queue, before and after a step.
WayOut(q, rrc, r) == \/ \E x \in Queued(q) : x.rnti = r /\ x.kind \in {"REL", "REM"}
                     \/ rrc.r = r /\ rrc.at \in {"released", "rem_mac", "rem_l2"}

LEMMA WaysOut ==
  \A r : /\ OnItsWayOut(r) <=> WayOut(queue, pc.rrc, r)
         /\ OnItsWayOut(r)' <=> WayOut(queue', pc'.rrc, r)
  BY DEF OnItsWayOut, Queued, WayOut

LEMMA AwaitedKept ==
  ASSUME NEW r, NEW m \in {"setup", "smc", "reconf"}, m \in air'[r] => m \in air[r],
         \A x \in Queued(queue') : x \in Queued(queue) \/ x.kind \notin Answers
  PROVE  Awaited(r, m)' => Awaited(r, m)
  BY DEF Awaited, AnswerKind, Answers

\* The user is told nothing new of its bearers and gets none.
SameOrLess(r) ==
    /\ users'[r].erabs \subseteq users[r].erabs
    /\ \/ users'[r].state = users[r].state /\ users'[r].cfgOk = users[r].cfgOk
       \/ users'[r].state \notin {"WAIT_FOR_CON_RECONF_COMPLETE", "REGISTERED"}
    /\ l2'[r] \cap Drbs = l2[r] \cap Drbs
    /\ \A m \in {"smc", "reconf"} : m \in air'[r] => m \in air[r]

LEMMA KeptBy ==
  ASSUME NEW r \in DOMAIN users, SameOrLess(r),
         ~Leaves(r)' => ~Leaves(r) /\ Tunnels(r) \subseteq Tunnels(r)',
         \A x \in Queued(queue') : x \in Queued(queue) \/ x.kind \notin Answers,
         r \in DOMAIN ctxt => r \in DOMAIN ctxt' \/ OnItsWayOut(r)',
         OnItsWayOut(r) => OnItsWayOut(r)'
  PROVE  Kept(r)
  <1>1. \A m \in {"smc", "reconf"} : Awaited(r, m)' => Awaited(r, m)
    BY AwaitedKept DEF SameOrLess
  <1>2. Secures(r)' => Secures(r)
    BY <1>1 DEF Secures, SameOrLess
  <1>3. Bears(r)' => Bears(r)
    BY <1>1 DEF Bears, SameOrLess
  <1>4. Known(r)' => Known(r)
    BY <1>1 DEF Known, SameOrLess
  <1>5. QED
    BY <1>2, <1>3, <1>4 DEF Kept, SameOrLess

\* The steps that only move messages, contexts and the threads.
LEMMA ControlInv ==
  ASSUME UserInv, Types', Threads',
         DOMAIN users' = DOMAIN users, DOMAIN l2' = DOMAIN l2, DOMAIN mac' = DOMAIN mac,
         UNCHANGED sched, pc'.prach = pc.prach, used'.rnti = used.rnti,
         \A r \in Rnti : Tunnels(r)' = Tunnels(r),
         \/ pc'.rrc = pc.rrc
         \/ pc.rrc.at \notin Removal /\ pc'.rrc.at \notin Removal,
         \A r \in Rnti : air'[r] \subseteq air[r] \/ r \in DOMAIN users,
         \A x \in Queued(queue') : x \in Queued(queue) \/ x.kind \notin Answers,
         \A r \in DOMAIN users :
           /\ SameOrLess(r)
           /\ OnItsWayOut(r) => OnItsWayOut(r)'
           /\ r \in DOMAIN ctxt => r \in DOMAIN ctxt' \/ OnItsWayOut(r)'
  PROVE  UserInv'
  <1>0. Types /\ Threads /\ Layers /\ Unseen /\ Bearers /\ Contexts
    BY DEF UserInv
  <1>1. DOMAIN users \subseteq Rnti
    BY <1>0, TypeFacts
  <1>2. Layers'
    <2>1. pc.rrc.at = "rem_l2" => pc.rrc.r \in Rnti
      BY <1>0, <1>1 DEF Threads, Idle
    <2>2. QED
      BY <1>0, <2>1, LayersKept
  <1>3. Unseen'
    BY <1>0, UnseenKept
  <1>4. ASSUME NEW r \in DOMAIN users
        PROVE  Kept(r)
    <2>1. r \in Rnti /\ Tunnels(r)' = Tunnels(r)
      BY <1>1
    <2>2. ~Leaves(r)' => ~Leaves(r)
      BY DEF Leaves, Removal
    <2>3. QED
      BY <2>1, <2>2, KeptBy
  <1>5. Bearers' /\ Contexts'
    BY <1>0, <1>4, KeptInv
  <1>6. QED
    BY <1>2, <1>3, <1>5 DEF UserInv

-----------------------------------------------------------------------------
(* The UE's messages and what the RRC thread drops.                        *)

\* A new item at the end of the queue.
LEMMA Enqueued ==
  ASSUME Types, NEW x \in Entry, queue' = Append(queue, x)
  PROVE  queue' \in Seq(Entry) /\ Queued(queue') = Queued(queue) \cup {x}
  BY TypeFacts, Queues

\* The item of a handler of the RRC thread.
LEMMA Popped ==
  ASSUME Types, NEW kind, Pops(kind)
  PROVE  /\ Who \in DOMAIN users /\ Who \in Rnti /\ pc.rrc = Idle /\ pc.rrc.at = "idle"
         /\ users[Who] \in User
         /\ Head(queue) \in Entry /\ Head(queue).kind = kind /\ Head(queue).rnti = Who
         /\ Tail(queue) \in Seq(Entry) /\ Queued(queue) = Queued(Tail(queue)) \cup {Head(queue)}
  <1>1. /\ pc.rrc = Idle /\ queue # << >> /\ Head(queue).kind = kind /\ Who \in DOMAIN users
        /\ queue \in Seq(Entry) /\ Head(queue).rnti = Who
    BY TypeFacts DEF Pops, Who
  <1>2. /\ Head(queue) \in Entry /\ Tail(queue) \in Seq(Entry)
        /\ Queued(queue) = Queued(Tail(queue)) \cup {Head(queue)}
    BY <1>1, Queues
  <1>3. Who \in Rnti /\ users[Who] \in User /\ pc.rrc.at = "idle"
    BY <1>1, TypeFacts DEF Idle
  <1>4. QED
    BY <1>1, <1>2, <1>3

LEMMA ItemType ==
  ASSUME NEW k \in Kinds, NEW r \in Rnti
  PROVE  /\ Item(k, r) \in Entry /\ Item(k, r).kind = k /\ Item(k, r).rnti = r
         /\ \A old \in Rnti : /\ [Item(k, r) EXCEPT !.old = old] \in Entry
                              /\ [Item(k, r) EXCEPT !.old = old].kind = k
  BY DEF Item, Entry

\* An item of the UE or of MAC, that is no answer to a message of RRC, enters the queue.
LEMMA EnqueueInv ==
  ASSUME UserInv, NEW x \in Entry, queue' = Append(queue, x), x.kind \notin Answers,
         UNCHANGED <<users, mutex, mac, sched, l2, ctxt, enbId, nextEnb, mme, s1, air>>,
         \A r \in Rnti : Tunnels(r)' = Tunnels(r), gtpu' \in Map(SUBSET Drbs),
         pc' = pc \/ (\E d \in Updating : pc' = [pc EXCEPT !.pdu = d]),
         used' \in [rnti : 0 .. MaxRnti, msg3 : SUBSET Rnti, events : 0 .. MaxEvents],
         used'.rnti = used.rnti
  PROVE  UserInv'
  <1>0. Types /\ Threads
    BY DEF UserInv
  <1>1. queue' \in Seq(Entry) /\ Queued(queue') = Queued(queue) \cup {x}
    BY <1>0, Enqueued
  <1>2. /\ pc' \in Places /\ pc'.rrc = pc.rrc /\ pc'.mon = pc.mon /\ pc'.prach = pc.prach
    BY <1>0 DEF Types, Places
  <1>3. Types'
    BY <1>0, <1>1, <1>2 DEF Types
  <1>4. Threads'
    BY <1>0, <1>2 DEF Threads
  <1>5. ASSUME NEW r \in DOMAIN users
        PROVE  SameOrLess(r) /\ (OnItsWayOut(r) => OnItsWayOut(r)')
    BY <1>1, <1>2, WaysOut DEF WayOut, SameOrLess
  <1>6. QED
    BY <1>1, <1>2, <1>3, <1>4, <1>5, ControlInv

LEMMA EventUsed ==
  ASSUME Types, Event
  PROVE  /\ used' \in [rnti : 0 .. MaxRnti, msg3 : SUBSET Rnti, events : 0 .. MaxEvents]
         /\ used'.rnti = used.rnti
  <1>1. used \in [rnti : 0 .. MaxRnti, msg3 : SUBSET Rnti, events : 0 .. MaxEvents]
    BY DEF Types
  <1>2. MaxEvents \in Nat /\ used.events + 1 \in 0 .. MaxEvents
    BY <1>1, BoundsAssumption DEF Event, BoundsAssumption
  <1>3. QED
    BY <1>1, <1>2 DEF Event

LEMMA UeInv ==
  ASSUME UserInv, NEW r \in Rnti, Msg3(r) \/ CrntiCe(r) \/ UlNas(r) \/ RlFailure(r)
  PROVE  UserInv'
  <1>0. Types
    BY DEF UserInv
  <1>1. used \in [rnti : 0 .. MaxRnti, msg3 : SUBSET Rnti, events : 0 .. MaxEvents]
    BY <1>0 DEF Types
  <1>2. /\ UNCHANGED <<users, mutex, mac, sched, l2, gtpu, ctxt, enbId, nextEnb, mme, s1, air>>
        /\ \A x \in Rnti : Tunnels(x)' = Tunnels(x)
    BY DEF Msg3, CrntiCe, UlNas, RlFailure, lowVars, s1apVars, Tunnels
  <1>3. gtpu' \in Map(SUBSET Drbs)
    BY <1>0, <1>2 DEF Types
  <1>4. /\ used' \in [rnti : 0 .. MaxRnti, msg3 : SUBSET Rnti, events : 0 .. MaxEvents]
        /\ used'.rnti = used.rnti
    <2>1. CASE Event
      BY <1>0, <2>1, EventUsed
    <2>2. CASE used' = [used EXCEPT !.msg3 = @ \cup {r}]
      BY <1>1, <2>2
    <2>3. QED
      BY <2>1, <2>2 DEF Msg3, CrntiCe, UlNas, RlFailure
  <1>5. pc' = pc \/ (\E d \in Updating : pc' = [pc EXCEPT !.pdu = d])
    <2>1. CASE CrntiCe(r)
      <3>1. PICK old \in sched : pc' = [pc EXCEPT !.pdu = [at |-> "upd_user", r |-> r, old |-> old]]
        BY <2>1 DEF CrntiCe
      <3>2. [at |-> "upd_user", r |-> r, old |-> old] \in Updating
        BY <1>0 DEF Updating, Types
      <3>3. QED
        BY <3>1, <3>2
    <2>2. QED
      BY <2>1 DEF Msg3, UlNas, RlFailure
  <1>6. \E x \in Entry : queue' = Append(queue, x) /\ x.kind \notin Answers
    <2>1. CASE Msg3(r)
      <3>1. CASE queue' = Append(queue, Item("CON_REQ", r))
        BY <3>1, ItemType DEF Kinds, Answers
      <3>2. CASE \E old \in Rnti : queue' = Append(queue, [Item("REEST_REQ", r) EXCEPT !.old = old])
        <4>1. PICK old \in Rnti : queue' = Append(queue, [Item("REEST_REQ", r) EXCEPT !.old = old])
          BY <3>2
        <4>2. /\ [Item("REEST_REQ", r) EXCEPT !.old = old] \in Entry
              /\ [Item("REEST_REQ", r) EXCEPT !.old = old].kind = "REEST_REQ"
          BY ItemType DEF Kinds
        <4>3. QED
          BY <4>1, <4>2 DEF Answers
      <3>3. QED
        BY <2>1, <3>1, <3>2 DEF Msg3
    <2>2. CASE CrntiCe(r)
      <3>1. queue' = Append(queue, Item("REM", r))
        BY <2>2 DEF CrntiCe
      <3>2. QED
        BY <3>1, ItemType DEF Kinds, Answers
    <2>3. CASE UlNas(r)
      <3>1. queue' = Append(queue, Item("NAS", r))
        BY <2>3 DEF UlNas
      <3>2. QED
        BY <3>1, ItemType DEF Kinds, Answers
    <2>4. CASE RlFailure(r)
      <3>1. queue' = Append(queue, Item("RLF", r))
        BY <2>4 DEF RlFailure
      <3>2. QED
        BY <3>1, ItemType DEF Kinds, Answers
    <2>5. QED
      BY <2>1, <2>2, <2>3, <2>4
  <1>7. QED
    BY <1>2, <1>3, <1>4, <1>5, <1>6, EnqueueInv

LEMMA UlDataInv ==
  ASSUME UserInv, NEW t \in Rnti, UlData(t)
  PROVE  UserInv'
  <1>0. Types
    BY DEF UserInv
  <1>1. t \in DOMAIN mac /\ mac[t] \in Rnti /\ gtpu \in Map(SUBSET Drbs)
    BY <1>0, TypeFacts DEF UlData, Reachable, Types
  <1>2. UNCHANGED <<users, mutex, mac, sched, l2, ctxt, enbId, nextEnb, mme, s1, air, pc>>
    BY DEF UlData, s1apVars
  <1>3. gtpu' \in Map(SUBSET Drbs) /\ \A r \in Rnti : Tunnels(r)' = Tunnels(r)
    <2>1. gtpu' = IF mac[t] \in DOMAIN gtpu THEN gtpu ELSE Put(gtpu, mac[t], {})
      BY DEF UlData, GtpuWrite
    <2>2. {} \in SUBSET Drbs
      OBVIOUS
    <2>3. CASE mac[t] \in DOMAIN gtpu
      BY <1>1, <2>1, <2>3 DEF Tunnels
    <2>4. CASE mac[t] \notin DOMAIN gtpu
      <3>1. gtpu' = Put(gtpu, mac[t], {})
        BY <2>1, <2>4
      <3>2. gtpu' \in Map(SUBSET Drbs)
        BY <1>1, <2>2, <3>1, PutMap
      <3>3. \A r \in Rnti : Tunnels(r)' = Tunnels(r)
        BY <2>4, <3>1 DEF Put, Tunnels
      <3>4. QED
        BY <3>2, <3>3
    <2>5. QED
      BY <2>3, <2>4
  <1>4. /\ used' \in [rnti : 0 .. MaxRnti, msg3 : SUBSET Rnti, events : 0 .. MaxEvents]
        /\ used'.rnti = used.rnti
    BY <1>0, EventUsed DEF UlData
  <1>5. Item("ACT", mac[t]) \in Entry /\ Item("ACT", mac[t]).kind = "ACT"
    BY <1>1, ItemType DEF Kinds
  <1>6. queue' = Append(queue, Item("ACT", mac[t]))
    BY DEF UlData
  <1>7. QED
    BY <1>2, <1>3, <1>4, <1>5, <1>6, EnqueueInv DEF Answers

-----------------------------------------------------------------------------
(* The handlers of the RRC thread that move a user towards its removal.    *)

\* What S1AP does with a request to release a user.
LEMMA UserReleaseEffect ==
  ASSUME Types, NEW r \in Rnti, UserRelease(r)
  PROVE  /\ ctxt' \in Map(Ctxt) /\ ReleaseItems(r) \in Seq(Entry)
         /\ Queued(ReleaseItems(r)) \subseteq {Item("REL", r)}
         /\ \A x \in DOMAIN ctxt : x \in DOMAIN ctxt' \/ (x = r /\ Item("REL", r) \in Queued(ReleaseItems(r)))
  <1>1. Item("REL", r) \in Entry /\ ctxt \in Map(Ctxt)
    BY ItemType DEF Kinds, Types
  <1>2. /\ << >> \in Seq(Entry) /\ <<Item("REL", r)>> \in Seq(Entry)
        /\ Queued(<< >>) = {} /\ Queued(<<Item("REL", r)>>) = {Item("REL", r)}
    BY <1>1, Queues
  <1>3. CASE r \in DOMAIN ctxt /\ ctxt[r].rel
    <2>1. ctxt' = Erase(ctxt, r) /\ ReleaseItems(r) = <<Item("REL", r)>>
      BY <1>3 DEF UserRelease, ReleaseItems, UserExists
    <2>2. ctxt' \in Map(Ctxt)
      BY <1>1, <2>1, EraseMap
    <2>3. DOMAIN ctxt' = DOMAIN ctxt \ {r}
      BY <2>1 DEF Erase, Restrict
    <2>4. QED
      BY <1>2, <2>1, <2>2, <2>3
  <1>4. CASE r \in DOMAIN ctxt /\ ~ctxt[r].rel
    <2> DEFINE c == [ctxt[r] EXCEPT !.rel = TRUE]
    <2>1. ctxt' = [ctxt EXCEPT ![r] = c] /\ ReleaseItems(r) = << >>
      BY <1>4 DEF UserRelease, ReleaseItems, UserExists
    <2>2. ctxt[r] \in Ctxt
      BY <1>1, <1>4, MapFields
    <2>3. c \in Ctxt
      BY <2>2 DEF Ctxt
    <2> HIDE DEF c
    <2>4. ctxt' \in Map(Ctxt)
      BY <1>1, <1>4, <2>1, <2>3, ExceptMap
    <2>5. QED
      BY <1>2, <2>1, <2>4
  <1>5. CASE r \notin DOMAIN ctxt
    BY <1>1, <1>2, <1>5 DEF UserRelease, ReleaseItems, UserExists
  <1>6. QED
    BY <1>3, <1>4, <1>5

\* Where the RRC thread may be.
LEMMA RrcPlaces ==
  ASSUME Types, NEW r \in Rnti
  PROVE  /\ [pc EXCEPT !.rrc = Idle] \in Places
         /\ \A at \in {"nas", "rl_failure", "released"} \cup Removal :
              /\ [pc EXCEPT !.rrc = At(at, r)] \in Places
              /\ At(at, r).r = r /\ At(at, r).at = at
  BY DEF Types, Places, Doing, At

\* Only the queue, the contexts and the place of the RRC thread change.
LEMMA RrcInv ==
  ASSUME UserInv,
         UNCHANGED <<users, mutex, mac, sched, l2, gtpu, enbId, nextEnb, mme, s1, used>>,
         ctxt' \in Map(Ctxt), queue' \in Seq(Entry), air' \in [Rnti -> SUBSET {"setup", "smc", "reconf"}],
         pc' \in Places, pc'.mon = pc.mon, pc'.prach = pc.prach,
         \/ pc'.rrc = pc.rrc
         \/ /\ pc.rrc.at \notin Removal /\ pc'.rrc.at \notin Removal
            /\ pc'.rrc # Idle => pc'.rrc.r \in DOMAIN users,
         \A r \in Rnti : air'[r] \subseteq air[r],
         \A x \in Queued(queue') : x \in Queued(queue) \/ x.kind \notin Answers,
         \A r \in DOMAIN users :
           /\ OnItsWayOut(r) => OnItsWayOut(r)'
           /\ r \in DOMAIN ctxt => r \in DOMAIN ctxt' \/ OnItsWayOut(r)'
  PROVE  UserInv'
  <1>0. Types /\ Threads
    BY DEF UserInv
  <1>1. Types'
    BY <1>0 DEF Types
  <1>2. Threads'
    BY <1>0 DEF Threads
  <1>3. \A r \in Rnti : Tunnels(r)' = Tunnels(r)
    BY DEF Tunnels
  <1>4. \A r \in DOMAIN users : SameOrLess(r)
    BY <1>0, TypeFacts DEF SameOrLess
  <1>5. QED
    BY <1>1, <1>2, <1>3, <1>4, ControlInv

\* The item at the head is dropped, or starts something that is not a removal.
LEMMA DroppedInv ==
  ASSUME UserInv, DiscardItem \/ SetActivity \/ UlInfoTransfer
  PROVE  UserInv'
  <1>0. Types /\ Threads
    BY DEF UserInv
  <1>1. /\ queue \in Seq(Entry) /\ queue # << >> /\ queue' = Tail(queue) /\ pc.rrc = Idle
        /\ pc.rrc.at \notin Removal
    BY <1>0, TypeFacts DEF DiscardItem, SetActivity, UlInfoTransfer, Pops, Idle, Removal
  <1>2. /\ queue' \in Seq(Entry) /\ Queued(queue) = Queued(queue') \cup {Head(queue)}
    BY <1>1, Queues
  <1>3. Who \notin DOMAIN users \/ Head(queue).kind \in {"ACT", "NAS"}
    BY DEF DiscardItem, SetActivity, UlInfoTransfer, Pops
  <1>4. UNCHANGED <<users, mutex, mac, sched, l2, gtpu, ctxt, enbId, nextEnb, mme, s1, air, used>>
    BY DEF DiscardItem, SetActivity, UlInfoTransfer, lowVars, s1apVars
  <1>5. /\ pc' \in Places /\ pc'.mon = pc.mon /\ pc'.prach = pc.prach
        /\ \/ pc' = pc
           \/ /\ pc'.rrc.at = "nas" /\ pc'.rrc.r \in DOMAIN users
    <2>1. pc \in Places
      BY <1>0 DEF Types
    <2>2. CASE pc' = pc
      BY <2>1, <2>2
    <2>3. CASE Who \in DOMAIN users /\ RrcAt("nas", Who)
      <3>1. Who \in Rnti /\ pc' = [pc EXCEPT !.rrc = At("nas", Who)]
        BY <1>0, <2>3, TypeFacts DEF RrcAt
      <3>2. pc' \in Places /\ At("nas", Who).r = Who /\ At("nas", Who).at = "nas"
        BY <1>0, <3>1, RrcPlaces
      <3>3. pc'.rrc = At("nas", Who) /\ pc'.mon = pc.mon /\ pc'.prach = pc.prach
        BY <2>1, <3>1 DEF Places
      <3>4. QED
        BY <2>3, <3>2, <3>3
    <2>4. CASE UlInfoTransfer
      BY <2>2, <2>3, <2>4 DEF UlInfoTransfer, Pops, Who
    <2>5. QED
      BY <2>2, <2>4 DEF DiscardItem, SetActivity
  <1>6. \A r \in DOMAIN users : OnItsWayOut(r) => OnItsWayOut(r)'
    BY <1>1, <1>2, <1>3, <1>5, WaysOut DEF WayOut, Idle, Who
  <1>7. ctxt' \in Map(Ctxt) /\ air' \in [Rnti -> SUBSET {"setup", "smc", "reconf"}]
    BY <1>0, <1>4 DEF Types
  <1>8. pc'.rrc = pc.rrc \/ (pc'.rrc.at \notin Removal /\ pc'.rrc.r \in DOMAIN users)
    BY <1>5 DEF Removal
  <1>9. QED
    BY <1>1, <1>2, <1>4, <1>5, <1>6, <1>7, <1>8, RrcInv

LEMMA CtxtFacts ==
  ASSUME Types, NEW r \in Rnti
  PROVE  /\ CtxtOf(r) \in Ctxt
         /\ \A c \in Ctxt : Put(ctxt, r, c) \in Map(Ctxt) /\ DOMAIN Put(ctxt, r, c) = DOMAIN ctxt \cup {r}
  <1>1. ctxt \in Map(Ctxt)
    BY DEF Types
  <1>2. Blank \in Ctxt
    BY DEF Blank, Ctxt
  <1>3. CtxtOf(r) \in Ctxt
    BY <1>1, <1>2, MapFields DEF CtxtOf
  <1>4. QED
    BY <1>1, <1>3, PutMap DEF Put

\* The user an unfinished handler of the RRC thread is about.
LEMMA RrcWorksOn ==
  ASSUME UserInv, pc.rrc.at # "idle"
  PROVE  pc.rrc.r \in DOMAIN users /\ pc.rrc.r \in Rnti
  BY TypeFacts DEF UserInv, Threads, Idle

LEMMA UlNasTransportInv ==
  ASSUME UserInv, UlNasTransport
  PROVE  UserInv'
  <1>0. Types /\ Threads
    BY DEF UserInv
  <1>1. pc.rrc.r \in Rnti /\ pc.rrc.at = "nas" /\ pc.rrc.at \notin Removal
    BY RrcWorksOn DEF UlNasTransport, Removal
  <1>2. /\ UNCHANGED <<users, mutex, mac, sched, l2, gtpu, enbId, nextEnb, mme, s1, used>>
        /\ UNCHANGED <<queue, air>>
    BY DEF UlNasTransport, rrcVars, lowVars
  <1>3. ctxt' \in Map(Ctxt) /\ DOMAIN ctxt \subseteq DOMAIN ctxt'
    <2>1. CASE ctxt' = ctxt
      BY <1>0, <2>1 DEF Types
    <2>2. CASE ctxt' = Put(ctxt, pc.rrc.r, CtxtOf(pc.rrc.r))
      BY <1>0, <1>1, <2>2, CtxtFacts
    <2>3. QED
      BY <2>1, <2>2 DEF UlNasTransport
  <1>4. pc \in Places /\ pc' = [pc EXCEPT !.rrc = Idle] /\ pc' \in Places
    BY <1>0, <1>1, RrcPlaces DEF UlNasTransport, Types
  <1>5. pc'.rrc = Idle /\ pc'.rrc.at \notin Removal /\ pc'.mon = pc.mon /\ pc'.prach = pc.prach
    BY <1>4 DEF Places, Idle, Removal
  <1>6. \A r \in DOMAIN users : OnItsWayOut(r) => OnItsWayOut(r)'
    BY <1>1, <1>2, WaysOut DEF WayOut
  <1>7. queue' \in Seq(Entry) /\ air' \in [Rnti -> SUBSET {"setup", "smc", "reconf"}]
    BY <1>0, <1>2 DEF Types
  <1>8. QED
    BY <1>1, <1>2, <1>3, <1>4, <1>5, <1>6, <1>7, RrcInv

LEMMA RlFailureReleaseInv ==
  ASSUME UserInv, RlFailureRelease
  PROVE  UserInv'
  <1> DEFINE who == pc.rrc.r
  <1>0. Types /\ Threads
    BY DEF UserInv
  <1>1. who \in Rnti /\ pc.rrc.at = "rl_failure" /\ pc.rrc.at \notin Removal
    BY RrcWorksOn DEF RlFailureRelease, Removal
  <1>2. /\ UNCHANGED <<users, mutex, mac, sched, l2, gtpu, enbId, nextEnb, mme, s1, used>>
        /\ UNCHANGED <<air>>
    BY DEF RlFailureRelease, rrcVars, lowVars
  <1>3. UserRelease(who) /\ queue' = queue \o ReleaseItems(who)
    BY DEF RlFailureRelease
  <1>4. pc \in Places /\ pc' = [pc EXCEPT !.rrc = Idle] /\ pc' \in Places
    BY <1>0, <1>1, RrcPlaces DEF RlFailureRelease, Types
  <1>5. pc'.rrc = Idle /\ pc'.rrc.at \notin Removal /\ pc'.mon = pc.mon /\ pc'.prach = pc.prach
    BY <1>4 DEF Places, Idle, Removal
  <1> HIDE DEF who
  <1>6. /\ ctxt' \in Map(Ctxt) /\ ReleaseItems(who) \in Seq(Entry)
        /\ Queued(ReleaseItems(who)) \subseteq {Item("REL", who)}
        /\ \A x \in DOMAIN ctxt :
             x \in DOMAIN ctxt' \/ (x = who /\ Item("REL", who) \in Queued(ReleaseItems(who)))
    BY <1>0, <1>1, <1>3, UserReleaseEffect
  <1>7. queue' \in Seq(Entry) /\ Queued(queue') = Queued(queue) \cup Queued(ReleaseItems(who))
    BY <1>0, <1>3, <1>6, TypeFacts, Queues
  <1>8. Item("REL", who).kind = "REL" /\ Item("REL", who).rnti = who
    BY DEF Item
  <1>9. \A r \in DOMAIN users :
          /\ OnItsWayOut(r) => OnItsWayOut(r)'
          /\ r \in DOMAIN ctxt => r \in DOMAIN ctxt' \/ OnItsWayOut(r)'
    BY <1>1, <1>6, <1>7, <1>8, WaysOut DEF WayOut
  <1>10. \A x \in Queued(queue') : x \in Queued(queue) \/ x.kind \notin Answers
    BY <1>6, <1>7, <1>8 DEF Answers
  <1>11. air' \in [Rnti -> SUBSET {"setup", "smc", "reconf"}]
    BY <1>0, <1>2 DEF Types
  <1>12. QED
    BY <1>1, <1>2, <1>4, <1>5, <1>6, <1>7, <1>9, <1>10, <1>11, RrcInv

LEMMA ProcessReleaseCompleteInv ==
  ASSUME UserInv, ProcessReleaseComplete
  PROVE  UserInv'
  <1>0. Types /\ Threads
    BY DEF UserInv
  <1>1. /\ Who \in DOMAIN users /\ Who \in Rnti /\ pc.rrc = Idle /\ pc.rrc.at = "idle"
        /\ Head(queue).kind = "REL" /\ Head(queue).rnti = Who
        /\ Tail(queue) \in Seq(Entry) /\ Queued(queue) = Queued(Tail(queue)) \cup {Head(queue)}
    BY <1>0, Popped DEF ProcessReleaseComplete
  <1>2. /\ UNCHANGED <<users, mutex, mac, sched, l2, gtpu, enbId, nextEnb, mme, s1, used>>
        /\ UNCHANGED <<ctxt, air>> /\ queue' = Tail(queue)
    BY DEF ProcessReleaseComplete, lowVars, s1apVars
  <1>3. pc \in Places /\ pc' = [pc EXCEPT !.rrc = At("released", Who)] /\ pc' \in Places
    BY <1>0, <1>1, RrcPlaces DEF ProcessReleaseComplete, RrcAt, Types
  <1>4. At("released", Who).at = "released" /\ At("released", Who).r = Who
    BY DEF At
  <1>5. pc'.rrc = At("released", Who) /\ pc'.mon = pc.mon /\ pc'.prach = pc.prach
    BY <1>3 DEF Places
  <1>6. pc.rrc.at \notin Removal /\ pc'.rrc.at \notin Removal /\ pc'.rrc.r \in DOMAIN users
    BY <1>1, <1>4, <1>5 DEF Removal
  <1>7. \A r \in DOMAIN users : OnItsWayOut(r) => OnItsWayOut(r)'
    BY <1>1, <1>2, <1>4, <1>5, WaysOut DEF WayOut
  <1>8. ctxt' \in Map(Ctxt) /\ air' \in [Rnti -> SUBSET {"setup", "smc", "reconf"}]
    BY <1>0, <1>2 DEF Types
  <1>9. QED
    BY <1>1, <1>2, <1>3, <1>5, <1>6, <1>7, <1>8, RrcInv

LEMMA ReleaseSleptInv ==
  ASSUME UserInv, ReleaseSlept
  PROVE  UserInv'
  <1>0. Types /\ Threads
    BY DEF UserInv
  <1>1. pc.rrc.r \in Rnti /\ pc.rrc.at = "released" /\ pc.rrc.at \notin Removal
    BY RrcWorksOn DEF ReleaseSlept, Removal
  <1>2. /\ UNCHANGED <<users, mutex, mac, sched, l2, gtpu, enbId, nextEnb, mme, s1, used>>
        /\ UNCHANGED <<ctxt>>
    BY DEF ReleaseSlept, lowVars, s1apVars
  <1>3. pc \in Places /\ pc' = [pc EXCEPT !.rrc = Idle] /\ pc' \in Places
    BY <1>0, <1>1, RrcPlaces DEF ReleaseSlept, Types
  <1>4. pc'.rrc = Idle /\ pc'.rrc.at \notin Removal /\ pc'.mon = pc.mon /\ pc'.prach = pc.prach
    BY <1>3 DEF Places, Idle, Removal
  <1>5. Item("REM", pc.rrc.r) \in Entry /\ Item("REM", pc.rrc.r).kind = "REM"
    BY <1>1, ItemType DEF Kinds
  <1>6. Item("REM", pc.rrc.r).rnti = pc.rrc.r
    BY DEF Item
  <1>7. queue' \in Seq(Entry) /\ Queued(queue') = Queued(queue) \cup {Item("REM", pc.rrc.r)}
    BY <1>0, <1>5, Enqueued DEF ReleaseSlept
  <1>8. /\ air' \in [Rnti -> SUBSET {"setup", "smc", "reconf"}]
        /\ \A r \in Rnti : air'[r] \subseteq air[r]
    BY <1>0 DEF ReleaseSlept, Released, Types
  <1>9. \A r \in DOMAIN users : OnItsWayOut(r) => OnItsWayOut(r)'
    BY <1>1, <1>5, <1>6, <1>7, WaysOut DEF WayOut
  <1>10. ctxt' \in Map(Ctxt)
    BY <1>0, <1>2 DEF Types
  <1>11. \A x \in Queued(queue') : x \in Queued(queue) \/ x.kind \notin Answers
    BY <1>5, <1>7 DEF Answers
  <1>12. QED
    BY <1>1, <1>2, <1>3, <1>4, <1>7, <1>8, <1>9, <1>10, <1>11, RrcInv

LEMMA ReestReqInv ==
  ASSUME UserInv, ReestReq
  PROVE  UserInv'
  <1> DEFINE old == Head(queue).old
             rem == Item("REM", Who)
  <1>0. Types /\ Threads
    BY DEF UserInv
  <1>1. /\ Who \in DOMAIN users /\ Who \in Rnti /\ pc.rrc = Idle /\ pc.rrc.at = "idle"
        /\ Head(queue).kind = "REEST_REQ" /\ Head(queue).rnti = Who
        /\ Tail(queue) \in Seq(Entry) /\ Queued(queue) = Queued(Tail(queue)) \cup {Head(queue)}
    BY <1>0, Popped DEF ReestReq
  <1>2. /\ UNCHANGED <<users, mutex, mac, sched, l2, gtpu, enbId, nextEnb, mme, s1, used>>
        /\ UNCHANGED <<air, pc>>
    BY DEF ReestReq, lowVars
  <1>3. rem \in Entry /\ rem.kind = "REM"
    BY <1>1, ItemType DEF Kinds
  <1>4. \/ queue' = Tail(queue) /\ ctxt' = ctxt
        \/ /\ old \in DOMAIN users /\ UserRelease(old)
           /\ queue' = Tail(queue) \o ReleaseItems(old) \o <<rem>>
        \/ queue' = Append(Tail(queue), rem) /\ ctxt' = ctxt
    BY DEF ReestReq
  <1>5. Types => ctxt \in Map(Ctxt)
    BY DEF Types
  <1>6. <<rem>> \in Seq(Entry) /\ Queued(<<rem>>) = {rem}
    BY <1>3, Queues
  <1> HIDE DEF old, rem
  <1>7. /\ ctxt' \in Map(Ctxt) /\ queue' \in Seq(Entry) /\ Queued(Tail(queue)) \subseteq Queued(queue')
        /\ \A x \in Queued(queue') : x \in Queued(Tail(queue)) \/ x.kind \in {"REL", "REM"}
        /\ \A r \in DOMAIN ctxt :
             r \in DOMAIN ctxt' \/ \E x \in Queued(queue') : x.rnti = r /\ x.kind \in {"REL", "REM"}
    <2>1. CASE queue' = Tail(queue) /\ ctxt' = ctxt
      BY <1>0, <1>1, <1>5, <2>1
    <2>2. CASE queue' = Append(Tail(queue), rem) /\ ctxt' = ctxt
      <3>1. queue' \in Seq(Entry) /\ Queued(queue') = Queued(Tail(queue)) \cup {rem}
        BY <1>1, <1>3, <2>2, Queues
      <3>2. QED
        BY <1>0, <1>3, <1>5, <2>2, <3>1
    <2>3. CASE old \in DOMAIN users /\ UserRelease(old) /\ queue' = Tail(queue) \o ReleaseItems(old) \o <<rem>>
      <3>1. old \in Rnti
        BY <1>0, <2>3, TypeFacts
      <3>2. /\ ctxt' \in Map(Ctxt) /\ ReleaseItems(old) \in Seq(Entry)
            /\ Queued(ReleaseItems(old)) \subseteq {Item("REL", old)}
            /\ \A x \in DOMAIN ctxt :
                 x \in DOMAIN ctxt' \/ (x = old /\ Item("REL", old) \in Queued(ReleaseItems(old)))
        BY <1>0, <2>3, <3>1, UserReleaseEffect
      <3>3. /\ Tail(queue) \o ReleaseItems(old) \in Seq(Entry)
            /\ Queued(Tail(queue) \o ReleaseItems(old)) = Queued(Tail(queue)) \cup Queued(ReleaseItems(old))
        BY <1>1, <3>2, Queues
      <3>4. /\ queue' \in Seq(Entry)
            /\ Queued(queue') = Queued(Tail(queue)) \cup Queued(ReleaseItems(old)) \cup {rem}
        <4>1. PICK q \in Seq(Entry) : q = Tail(queue) \o ReleaseItems(old)
          BY <3>3
        <4>2. PICK t \in Seq(Entry) : t = <<rem>> /\ Queued(t) = {rem}
          BY <1>6
        <4>3. q \o t \in Seq(Entry) /\ Queued(q \o t) = Queued(q) \cup Queued(t)
          BY Queues
        <4>4. queue' = q \o t
          BY <2>3, <4>1, <4>2
        <4>5. QED
          BY <3>3, <4>1, <4>2, <4>3, <4>4
      <3>5. Item("REL", old).kind = "REL" /\ Item("REL", old).rnti = old
        BY DEF Item
      <3>6. QED
        BY <1>3, <3>2, <3>4, <3>5
    <2>4. QED
      BY <1>4, <2>1, <2>2, <2>3
  <1>8. \A r \in DOMAIN users :
          /\ OnItsWayOut(r) => OnItsWayOut(r)'
          /\ r \in DOMAIN ctxt => r \in DOMAIN ctxt' \/ OnItsWayOut(r)'
    BY <1>1, <1>2, <1>7, WaysOut DEF WayOut
  <1>9. \A x \in Queued(queue') : x \in Queued(queue) \/ x.kind \notin Answers
    BY <1>1, <1>7 DEF Answers
  <1>10. pc' \in Places /\ air' \in [Rnti -> SUBSET {"setup", "smc", "reconf"}]
    BY <1>0, <1>2 DEF Types
  <1>11. QED
    BY <1>2, <1>7, <1>8, <1>9, <1>10, RrcInv

LEMMA ProcessRlFailureInv ==
  ASSUME UserInv, ProcessRlFailure
  PROVE  UserInv'
  <1> DEFINE u == [users[Who] EXCEPT !.rlf = @ + 1]
  <1>0. Types /\ Threads
    BY DEF UserInv
  <1>1. /\ Who \in DOMAIN users /\ Who \in Rnti /\ pc.rrc = Idle /\ pc.rrc.at = "idle"
        /\ users[Who] \in User /\ Head(queue).kind = "RLF" /\ Head(queue).rnti = Who
        /\ Tail(queue) \in Seq(Entry) /\ Queued(queue) = Queued(Tail(queue)) \cup {Head(queue)}
    BY <1>0, Popped DEF ProcessRlFailure
  <1>2. UNCHANGED <<mutex, mac, sched, l2, gtpu, ctxt, enbId, nextEnb, mme, s1, air, used>>
    BY DEF ProcessRlFailure, lowVars, s1apVars
  <1>3. /\ u \in User /\ u.state = users[Who].state /\ u.cfgOk = users[Who].cfgOk
        /\ u.erabs = users[Who].erabs
    BY <1>1 DEF User
  <1>4. users' = [users EXCEPT ![Who] = u] /\ users \in Map(User)
    BY <1>0, <1>1 DEF ProcessRlFailure, Types
  <1> HIDE DEF u
  <1>5. /\ users' \in Map(User) /\ DOMAIN users' = DOMAIN users
        /\ \A r \in DOMAIN users : users'[r] = IF r = Who THEN u ELSE users[r]
    <2>1. users' \in Map(User)
      BY <1>1, <1>3, <1>4, ExceptMap
    <2>2. QED
      BY <1>4, <2>1
  <1>6. Item("REM", Who) \in Entry /\ Item("REM", Who).kind = "REM"
    BY <1>1, ItemType DEF Kinds
  <1>7. /\ queue' \in Seq(Entry) /\ Queued(Tail(queue)) \subseteq Queued(queue')
        /\ \A x \in Queued(queue') : x \in Queued(Tail(queue)) \/ x.kind = "REM"
    <2>1. CASE queue' = Tail(queue)
      BY <1>1, <2>1
    <2>2. CASE queue' = Append(Tail(queue), Item("REM", Who))
      <3>1. queue' \in Seq(Entry) /\ Queued(queue') = Queued(Tail(queue)) \cup {Item("REM", Who)}
        BY <1>1, <1>6, <2>2, Queues
      <3>2. QED
        BY <1>6, <3>1
    <2>3. QED
      BY <2>1, <2>2 DEF ProcessRlFailure
  <1>8. /\ pc' \in Places /\ pc'.mon = pc.mon /\ pc'.prach = pc.prach
        /\ pc' = pc \/ (pc'.rrc.at = "rl_failure" /\ pc'.rrc.r = Who)
    <2>1. pc \in Places
      BY <1>0 DEF Types
    <2>2. CASE pc' = [pc EXCEPT !.rrc = At("rl_failure", Who)]
      <3>1. pc' \in Places /\ At("rl_failure", Who).r = Who /\ At("rl_failure", Who).at = "rl_failure"
        BY <1>0, <1>1, <2>2, RrcPlaces
      <3>2. pc'.rrc = At("rl_failure", Who) /\ pc'.mon = pc.mon /\ pc'.prach = pc.prach
        BY <2>1, <2>2 DEF Places
      <3>3. QED
        BY <3>1, <3>2
    <2>3. QED
      BY <2>1, <2>2 DEF ProcessRlFailure, RrcAt
  <1>9. Types'
    BY <1>0, <1>2, <1>5, <1>7, <1>8 DEF Types
  <1>10. pc.rrc.at \notin Removal /\ pc'.rrc.at \notin Removal
    BY <1>1, <1>8 DEF Removal
  <1>11. Threads'
    BY <1>0, <1>1, <1>2, <1>5, <1>8, <1>10 DEF Threads
  <1>12. \A r \in Rnti : Tunnels(r)' = Tunnels(r)
    BY <1>2 DEF Tunnels
  <1>13. ASSUME NEW r \in DOMAIN users
        PROVE  SameOrLess(r) /\ (OnItsWayOut(r) => OnItsWayOut(r)')
    <2>1. SameOrLess(r)
      BY <1>2, <1>3, <1>5 DEF SameOrLess
    <2>2. OnItsWayOut(r) => OnItsWayOut(r)'
      BY <1>1, <1>7, <1>8, WaysOut DEF WayOut
    <2>3. QED
      BY <2>1, <2>2
  <1>14. \A x \in Queued(queue') : x \in Queued(queue) \/ x.kind \notin Answers
    BY <1>1, <1>7 DEF Answers
  <1>15. QED
    BY <1>2, <1>5, <1>8, <1>9, <1>10, <1>11, <1>12, <1>13, <1>14, ControlInv

LEMMA UserUpdated ==
  ASSUME Types, NEW r \in DOMAIN users, NEW u \in User, users' = [users EXCEPT ![r] = u]
  PROVE  /\ users' \in Map(User) /\ DOMAIN users' = DOMAIN users
         /\ users'[r] = u /\ \A x \in DOMAIN users : x # r => users'[x] = users[x]
  <1>1. users \in Map(User)
    BY DEF Types
  <1>2. users' \in Map(User)
    BY <1>1, ExceptMap
  <1>3. QED
    BY <1>2

LEMMA BearersAdded ==
  ASSUME Types, NEW r \in Rnti, NEW B \in SUBSET (0 .. Drb2)
  PROVE  /\ AddBearers(r, B) \in Map(SUBSET (0 .. Drb2)) /\ DOMAIN AddBearers(r, B) = DOMAIN l2
         /\ \A x \in DOMAIN l2 : AddBearers(r, B)[x] = IF x = r THEN l2[x] \cup B ELSE l2[x]
  <1>1. l2 \in Map(SUBSET (0 .. Drb2))
    BY DEF Types
  <1>2. CASE r \in DOMAIN l2
    <2> DEFINE b == l2[r] \cup B
    <2>1. b \in SUBSET (0 .. Drb2)
      BY <1>1, <1>2, MapFields
    <2>2. AddBearers(r, B) = [l2 EXCEPT ![r] = b]
      BY <1>2 DEF AddBearers
    <2> HIDE DEF b
    <2>3. [l2 EXCEPT ![r] = b] \in Map(SUBSET (0 .. Drb2))
      BY <1>1, <1>2, <2>1, ExceptMap
    <2>4. QED
      BY <1>2, <2>2, <2>3 DEF b
  <1>3. CASE r \notin DOMAIN l2
    BY <1>1, <1>3 DEF AddBearers
  <1>4. QED
    BY <1>2, <1>3

LEMMA Sent ==
  ASSUME Types, NEW r \in Rnti, NEW m \in {"setup", "smc", "reconf"}
  PROVE  /\ SendDl(r, m) \in [Rnti -> SUBSET {"setup", "smc", "reconf"}]
         /\ \A x \in Rnti : SendDl(r, m)[x] \subseteq IF x = r THEN air[x] \cup {m} ELSE air[x]
  BY DEF SendDl, Types

\* The user still owes the setup complete: nothing of S1AP or of a bearer yet.
LEMMA ConReqInv ==
  ASSUME UserInv, ConReq
  PROVE  UserInv'
  <1>0. Types /\ Threads /\ Layers
    BY DEF UserInv
  <1>1. /\ Who \in DOMAIN users /\ Who \in Rnti /\ pc.rrc = Idle /\ pc.rrc.at = "idle"
        /\ users[Who] \in User /\ Head(queue).kind = "CON_REQ" /\ Head(queue).rnti = Who
        /\ Tail(queue) \in Seq(Entry) /\ Queued(queue) = Queued(Tail(queue)) \cup {Head(queue)}
    BY <1>0, Popped DEF ConReq
  <1>2. /\ UNCHANGED <<mutex, mac, sched, gtpu, ctxt, enbId, nextEnb, mme, s1, used, pc>>
        /\ queue' = Tail(queue)
    BY DEF ConReq, s1apVars
  <1>3. PICK resources \in BOOLEAN :
          /\ users' = [users EXCEPT ![Who].state = "WAIT_FOR_CON_SETUP_COMPLETE",
                                    ![Who].cfgOk = IF resources THEN FALSE ELSE @]
          /\ ConnectionSetup(Who, resources)
    BY DEF ConReq
  <1> DEFINE u == [users[Who] EXCEPT !.state = "WAIT_FOR_CON_SETUP_COMPLETE",
                                     !.cfgOk = IF resources THEN FALSE ELSE @]
  <1>4. u \in User /\ u.state = "WAIT_FOR_CON_SETUP_COMPLETE" /\ u.erabs = users[Who].erabs
    BY <1>1 DEF User, States
  <1>5. users' = [users EXCEPT ![Who] = u]
    BY <1>1, <1>3
  <1> HIDE DEF u
  <1>6. /\ users' \in Map(User) /\ DOMAIN users' = DOMAIN users
        /\ users'[Who] = u /\ \A x \in DOMAIN users : x # Who => users'[x] = users[x]
    BY <1>0, <1>1, <1>4, <1>5, UserUpdated
  <1>7. /\ l2' \in Map(SUBSET (0 .. Drb2)) /\ DOMAIN l2' = DOMAIN l2
        /\ \A x \in DOMAIN l2 : l2'[x] \cap Drbs = l2[x] \cap Drbs
        /\ air' \in [Rnti -> SUBSET {"setup", "smc", "reconf"}]
        /\ \A x \in Rnti : air'[x] \subseteq IF x = Who THEN air[x] \cup {"setup"} ELSE air[x]
    <2>1. CASE resources
      <3>1. PICK B \in SUBSET (0 .. Drb2) : B = {1}
        <4>1. {1} \in SUBSET (0 .. Drb2)
          BY DEF Drb2
        <4>2. QED
          BY <4>1, Zenon
      <3>2. l2' = AddBearers(Who, B) /\ air' = SendDl(Who, "setup")
        BY <1>3, <2>1, <3>1 DEF ConnectionSetup
      <3>3. B \cap Drbs = {}
        BY <3>1 DEF Drb1, Drb2, Drbs
      <3>4. /\ l2' \in Map(SUBSET (0 .. Drb2)) /\ DOMAIN l2' = DOMAIN l2
            /\ \A x \in DOMAIN l2 : l2'[x] = IF x = Who THEN l2[x] \cup B ELSE l2[x]
        <4>1. /\ AddBearers(Who, B) \in Map(SUBSET (0 .. Drb2)) /\ DOMAIN AddBearers(Who, B) = DOMAIN l2
              /\ \A x \in DOMAIN l2 : AddBearers(Who, B)[x] = IF x = Who THEN l2[x] \cup B ELSE l2[x]
          BY <1>0, <1>1, BearersAdded
        <4>2. QED
          BY <3>2, <4>1
      <3>5. \A x \in DOMAIN l2 : l2'[x] \cap Drbs = l2[x] \cap Drbs
        BY <3>3, <3>4
      <3>6. /\ air' \in [Rnti -> SUBSET {"setup", "smc", "reconf"}]
            /\ \A x \in Rnti : air'[x] \subseteq IF x = Who THEN air[x] \cup {"setup"} ELSE air[x]
        BY <1>0, <1>1, <3>2, Sent
      <3>7. QED
        BY <3>4, <3>5, <3>6
    <2>2. CASE ~resources
      <3>1. l2' = l2 /\ air' = air
        BY <1>3, <2>2 DEF ConnectionSetup
      <3>2. QED
        BY <1>0, <3>1 DEF Types
    <2>3. QED
      BY <2>1, <2>2
  <1>8. Types'
    BY <1>0, <1>1, <1>2, <1>6, <1>7 DEF Types
  <1>9. Threads'
    BY <1>0, <1>2, <1>6 DEF Threads
  <1>10. \A r \in Rnti : Tunnels(r)' = Tunnels(r)
    BY <1>2 DEF Tunnels
  <1>11. ASSUME NEW r \in DOMAIN users
        PROVE  /\ SameOrLess(r) /\ (OnItsWayOut(r) => OnItsWayOut(r)')
               /\ r \in DOMAIN ctxt => r \in DOMAIN ctxt'
    <2>1. DOMAIN l2 = DOMAIN users /\ r \in Rnti
      BY <1>0, TypeFacts DEF Layers
    <2>2. SameOrLess(r)
      BY <1>4, <1>6, <1>7, <2>1 DEF SameOrLess
    <2>3. OnItsWayOut(r) => OnItsWayOut(r)'
      BY <1>1, <1>2, WaysOut DEF WayOut
    <2>4. QED
      BY <1>2, <2>2, <2>3
  <1>12. \A r \in Rnti : air'[r] \subseteq air[r] \/ r \in DOMAIN users
    BY <1>1, <1>7
  <1>13. \A x \in Queued(queue') : x \in Queued(queue) \/ x.kind \notin Answers
    BY <1>1, <1>2
  <1>14. QED
    BY <1>2, <1>6, <1>7, <1>8, <1>9, <1>10, <1>11, <1>12, <1>13, ControlInv

-----------------------------------------------------------------------------
(* The activity monitor.                                                   *)

\* Where the other threads may be.
LEMMA OtherPlaces ==
  ASSUME Types, NEW r \in Rnti
  PROVE  /\ [pc EXCEPT !.mon = Idle] \in Places /\ [pc EXCEPT !.s1ap = Idle] \in Places
         /\ [pc EXCEPT !.prach = Idle] \in Places /\ [pc EXCEPT !.pdu = Idle] \in Places
         /\ [pc EXCEPT !.mon = At("release", r)] \in Places
         /\ [pc EXCEPT !.s1ap = At("complete", r)] \in Places
         /\ [pc EXCEPT !.prach = At("add_user", r)] \in Places
         /\ \A where : At(where, r).r = r /\ At(where, r).at = where
         /\ \A where \in {"release", "complete", "add_user"} : At(where, r) # Idle
  <1>1. pc \in Places
    BY DEF Types
  <1>2. \A where : At(where, r) = [at |-> where, r |-> r, old |-> 0]
    BY DEF At
  <1>3. /\ [pc EXCEPT !.mon = Idle] \in Places /\ [pc EXCEPT !.s1ap = Idle] \in Places
        /\ [pc EXCEPT !.prach = Idle] \in Places /\ [pc EXCEPT !.pdu = Idle] \in Places
    BY <1>1 DEF Places, Doing, Updating
  <1>4. /\ At("release", r) \in Doing({"release"}) /\ At("complete", r) \in Doing({"complete"})
        /\ At("add_user", r) \in Doing({"add_user"})
    BY <1>2 DEF Doing
  <1>5. /\ [pc EXCEPT !.mon = At("release", r)] \in Places
        /\ [pc EXCEPT !.s1ap = At("complete", r)] \in Places
        /\ [pc EXCEPT !.prach = At("add_user", r)] \in Places
    BY <1>1, <1>4 DEF Places
  <1>6. \A where : At(where, r).r = r /\ At(where, r).at = where
    BY <1>2
  <1>7. \A where \in {"release", "complete", "add_user"} : At(where, r) # Idle
    BY <1>2 DEF Idle
  <1>8. QED
    BY <1>3, <1>5, <1>6, <1>7

LEMMA MonitorCheckInv ==
  ASSUME UserInv, NEW w \in Rnti, MonitorCheck(w)
  PROVE  UserInv'
  <1> DEFINE u == [users[w] EXCEPT !.state = "RELEASE_REQUEST"]
  <1>0. Types /\ Threads /\ Layers
    BY DEF UserInv
  <1>1. w \in DOMAIN users /\ pc.mon = Idle /\ mutex = "free" /\ users[w] \in User
    BY <1>0, TypeFacts DEF MonitorCheck
  <1>2. UNCHANGED <<mac, sched, l2, gtpu, ctxt, enbId, nextEnb, mme, s1, air, used>>
    BY DEF MonitorCheck, lowVars, s1apVars
  <1>3. u \in User /\ u.state = "RELEASE_REQUEST" /\ u.erabs = users[w].erabs
    BY <1>1 DEF User, States
  <1>4. users' = [users EXCEPT ![w] = u]
    BY DEF MonitorCheck, IsTimeout
  <1> HIDE DEF u
  <1>5. /\ users' \in Map(User) /\ DOMAIN users' = DOMAIN users
        /\ users'[w] = u /\ \A x \in DOMAIN users : x # w => users'[x] = users[x]
    BY <1>0, <1>1, <1>3, <1>4, UserUpdated
  <1>6. Item("REM", w) \in Entry /\ Item("REM", w).kind = "REM"
    BY ItemType DEF Kinds
  <1>7. /\ queue' \in Seq(Entry) /\ Queued(queue) \subseteq Queued(queue')
        /\ \A x \in Queued(queue') : x \in Queued(queue) \/ x.kind = "REM"
        /\ pc' \in Places /\ pc'.rrc = pc.rrc /\ pc'.prach = pc.prach
        /\ mutex' = "mon" <=> pc'.mon # Idle
        /\ mutex' \in {"free", "mon"}
    <2>0. pc \in Places /\ queue \in Seq(Entry)
      BY <1>0 DEF Types
    <2>1. CASE w \in DOMAIN ctxt
      <3>1. pc' = [pc EXCEPT !.mon = At("release", w)] /\ mutex' = "mon" /\ queue' = queue
        BY <2>1 DEF MonitorCheck, UserExists
      <3>2. pc' \in Places /\ At("release", w) # Idle
        BY <1>0, <3>1, OtherPlaces
      <3>3. pc'.rrc = pc.rrc /\ pc'.prach = pc.prach /\ pc'.mon = At("release", w)
        BY <2>0, <3>1 DEF Places
      <3>4. QED
        BY <2>0, <3>1, <3>2, <3>3
    <2>2. CASE w \notin DOMAIN ctxt
      <3>1. pc' = pc /\ mutex' = mutex /\ queue' = Append(queue, Item("REM", w))
        BY <2>2 DEF MonitorCheck, UserExists
      <3>2. queue' \in Seq(Entry) /\ Queued(queue') = Queued(queue) \cup {Item("REM", w)}
        BY <1>0, <1>6, <3>1, Enqueued
      <3>3. QED
        BY <1>1, <1>6, <2>0, <3>1, <3>2
    <2>3. QED
      BY <2>1, <2>2
  <1>8. Types'
    BY <1>0, <1>2, <1>5, <1>7 DEF Types
  <1>9. Threads'
    BY <1>0, <1>1, <1>5, <1>7 DEF Threads
  <1>10. \A r \in Rnti : Tunnels(r)' = Tunnels(r)
    BY <1>2 DEF Tunnels
  <1>11. ASSUME NEW r \in DOMAIN users
        PROVE  SameOrLess(r) /\ (OnItsWayOut(r) => OnItsWayOut(r)')
    <2>1. SameOrLess(r)
      BY <1>2, <1>3, <1>5 DEF SameOrLess
    <2>2. OnItsWayOut(r) => OnItsWayOut(r)'
      BY <1>7, WaysOut DEF WayOut
    <2>3. QED
      BY <2>1, <2>2
  <1>12. \A x \in Queued(queue') : x \in Queued(queue) \/ x.kind \notin Answers
    BY <1>7 DEF Answers
  <1>13. QED
    BY <1>2, <1>5, <1>7, <1>8, <1>9, <1>10, <1>11, <1>12, ControlInv

LEMMA MonitorReleaseInv ==
  ASSUME UserInv, MonitorRelease
  PROVE  UserInv'
  <1> DEFINE who == pc.mon.r
  <1>0. Types /\ Threads
    BY DEF UserInv
  <1>1. pc \in Places /\ pc.mon # Idle /\ mutex = "mon"
    BY <1>0 DEF MonitorRelease, Types, Threads
  <1>2. who \in Rnti
    BY <1>1 DEF Places, Doing
  <1>3. /\ UNCHANGED <<users, mac, sched, l2, gtpu, enbId, nextEnb, mme, s1, air, used>>
        /\ mutex' = "free" /\ pc' = [pc EXCEPT !.mon = Idle]
    BY DEF MonitorRelease, lowVars
  <1>4. UserRelease(who) /\ queue' = queue \o ReleaseItems(who)
    BY DEF MonitorRelease
  <1>5. pc' \in Places
    BY <1>0, <1>2, <1>3, OtherPlaces
  <1>6. pc'.rrc = pc.rrc /\ pc'.prach = pc.prach /\ pc'.mon = Idle
    BY <1>1, <1>3 DEF Places
  <1> HIDE DEF who
  <1>7. /\ ctxt' \in Map(Ctxt) /\ ReleaseItems(who) \in Seq(Entry)
        /\ Queued(ReleaseItems(who)) \subseteq {Item("REL", who)}
        /\ \A x \in DOMAIN ctxt :
             x \in DOMAIN ctxt' \/ (x = who /\ Item("REL", who) \in Queued(ReleaseItems(who)))
    BY <1>0, <1>2, <1>4, UserReleaseEffect
  <1>8. queue' \in Seq(Entry) /\ Queued(queue') = Queued(queue) \cup Queued(ReleaseItems(who))
    BY <1>0, <1>4, <1>7, TypeFacts, Queues
  <1>9. Item("REL", who).kind = "REL" /\ Item("REL", who).rnti = who
    BY DEF Item
  <1>10. Types'
    BY <1>0, <1>3, <1>5, <1>7, <1>8 DEF Types
  <1>11. Threads'
    BY <1>0, <1>1, <1>3, <1>6 DEF Threads
  <1>12. \A r \in Rnti : Tunnels(r)' = Tunnels(r)
    BY <1>3 DEF Tunnels
  <1>13. ASSUME NEW r \in DOMAIN users
        PROVE  /\ SameOrLess(r) /\ (OnItsWayOut(r) => OnItsWayOut(r)')
               /\ r \in DOMAIN ctxt => r \in DOMAIN ctxt' \/ OnItsWayOut(r)'
    <2>1. SameOrLess(r)
      BY <1>3 DEF SameOrLess
    <2>2. OnItsWayOut(r) => OnItsWayOut(r)'
      BY <1>6, <1>8, WaysOut DEF WayOut
    <2>3. r \in DOMAIN ctxt => r \in DOMAIN ctxt' \/ OnItsWayOut(r)'
      BY <1>7, <1>8, <1>9, WaysOut DEF WayOut
    <2>4. QED
      BY <2>1, <2>2, <2>3
  <1>14. \A x \in Queued(queue') : x \in Queued(queue) \/ x.kind \notin Answers
    BY <1>7, <1>8, <1>9 DEF Answers
  <1>15. QED
    BY <1>3, <1>6, <1>10, <1>11, <1>12, <1>13, <1>14, ControlInv

-----------------------------------------------------------------------------
(* What the MME asks for, and the S1 link.                                 *)

LEMMA Noted ==
  ASSUME Types, NEW e \in EnbIds, e \in DOMAIN enbId, NoteMmeId(e)
  PROVE  /\ enbId[e] \in Rnti
         /\ ctxt' \in Map(Ctxt) /\ DOMAIN ctxt' = DOMAIN ctxt \cup {enbId[e]}
  <1> DEFINE r == enbId[e]
             c == [CtxtOf(r) EXCEPT !.mme = e]
  <1>1. r \in Rnti
    BY TypeFacts
  <1>2. c \in Ctxt
    <2>1. CtxtOf(r) \in Ctxt
      BY <1>1, CtxtFacts
    <2>2. QED
      BY <2>1 DEF Ctxt
  <1>3. ctxt' = Put(ctxt, r, c)
    BY DEF NoteMmeId
  <1> HIDE DEF r, c
  <1>4. ctxt' \in Map(Ctxt) /\ DOMAIN ctxt' = DOMAIN ctxt \cup {r}
    BY <1>1, <1>2, <1>3, CtxtFacts
  <1>5. QED
    BY <1>1, <1>4 DEF r

\* Nothing of RRC and below changes, and no context is lost.
LEMMA S1Inv ==
  ASSUME UserInv, UNCHANGED <<users, queue, mutex, mac, sched, l2, gtpu, nextEnb, air, pc>>,
         ctxt' \in Map(Ctxt), DOMAIN ctxt \subseteq DOMAIN ctxt', enbId' \in Map(Rnti),
         mme' \in [EnbIds -> {"none", "known", "setup", "active", "erab"}],
         s1' \in {"down", "asked", "up", "ended"},
         used' \in [rnti : 0 .. MaxRnti, msg3 : SUBSET Rnti, events : 0 .. MaxEvents],
         used'.rnti = used.rnti
  PROVE  UserInv'
  <1>0. Types /\ Threads
    BY DEF UserInv
  <1>1. Types' /\ Threads'
    BY <1>0 DEF Types, Threads
  <1>2. \A r \in Rnti : Tunnels(r)' = Tunnels(r)
    BY DEF Tunnels
  <1>3. \A r \in DOMAIN users :
          /\ SameOrLess(r) /\ (OnItsWayOut(r) => OnItsWayOut(r)')
          /\ r \in DOMAIN ctxt => r \in DOMAIN ctxt'
    BY WaysOut DEF SameOrLess
  <1>4. QED
    BY <1>1, <1>2, <1>3, ControlInv

LEMMA S1LinkInv ==
  ASSUME UserInv, \/ MmeDown \/ SetupS1 \/ S1SetupResponse
                  \/ \E e \in EnbIds : DlNasTransport(e) \/ ReleaseCommandMmeId(e)
  PROVE  UserInv'
  <1>0. Types
    BY DEF UserInv
  <1>1. /\ ctxt \in Map(Ctxt) /\ enbId \in Map(Rnti) /\ s1 \in {"down", "asked", "up", "ended"}
        /\ mme \in [EnbIds -> {"none", "known", "setup", "active", "erab"}]
        /\ used \in [rnti : 0 .. MaxRnti, msg3 : SUBSET Rnti, events : 0 .. MaxEvents]
    BY <1>0 DEF Types
  <1>2. CASE MmeDown
    <2>1. /\ used' \in [rnti : 0 .. MaxRnti, msg3 : SUBSET Rnti, events : 0 .. MaxEvents]
          /\ used'.rnti = used.rnti
      BY <1>0, <1>2, EventUsed DEF MmeDown
    <2>2. /\ UNCHANGED <<users, queue, mutex, mac, sched, l2, gtpu, nextEnb, air, pc, ctxt, enbId>>
          /\ s1' = "down" /\ mme' = [e \in EnbIds |-> "none"]
      BY <1>2 DEF MmeDown, rrcVars, lowVars
    <2>3. QED
      BY <1>1, <2>1, <2>2, S1Inv
  <1>3. CASE SetupS1 \/ S1SetupResponse
    <2>1. /\ UNCHANGED <<users, queue, mutex, mac, sched, l2, gtpu, nextEnb, air, pc, ctxt, enbId>>
          /\ UNCHANGED <<mme, used>> /\ s1' \in {"asked", "ended", "up"}
      BY <1>3 DEF SetupS1, S1SetupResponse, rrcVars, lowVars
    <2>2. QED
      BY <1>1, <2>1, S1Inv
  <1>4. ASSUME NEW e \in EnbIds, DlNasTransport(e)
        PROVE  UserInv'
    <2>1. ctxt' \in Map(Ctxt) /\ DOMAIN ctxt \subseteq DOMAIN ctxt'
      BY <1>0, <1>4, Noted DEF DlNasTransport, Receives
    <2>2. /\ UNCHANGED <<users, queue, mutex, mac, sched, l2, gtpu, nextEnb, air, pc, enbId>>
          /\ UNCHANGED <<mme, s1, used>>
      BY <1>4 DEF DlNasTransport, rrcVars, lowVars
    <2>3. QED
      BY <1>1, <2>1, <2>2, S1Inv
  <1>5. ASSUME NEW e \in EnbIds, ReleaseCommandMmeId(e)
        PROVE  UserInv'
    <2>1. /\ UNCHANGED <<users, queue, mutex, mac, sched, l2, gtpu, nextEnb, air, pc, ctxt>>
          /\ UNCHANGED <<s1, used>> /\ mme' = [mme EXCEPT ![e] = "none"]
      BY <1>5 DEF ReleaseCommandMmeId, rrcVars, lowVars
    <2>2. enbId' \in Map(Rnti)
      <3>1. PICK r \in DOMAIN ctxt : enbId' = Erase(enbId, ctxt[r].enb)
        BY <1>5 DEF ReleaseCommandMmeId
      <3>2. QED
        BY <1>1, <3>1, EraseMap
    <2>3. QED
      BY <1>1, <2>1, <2>2, S1Inv
  <1>6. QED
    BY <1>2, <1>3, <1>4, <1>5

LEMMA ReleaseCommandInv ==
  ASSUME UserInv, NEW e \in EnbIds, ReleaseCommand(e)
  PROVE  UserInv'
  <1> DEFINE w == enbId[e]
  <1>0. Types /\ Threads /\ Layers
    BY DEF UserInv
  <1>1. e \in DOMAIN enbId /\ w \in Rnti
    BY <1>0, TypeFacts DEF ReleaseCommand, Receives
  <1>2. /\ UNCHANGED <<queue, mutex, mac, sched, l2, gtpu, ctxt, nextEnb, s1, air, used>>
        /\ mme' = [mme EXCEPT ![e] = "none"] /\ enbId' = Erase(enbId, e)
    BY DEF ReleaseCommand, lowVars
  <1>3. \/ UNCHANGED <<users, pc>>
        \/ ReleaseErabs(w) /\ pc' = [pc EXCEPT !.s1ap = At("complete", w)]
    BY DEF ReleaseCommand
  <1> HIDE DEF w
  <1>4. /\ users' \in Map(User) /\ DOMAIN users' = DOMAIN users
        /\ \A r \in DOMAIN users : /\ users'[r].state = users[r].state /\ users'[r].cfgOk = users[r].cfgOk
                                   /\ users'[r].erabs \subseteq users[r].erabs
    <2>1. CASE users' = users
      BY <1>0, <2>1 DEF Types
    <2>2. CASE w \in DOMAIN users /\ users' = [users EXCEPT ![w].erabs = {}]
      <3> DEFINE u == [users[w] EXCEPT !.erabs = {}]
      <3>1. users[w] \in User
        BY <1>0, <2>2, TypeFacts
      <3>2. u \in User /\ u.state = users[w].state /\ u.cfgOk = users[w].cfgOk /\ u.erabs = {}
        BY <3>1 DEF User
      <3>3. users' = [users EXCEPT ![w] = u]
        BY <2>2
      <3> HIDE DEF u
      <3>4. /\ users' \in Map(User) /\ DOMAIN users' = DOMAIN users
            /\ users'[w] = u /\ \A x \in DOMAIN users : x # w => users'[x] = users[x]
        BY <1>0, <2>2, <3>2, <3>3, UserUpdated
      <3>5. QED
        BY <3>2, <3>4
    <2>3. QED
      BY <1>3, <2>1, <2>2 DEF ReleaseErabs
  <1>5. pc' \in Places /\ pc'.rrc = pc.rrc /\ pc'.mon = pc.mon /\ pc'.prach = pc.prach
    <2>1. pc \in Places
      BY <1>0 DEF Types
    <2>2. CASE pc' = [pc EXCEPT !.s1ap = At("complete", w)]
      <3>1. pc' \in Places
        BY <1>0, <1>1, <2>2, OtherPlaces
      <3>2. QED
        BY <2>1, <2>2, <3>1 DEF Places
    <2>3. QED
      BY <1>3, <2>1, <2>2
  <1>6. /\ enbId' \in Map(Rnti)
        /\ mme' \in [EnbIds -> {"none", "known", "setup", "active", "erab"}]
    <2>1. enbId \in Map(Rnti) /\ mme \in [EnbIds -> {"none", "known", "setup", "active", "erab"}]
      BY <1>0 DEF Types
    <2>2. QED
      BY <1>2, <2>1, EraseMap
  <1>7. Types'
    BY <1>0, <1>2, <1>4, <1>5, <1>6 DEF Types
  <1>8. Threads'
    BY <1>0, <1>2, <1>4, <1>5 DEF Threads
  <1>9. \A r \in Rnti : Tunnels(r)' = Tunnels(r)
    BY <1>2 DEF Tunnels
  <1>10. ASSUME NEW r \in DOMAIN users
         PROVE  SameOrLess(r) /\ (OnItsWayOut(r) => OnItsWayOut(r)')
    BY <1>2, <1>4, <1>5, WaysOut DEF SameOrLess
  <1>11. QED
    BY <1>2, <1>4, <1>5, <1>7, <1>8, <1>9, <1>10, ControlInv

LEMMA ReleaseCommandCompleteInv ==
  ASSUME UserInv, ReleaseCommandComplete
  PROVE  UserInv'
  <1> DEFINE w == pc.s1ap.r
  <1>0. Types /\ Threads
    BY DEF UserInv
  <1>1. pc \in Places /\ pc.s1ap # Idle /\ ctxt \in Map(Ctxt)
    BY <1>0 DEF ReleaseCommandComplete, Types
  <1>2. w \in Rnti
    BY <1>1 DEF Places, Doing
  <1>3. /\ UNCHANGED <<users, mutex, mac, sched, l2, gtpu, enbId, nextEnb, mme, s1, air, used>>
        /\ pc' = [pc EXCEPT !.s1ap = Idle]
        /\ queue' = Append(queue, Item("REL", w)) /\ ctxt' = Erase(ctxt, w)
    BY DEF ReleaseCommandComplete, lowVars
  <1>4. pc' \in Places
    BY <1>0, <1>2, <1>3, OtherPlaces
  <1>5. pc'.rrc = pc.rrc /\ pc'.prach = pc.prach /\ pc'.mon = pc.mon
    BY <1>1, <1>3 DEF Places
  <1> HIDE DEF w
  <1>6. /\ Item("REL", w) \in Entry /\ Item("REL", w).kind = "REL" /\ Item("REL", w).rnti = w
    BY <1>2, ItemType DEF Kinds
  <1>7. queue' \in Seq(Entry) /\ Queued(queue') = Queued(queue) \cup {Item("REL", w)}
    BY <1>0, <1>3, <1>6, Enqueued
  <1>8. ctxt' \in Map(Ctxt) /\ DOMAIN ctxt' = DOMAIN ctxt \ {w}
    <2>1. ctxt' \in Map(Ctxt)
      BY <1>1, <1>3, EraseMap
    <2>2. DOMAIN ctxt' = DOMAIN ctxt \ {w}
      BY <1>3 DEF Erase, Restrict
    <2>3. QED
      BY <2>1, <2>2
  <1>9. ASSUME NEW r \in DOMAIN users
         PROVE  /\ OnItsWayOut(r) => OnItsWayOut(r)'
                /\ r \in DOMAIN ctxt => r \in DOMAIN ctxt' \/ OnItsWayOut(r)'
    BY <1>5, <1>6, <1>7, <1>8, WaysOut DEF WayOut
  <1>10. \A x \in Queued(queue') : x \in Queued(queue) \/ x.kind \notin Answers
    BY <1>6, <1>7 DEF Answers
  <1>11. air' \in [Rnti -> SUBSET {"setup", "smc", "reconf"}]
    BY <1>0, <1>3 DEF Types
  <1>12. \A r \in Rnti : air'[r] \subseteq air[r]
    BY <1>3
  <1>13. QED
    BY <1>3, <1>4, <1>5, <1>7, <1>8, <1>9, <1>10, <1>11, <1>12, RrcInv

-----------------------------------------------------------------------------
(* The UE's answers, and what they set up.                                 *)

\* A step that leaves the users of every layer alone, and keeps each of them.
LEMMA KeptStep ==
  ASSUME UserInv, Types', Threads',
         DOMAIN users' = DOMAIN users, DOMAIN l2' = DOMAIN l2, DOMAIN mac' = DOMAIN mac,
         UNCHANGED sched, pc'.prach = pc.prach, pc'.rrc = pc.rrc, used'.rnti = used.rnti,
         \A r \in Rnti : Tunnels(r)' = Tunnels(r) \/ (r \in DOMAIN users /\ ~Leaves(r)),
         \A r \in Rnti : air'[r] \subseteq air[r] \/ r \in DOMAIN users,
         \A x \in Queued(queue') : x \in Queued(queue) \/ x.kind \notin Answers \/ x.rnti \in DOMAIN users,
         \A r \in DOMAIN users : Kept(r)
  PROVE  UserInv'
  <1>0. Types /\ Threads /\ Layers /\ Unseen /\ Bearers /\ Contexts
    BY DEF UserInv
  <1>1. pc.rrc.at = "rem_l2" => pc.rrc.r \in Rnti
    BY <1>0, TypeFacts DEF Threads, Idle
  <1>2. Layers'
    BY <1>0, <1>1, LayersKept
  <1>3. Unseen'
    BY <1>0, UnseenKept
  <1>4. Bearers' /\ Contexts'
    BY <1>0, KeptInv
  <1>5. QED
    BY <1>2, <1>3, <1>4 DEF UserInv

LEMMA AnswerInv ==
  ASSUME UserInv, NEW w \in Rnti, Answer(w)
  PROVE  UserInv'
  <1>0. Types /\ Threads /\ Layers
    BY DEF UserInv
  <1>1. w \in DOMAIN users
    BY <1>0 DEF Answer, Reachable, Layers
  <1>2. UNCHANGED <<users, mutex, mac, sched, l2, gtpu, ctxt, enbId, nextEnb, mme, s1, pc, used>>
    BY DEF Answer, lowVars, s1apVars
  <1>3. PICK m \in air[w] : /\ queue' = Append(queue, Item(AnswerKind(m), w))
                            /\ air' = [air EXCEPT ![w] = @ \ {m}]
    BY DEF Answer
  <1>4. /\ m \in {"setup", "smc", "reconf"}
        /\ air \in [Rnti -> SUBSET {"setup", "smc", "reconf"}]
    BY <1>0 DEF Types
  <1>5. AnswerKind(m) \in Kinds
    BY <1>4 DEF AnswerKind, Kinds
  <1>6. /\ Item(AnswerKind(m), w) \in Entry /\ Item(AnswerKind(m), w).kind = AnswerKind(m)
        /\ Item(AnswerKind(m), w).rnti = w
    BY <1>5, ItemType
  <1>7. queue' \in Seq(Entry) /\ Queued(queue') = Queued(queue) \cup {Item(AnswerKind(m), w)}
    BY <1>0, <1>3, <1>6, Enqueued
  <1>8. /\ air' \in [Rnti -> SUBSET {"setup", "smc", "reconf"}]
        /\ \A r \in Rnti : air'[r] \subseteq air[r]
    BY <1>3, <1>4
  <1>9. Types' /\ Threads'
    BY <1>0, <1>2, <1>7, <1>8 DEF Types, Threads
  <1>10. \A r \in Rnti : Tunnels(r)' = Tunnels(r)
    BY <1>2 DEF Tunnels
  <1>11. \A k \in {"setup", "smc", "reconf"} : AnswerKind(k) = AnswerKind(m) => k = m
    BY <1>4 DEF AnswerKind
  <1>12. ASSUME NEW r \in DOMAIN users
         PROVE  Kept(r)
    <2>1. r \in Rnti
      BY <1>0, TypeFacts
    <2>2. ASSUME NEW k \in {"setup", "smc", "reconf"}
          PROVE  Awaited(r, k)' => Awaited(r, k)
      BY <1>3, <1>6, <1>7, <1>8, <1>11, <2>1 DEF Awaited
    <2>3. OnItsWayOut(r) => OnItsWayOut(r)'
      BY <1>2, <1>7, WaysOut DEF WayOut
    <2>4. Tunnels(r)' = Tunnels(r) /\ (Leaves(r)' <=> Leaves(r))
      BY <1>2 DEF Tunnels, Leaves
    <2>5. (Secures(r)' => Secures(r)) /\ (Bears(r)' => Bears(r)) /\ (Known(r)' => Known(r))
      BY <1>2, <2>2 DEF Secures, Bears, Known
    <2>6. QED
      BY <1>2, <2>3, <2>4, <2>5 DEF Kept
  <1>13. \A x \in Queued(queue') : x \in Queued(queue) \/ x.rnti \in DOMAIN users
    BY <1>1, <1>6, <1>7
  <1>14. QED
    BY <1>2, <1>8, <1>9, <1>10, <1>12, <1>13, KeptStep

\* What a handler does to the users it is not about.
LEMMA OthersKept ==
  ASSUME NEW r \in DOMAIN users, UNCHANGED pc.rrc, users'[r] = users[r], l2'[r] = l2[r],
         Tunnels(r) \subseteq Tunnels(r)', air'[r] \subseteq air[r],
         \A x \in Queued(queue') : x \in Queued(queue) \/ x.kind \notin Answers,
         r \in DOMAIN ctxt => r \in DOMAIN ctxt',
         OnItsWayOut(r) => OnItsWayOut(r)'
  PROVE  Kept(r)
  <1>1. SameOrLess(r)
    BY DEF SameOrLess
  <1>2. Leaves(r)' <=> Leaves(r)
    BY DEF Leaves
  <1>3. QED
    BY <1>1, <1>2, KeptBy

LEMMA ReconfCompleteInv ==
  ASSUME UserInv, ReconfComplete
  PROVE  UserInv'
  <1> DEFINE u == [users[Who] EXCEPT !.cfgOk = TRUE, !.state = "REGISTERED"]
  <1>0. Types /\ Threads /\ Layers
    BY DEF UserInv
  <1>1. /\ Who \in DOMAIN users /\ Who \in Rnti /\ pc.rrc = Idle /\ pc.rrc.at = "idle"
        /\ users[Who] \in User /\ Head(queue).kind = "RECONF_COMPLETE" /\ Head(queue).rnti = Who
        /\ Tail(queue) \in Seq(Entry) /\ Queued(queue) = Queued(Tail(queue)) \cup {Head(queue)}
    BY <1>0, Popped DEF ReconfComplete
  <1>2. /\ UNCHANGED <<mutex, mac, sched, l2, gtpu, ctxt, enbId, nextEnb, mme, s1, air, pc, used>>
        /\ queue' = Tail(queue)
    BY DEF ReconfComplete, lowVars, s1apVars
  <1>3. u \in User /\ u.cfgOk = TRUE /\ u.state = "REGISTERED" /\ u.erabs = users[Who].erabs
    BY <1>1 DEF User, States
  <1>4. users' = [users EXCEPT ![Who] = u]
    BY <1>1 DEF ReconfComplete
  <1> HIDE DEF u
  <1>5. /\ users' \in Map(User) /\ DOMAIN users' = DOMAIN users
        /\ users'[Who] = u /\ \A x \in DOMAIN users : x # Who => users'[x] = users[x]
    BY <1>0, <1>1, <1>3, <1>4, UserUpdated
  <1>6. Types' /\ Threads'
    BY <1>0, <1>1, <1>2, <1>5 DEF Types, Threads
  <1>7. \A r \in Rnti : Tunnels(r)' = Tunnels(r)
    BY <1>2 DEF Tunnels
  <1>8. Awaited(Who, "reconf")
    BY <1>1 DEF Awaited, AnswerKind
  <1>9. ASSUME NEW r \in DOMAIN users
        PROVE  Kept(r)
    <2>1. OnItsWayOut(r) => OnItsWayOut(r)'
      BY <1>1, <1>2, WaysOut DEF WayOut
    <2>2. r \in Rnti /\ Tunnels(r)' = Tunnels(r) /\ (Leaves(r)' <=> Leaves(r))
      BY <1>0, <1>2, TypeFacts DEF Tunnels, Leaves
    <2>3. CASE r # Who
      BY <1>1, <1>2, <1>5, <2>1, <2>2, <2>3, OthersKept
    <2>4. CASE r = Who
      <3>1. \A k \in {"smc", "reconf"} : Awaited(r, k)' => Awaited(r, k)
        BY <1>1, <1>2 DEF Awaited
      <3>2. Secures(r)' => Secures(r)
        BY <1>3, <1>5, <2>4, <3>1 DEF Secures
      <3>3. Bears(r) /\ Known(r)
        BY <1>8, <2>4 DEF Bears, Known
      <3>4. QED
        BY <1>2, <1>3, <1>5, <2>1, <2>2, <2>4, <3>2, <3>3 DEF Kept
    <2>5. QED
      BY <2>3, <2>4
  <1>10. \A x \in Queued(queue') : x \in Queued(queue)
    BY <1>1, <1>2
  <1>11. QED
    BY <1>2, <1>5, <1>6, <1>7, <1>9, <1>10, KeptStep

LEMMA ToldType ==
  ASSUME Types, NEW e, NEW from, NEW to \in {"none", "known", "setup", "active", "erab"}
  PROVE  Told(e, from, to) \in [EnbIds -> {"none", "known", "setup", "active", "erab"}]
  BY DEF Told, Types

LEMMA SetupCompleteInv ==
  ASSUME UserInv, SetupComplete
  PROVE  UserInv'
  <1> DEFINE u == [users[Who] EXCEPT !.cfgOk = TRUE, !.state = "WAIT_FOR_CON_RECONF_COMPLETE"]
             c == [enb |-> nextEnb, mme |-> CtxtOf(Who).mme, rel |-> FALSE]
  <1>0. Types /\ Threads /\ Layers
    BY DEF UserInv
  <1>1. /\ Who \in DOMAIN users /\ Who \in Rnti /\ pc.rrc = Idle /\ pc.rrc.at = "idle"
        /\ users[Who] \in User /\ Head(queue).kind = "SETUP_COMPLETE" /\ Head(queue).rnti = Who
        /\ Tail(queue) \in Seq(Entry) /\ Queued(queue) = Queued(Tail(queue)) \cup {Head(queue)}
    BY <1>0, Popped DEF SetupComplete
  <1>2. /\ UNCHANGED <<mutex, mac, sched, l2, gtpu, s1, air, pc, used>>
        /\ queue' = Tail(queue)
    BY DEF SetupComplete, lowVars
  <1>3. u \in User /\ u.state = "WAIT_FOR_CON_RECONF_COMPLETE" /\ u.erabs = users[Who].erabs
    BY <1>1 DEF User, States
  <1>4. users' = [users EXCEPT ![Who] = u]
    BY <1>1 DEF SetupComplete
  <1>5. c \in Ctxt
    <2>1. CtxtOf(Who) \in Ctxt /\ nextEnb \in EnbIds
      BY <1>0, <1>1, CtxtFacts DEF SetupComplete, InitialUe
    <2>2. QED
      BY <2>1 DEF Ctxt
  <1>6. /\ nextEnb \in EnbIds /\ ctxt' = Put(ctxt, Who, c) /\ enbId' = Put(enbId, nextEnb, Who)
        /\ nextEnb' = nextEnb + 1 /\ mme' = Told(nextEnb, {"none"}, "known")
    BY DEF SetupComplete, InitialUe, InitialUeMessage
  <1> HIDE DEF u, c
  <1>7. /\ users' \in Map(User) /\ DOMAIN users' = DOMAIN users
        /\ users'[Who] = u /\ \A x \in DOMAIN users : x # Who => users'[x] = users[x]
    BY <1>0, <1>1, <1>3, <1>4, UserUpdated
  <1>8. ctxt' \in Map(Ctxt) /\ DOMAIN ctxt' = DOMAIN ctxt \cup {Who}
    BY <1>0, <1>1, <1>5, <1>6, CtxtFacts
  <1>9. /\ enbId' \in Map(Rnti) /\ nextEnb' \in 1 .. MaxRnti + 1
        /\ mme' \in [EnbIds -> {"none", "known", "setup", "active", "erab"}]
    <2>1. enbId \in Map(Rnti) /\ nextEnb \in Rnti
      BY <1>0, <1>6 DEF Types, EnbIds, Rnti
    <2>2. enbId' \in Map(Rnti)
      BY <1>1, <1>6, <2>1, PutMap
    <2>3. nextEnb' \in 1 .. MaxRnti + 1
      BY <1>6, BoundsAssumption DEF EnbIds, BoundsAssumption
    <2>4. QED
      BY <1>0, <1>6, <2>2, <2>3, ToldType
  <1>10. Types' /\ Threads'
    BY <1>0, <1>1, <1>2, <1>7, <1>8, <1>9 DEF Types, Threads
  <1>11. \A r \in Rnti : Tunnels(r)' = Tunnels(r)
    BY <1>2 DEF Tunnels
  <1>12. ASSUME NEW r \in DOMAIN users
         PROVE  Kept(r)
    <2>1. OnItsWayOut(r) => OnItsWayOut(r)'
      BY <1>1, <1>2, WaysOut DEF WayOut
    <2>2. r \in Rnti /\ Tunnels(r)' = Tunnels(r) /\ (Leaves(r)' <=> Leaves(r))
      BY <1>0, <1>2, TypeFacts DEF Tunnels, Leaves
    <2>3. CASE r # Who
      BY <1>1, <1>2, <1>7, <1>8, <2>1, <2>2, <2>3, OthersKept
    <2>4. CASE r = Who
      <3>1. \A k \in {"smc", "reconf"} : Awaited(r, k)' => Awaited(r, k)
        BY <1>1, <1>2 DEF Awaited
      <3>2. (Secures(r)' => Secures(r)) /\ (Bears(r)' => Bears(r)) /\ r \in DOMAIN ctxt'
        BY <1>3, <1>7, <1>8, <2>4, <3>1 DEF Secures, Bears
      <3>3. QED
        BY <1>2, <1>3, <1>7, <2>1, <2>2, <2>4, <3>2 DEF Kept
    <2>5. QED
      BY <2>3, <2>4
  <1>13. \A x \in Queued(queue') : x \in Queued(queue)
    BY <1>1, <1>2
  <1>14. QED
    BY <1>2, <1>7, <1>10, <1>11, <1>12, <1>13, KeptStep

LEMMA SecurityModeCompleteInv ==
  ASSUME UserInv, SecurityModeComplete
  PROVE  UserInv'
  <1> DEFINE u == [users[Who] EXCEPT !.cfgOk = FALSE, !.erabs = @ \cup {Drb1},
                                     !.state = "WAIT_FOR_CON_RECONF_COMPLETE"]
  <1>0. Types /\ Threads /\ Layers
    BY DEF UserInv
  <1>1. /\ Who \in DOMAIN users /\ Who \in Rnti /\ pc.rrc = Idle /\ pc.rrc.at = "idle"
        /\ users[Who] \in User /\ Head(queue).kind = "SECURITY_MODE_COMPLETE" /\ Head(queue).rnti = Who
        /\ Tail(queue) \in Seq(Entry) /\ Queued(queue) = Queued(Tail(queue)) \cup {Head(queue)}
        /\ Who \in DOMAIN l2
    BY <1>0, Popped DEF SecurityModeComplete, Layers
  <1>2. /\ UNCHANGED <<mutex, mac, sched, gtpu, enbId, nextEnb, s1, pc, used>>
        /\ queue' = Tail(queue)
    BY DEF SecurityModeComplete
  <1>3. u \in User /\ u.state = "WAIT_FOR_CON_RECONF_COMPLETE"
    BY <1>1 DEF User, States, Drbs
  <1>4. users' = [users EXCEPT ![Who] = u]
    BY <1>1 DEF SecurityModeComplete
  <1> HIDE DEF u
  <1>5. /\ users' \in Map(User) /\ DOMAIN users' = DOMAIN users
        /\ users'[Who] = u /\ \A x \in DOMAIN users : x # Who => users'[x] = users[x]
    BY <1>0, <1>1, <1>3, <1>4, UserUpdated
  <1>6. /\ ctxt' \in Map(Ctxt) /\ DOMAIN ctxt \subseteq DOMAIN ctxt'
        /\ mme' \in [EnbIds -> {"none", "known", "setup", "active", "erab"}]
    <2>1. ctxt \in Map(Ctxt) /\ mme \in [EnbIds -> {"none", "known", "setup", "active", "erab"}]
      BY <1>0 DEF Types
    <2>2. /\ ctxt' = ctxt \/ ctxt' = Put(ctxt, Who, CtxtOf(Who))
          /\ mme' = mme \/ mme' = Told(CtxtOf(Who).enb, {"setup"}, "active")
      BY DEF SecurityModeComplete, UeCtxtSetupComplete, InitialCtxtSetupResponse, InitialCtxtSetupFailure
    <2>3. CtxtOf(Who) \in Ctxt
      BY <1>0, <1>1, CtxtFacts
    <2>4. ctxt' \in Map(Ctxt) /\ DOMAIN ctxt \subseteq DOMAIN ctxt'
      BY <1>0, <1>1, <2>1, <2>2, <2>3, CtxtFacts
    <2>5. QED
      BY <1>0, <2>1, <2>2, <2>4, ToldType
  <1>7. /\ l2' \in Map(SUBSET (0 .. Drb2)) /\ DOMAIN l2' = DOMAIN l2
        /\ \A x \in DOMAIN l2 : x # Who => l2'[x] = l2[x]
        /\ l2[Who] \subseteq l2'[Who] /\ l2'[Who] \cap Drbs \subseteq l2[Who] \cup {Drb1}
        /\ air' \in [Rnti -> SUBSET {"setup", "smc", "reconf"}]
        /\ \A x \in Rnti : x # Who => air'[x] \subseteq air[x]
        /\ air'[Who] \subseteq air[Who] \cup {"reconf"}
        /\ "reconf" \in air'[Who] => "reconf" \in air[Who] \/ Drb1 \in l2'[Who]
    <2>1. PICK configured \in BOOLEAN : ConnectionReconf(Who, configured)
      BY DEF SecurityModeComplete
    <2>2. CASE configured
      <3>1. PICK B \in SUBSET (0 .. Drb2) : B = {2, Drb1}
        <4>1. {2, Drb1} \in SUBSET (0 .. Drb2)
          BY DEF Drb1, Drb2
        <4>2. QED
          BY <4>1, Zenon
      <3>2. l2' = AddBearers(Who, B) /\ air' = SendDl(Who, "reconf")
        BY <2>1, <2>2, <3>1 DEF ConnectionReconf
      <3>3. B \cap Drbs \subseteq {Drb1} /\ Drb1 \in B
        BY <3>1 DEF Drb1, Drb2, Drbs
      <3>4. /\ l2' \in Map(SUBSET (0 .. Drb2)) /\ DOMAIN l2' = DOMAIN l2
            /\ \A x \in DOMAIN l2 : l2'[x] = IF x = Who THEN l2[x] \cup B ELSE l2[x]
        <4>1. /\ AddBearers(Who, B) \in Map(SUBSET (0 .. Drb2)) /\ DOMAIN AddBearers(Who, B) = DOMAIN l2
              /\ \A x \in DOMAIN l2 : AddBearers(Who, B)[x] = IF x = Who THEN l2[x] \cup B ELSE l2[x]
          BY <1>0, <1>1, BearersAdded
        <4>2. QED
          BY <3>2, <4>1
      <3>5. /\ air' \in [Rnti -> SUBSET {"setup", "smc", "reconf"}]
            /\ \A x \in Rnti : air'[x] \subseteq IF x = Who THEN air[x] \cup {"reconf"} ELSE air[x]
        BY <1>0, <1>1, <3>2, Sent
      <3>6. QED
        BY <1>1, <3>3, <3>4, <3>5
    <2>3. CASE ~configured
      <3>1. l2' = l2 /\ air' = air
        BY <2>1, <2>3 DEF ConnectionReconf
      <3>2. QED
        BY <1>0, <3>1 DEF Types
    <2>4. QED
      BY <2>2, <2>3
  <1>8. Types' /\ Threads'
    BY <1>0, <1>1, <1>2, <1>5, <1>6, <1>7 DEF Types, Threads
  <1>9. \A r \in Rnti : Tunnels(r)' = Tunnels(r)
    BY <1>2 DEF Tunnels
  <1>10. Secures(Who) /\ Known(Who)
    BY <1>1 DEF Awaited, AnswerKind, Secures, Known
  <1>11. ASSUME NEW r \in DOMAIN users
         PROVE  Kept(r)
    <2>1. OnItsWayOut(r) => OnItsWayOut(r)'
      BY <1>1, <1>2, WaysOut DEF WayOut
    <2>2. r \in Rnti /\ Tunnels(r)' = Tunnels(r) /\ (Leaves(r)' <=> Leaves(r)) /\ r \in DOMAIN l2
      BY <1>0, <1>2, TypeFacts DEF Tunnels, Leaves, Layers
    <2>3. CASE r # Who
      BY <1>1, <1>2, <1>5, <1>6, <1>7, <2>1, <2>2, <2>3, OthersKept
    <2>4. CASE r = Who
      <3>1. Bears(r)' => Bears(r) \/ l2'[r] \cap Drbs # {}
        BY <1>1, <1>2, <1>3, <1>5, <1>7, <2>4 DEF Bears, Awaited, Drbs
      <3>2. /\ l2'[r] \cap Drbs \subseteq l2[r] \cup {b \in {Drb1} : Secures(r)}
            /\ l2[r] \cap Drbs \subseteq l2'[r] \cap Drbs
        BY <1>7, <1>10, <2>4
      <3>3. users'[r].state # "REGISTERED" /\ Secures(r) /\ Known(r)
        BY <1>3, <1>5, <1>10, <2>4
      <3>4. QED
        BY <1>6, <2>1, <2>2, <3>1, <3>2, <3>3 DEF Kept
    <2>5. QED
      BY <2>3, <2>4
  <1>12. \A x \in Queued(queue') : x \in Queued(queue)
    BY <1>1, <1>2
  <1>13. \A r \in Rnti : air'[r] \subseteq air[r] \/ r \in DOMAIN users
    BY <1>1, <1>7
  <1>14. QED
    BY <1>2, <1>5, <1>7, <1>8, <1>9, <1>11, <1>12, <1>13, KeptStep

-----------------------------------------------------------------------------
(* The bearers the MME asks for.                                           *)

LEMMA ErabSet ==
  ASSUME Types, NEW w \in DOMAIN users, NEW lcid \in Drbs, SetupErab(w, lcid)
  PROVE  /\ users' \in Map(User) /\ DOMAIN users' = DOMAIN users
         /\ \A x \in DOMAIN users : x # w => users'[x] = users[x]
         /\ users'[w].state = users[w].state /\ users'[w].cfgOk = users[w].cfgOk
         /\ users'[w].erabs = users[w].erabs \cup {lcid}
         /\ gtpu' \in Map(SUBSET Drbs)
         /\ \A x \in Rnti : Tunnels(x)' = IF x = w THEN Tunnels(w) \cup {lcid} ELSE Tunnels(x)
  <1> DEFINE u == [users[w] EXCEPT !.erabs = @ \cup {lcid}]
             t == (IF w \in DOMAIN gtpu THEN gtpu[w] ELSE {}) \cup {lcid}
  <1>1. w \in Rnti /\ users[w] \in User /\ gtpu \in Map(SUBSET Drbs)
    BY TypeFacts DEF Types
  <1>2. /\ u \in User /\ u.state = users[w].state /\ u.cfgOk = users[w].cfgOk
        /\ u.erabs = users[w].erabs \cup {lcid}
    BY <1>1 DEF User
  <1>3. users' = [users EXCEPT ![w] = u] /\ gtpu' = Put(gtpu, w, t)
    BY DEF SetupErab, AddTunnel
  <1>4. t \in SUBSET Drbs
    BY <1>1, MapFields
  <1>5. t = Tunnels(w) \cup {lcid}
    BY DEF Tunnels
  <1> HIDE DEF u, t
  <1>6. /\ users' \in Map(User) /\ DOMAIN users' = DOMAIN users
        /\ users'[w] = u /\ \A x \in DOMAIN users : x # w => users'[x] = users[x]
    BY <1>2, <1>3, UserUpdated
  <1>7. gtpu' \in Map(SUBSET Drbs)
    BY <1>1, <1>3, <1>4, PutMap
  <1>8. \A x \in Rnti : Tunnels(x)' = IF x = w THEN t ELSE Tunnels(x)
    BY <1>3 DEF Tunnels, Put
  <1>9. QED
    BY <1>2, <1>5, <1>6, <1>7, <1>8

LEMMA InitialCtxtSetupRequestInv ==
  ASSUME UserInv, NEW e \in EnbIds, InitialCtxtSetupRequest(e)
  PROVE  UserInv'
  <1> DEFINE w == enbId[e]
  <1>0. Types /\ Threads /\ Layers
    BY DEF UserInv
  <1>1. /\ w \in Rnti /\ ctxt' \in Map(Ctxt) /\ DOMAIN ctxt' = DOMAIN ctxt \cup {w}
        /\ mutex = "free"
    BY <1>0, Noted DEF InitialCtxtSetupRequest, Receives
  <1>2. /\ UNCHANGED <<queue, mutex, mac, sched, l2, enbId, nextEnb, s1, pc, used>>
        /\ mme' = [mme EXCEPT ![e] = "setup"]
    BY DEF InitialCtxtSetupRequest
  <1>3. \/ w \in DOMAIN users /\ SetupErab(w, Drb1) /\ air' = SendDl(w, "smc")
        \/ UNCHANGED <<users, gtpu, air>>
    BY DEF InitialCtxtSetupRequest, SecurityModeCommand
  <1> HIDE DEF w
  <1>4. mme' \in [EnbIds -> {"none", "known", "setup", "active", "erab"}]
    BY <1>0, <1>2 DEF Types
  <1>5. \A r : ~Leaves(r) /\ ~Leaves(r)'
    BY <1>0, <1>1, <1>2 DEF Threads, Removal, Leaves
  <1>6. CASE UNCHANGED <<users, gtpu, air>>
    <2>1. \A r \in Rnti : Tunnels(r)' = Tunnels(r)
      BY <1>6 DEF Tunnels
    <2>2. Types' /\ Threads'
      BY <1>0, <1>1, <1>2, <1>4, <1>6 DEF Types, Threads
    <2>3. \A r \in DOMAIN users : /\ SameOrLess(r) /\ (OnItsWayOut(r) => OnItsWayOut(r)')
                                  /\ r \in DOMAIN ctxt => r \in DOMAIN ctxt'
      BY <1>1, <1>2, <1>6, WaysOut DEF SameOrLess
    <2>4. QED
      BY <1>2, <1>6, <2>1, <2>2, <2>3, ControlInv
  <1>7. CASE w \in DOMAIN users /\ SetupErab(w, Drb1) /\ air' = SendDl(w, "smc")
    <2>1. /\ users' \in Map(User) /\ DOMAIN users' = DOMAIN users
          /\ \A x \in DOMAIN users : x # w => users'[x] = users[x]
          /\ users'[w].state = users[w].state /\ users'[w].cfgOk = users[w].cfgOk
          /\ gtpu' \in Map(SUBSET Drbs)
          /\ \A x \in Rnti : Tunnels(x)' = IF x = w THEN Tunnels(w) \cup {Drb1} ELSE Tunnels(x)
      BY <1>0, <1>7, ErabSet DEF Drbs
    <2>2. /\ air' \in [Rnti -> SUBSET {"setup", "smc", "reconf"}]
          /\ \A x \in Rnti : air'[x] \subseteq IF x = w THEN air[x] \cup {"smc"} ELSE air[x]
      BY <1>0, <1>1, <1>7, Sent
    <2>3. Types' /\ Threads'
      BY <1>0, <1>1, <1>2, <1>4, <2>1, <2>2 DEF Types, Threads
    <2>4. ASSUME NEW r \in DOMAIN users
          PROVE  Kept(r)
      <3>1. OnItsWayOut(r) => OnItsWayOut(r)'
        BY <1>2, WaysOut
      <3>2. r \in Rnti /\ Tunnels(r) \subseteq Tunnels(r)'
        BY <1>0, <2>1, TypeFacts
      <3>3. CASE r # w
        BY <1>1, <1>2, <2>1, <2>2, <3>1, <3>2, <3>3, OthersKept
      <3>4. CASE r = w
        <4>1. Drb1 \in Tunnels(r)' /\ r \in DOMAIN ctxt'
          BY <1>1, <2>1, <3>4
        <4>2. Bears(r)' => Bears(r)
          BY <1>1, <1>2, <2>1, <2>2, <3>4 DEF Bears, Awaited
        <4>3. QED
          BY <1>2, <1>5, <2>1, <3>1, <3>2, <3>4, <4>1, <4>2 DEF Kept
      <3>5. QED
        BY <3>3, <3>4
    <2>5. /\ \A r \in Rnti : air'[r] \subseteq air[r] \/ r \in DOMAIN users
          /\ \A r \in Rnti : Tunnels(r)' = Tunnels(r) \/ (r \in DOMAIN users /\ ~Leaves(r))
      BY <1>5, <1>7, <2>1, <2>2
    <2>6. QED
      BY <1>2, <2>1, <2>3, <2>4, <2>5, KeptStep
  <1>8. QED
    BY <1>3, <1>6, <1>7

LEMMA ErabSetupRequestInv ==
  ASSUME UserInv, NEW e \in EnbIds, ErabSetupRequest(e)
  PROVE  UserInv'
  <1> DEFINE w == enbId[e]
  <1>0. Types /\ Threads /\ Layers
    BY DEF UserInv
  <1>1. /\ w \in Rnti /\ ctxt' \in Map(Ctxt) /\ DOMAIN ctxt' = DOMAIN ctxt \cup {w}
        /\ mutex = "free"
    BY <1>0, Noted DEF ErabSetupRequest, Receives
  <1>2. UNCHANGED <<queue, mutex, mac, sched, enbId, nextEnb, s1, pc>>
    BY DEF ErabSetupRequest
  <1>3. /\ used' \in [rnti : 0 .. MaxRnti, msg3 : SUBSET Rnti, events : 0 .. MaxEvents]
        /\ used'.rnti = used.rnti
    BY <1>0, EventUsed DEF ErabSetupRequest
  <1>4. \/ /\ w \in DOMAIN users /\ SetupErab(w, Drb2)
           /\ \E configured \in BOOLEAN : ReconfNewBearer(w, configured)
        \/ UNCHANGED <<users, gtpu, l2, air>>
    BY DEF ErabSetupRequest
  <1>5. mme' \in [EnbIds -> {"none", "known", "setup", "active", "erab"}]
    <2>1. mme' = mme \/ mme' = Told(e, {"active"}, "erab")
      BY DEF ErabSetupRequest, ErabSetupResponse
    <2>2. QED
      BY <1>0, <2>1, ToldType DEF Types
  <1> HIDE DEF w
  <1>6. \A r : ~Leaves(r) /\ ~Leaves(r)'
    BY <1>0, <1>1, <1>2 DEF Threads, Removal, Leaves
  <1>7. CASE UNCHANGED <<users, gtpu, l2, air>>
    <2>1. \A r \in Rnti : Tunnels(r)' = Tunnels(r)
      BY <1>7 DEF Tunnels
    <2>2. Types' /\ Threads'
      BY <1>0, <1>1, <1>2, <1>3, <1>5, <1>7 DEF Types, Threads
    <2>3. \A r \in DOMAIN users : /\ SameOrLess(r) /\ (OnItsWayOut(r) => OnItsWayOut(r)')
                                  /\ r \in DOMAIN ctxt => r \in DOMAIN ctxt'
      BY <1>1, <1>2, <1>7, WaysOut DEF SameOrLess
    <2>4. QED
      BY <1>2, <1>3, <1>7, <2>1, <2>2, <2>3, ControlInv
  <1>8. CASE /\ w \in DOMAIN users /\ SetupErab(w, Drb2)
             /\ \E configured \in BOOLEAN : ReconfNewBearer(w, configured)
    <2>1. /\ users' \in Map(User) /\ DOMAIN users' = DOMAIN users
          /\ \A x \in DOMAIN users : x # w => users'[x] = users[x]
          /\ users'[w].state = users[w].state /\ users'[w].cfgOk = users[w].cfgOk
          /\ users'[w].erabs = users[w].erabs \cup {Drb2}
          /\ gtpu' \in Map(SUBSET Drbs)
          /\ \A x \in Rnti : Tunnels(x)' = IF x = w THEN Tunnels(w) \cup {Drb2} ELSE Tunnels(x)
      BY <1>0, <1>8, ErabSet DEF Drbs
    <2>2. w \in DOMAIN l2 /\ l2 \in Map(SUBSET (0 .. Drb2))
          /\ air \in [Rnti -> SUBSET {"setup", "smc", "reconf"}]
      BY <1>0, <1>8 DEF Layers, Types
    <2>3. /\ l2' \in Map(SUBSET (0 .. Drb2)) /\ DOMAIN l2' = DOMAIN l2
          /\ \A x \in DOMAIN l2 : x # w => l2'[x] = l2[x]
          /\ l2[w] \subseteq l2'[w] /\ l2'[w] \subseteq l2[w] \cup {Drb2}
          /\ air' \in [Rnti -> SUBSET {"setup", "smc", "reconf"}]
          /\ \A x \in Rnti : x # w => air'[x] \subseteq air[x]
          /\ air'[w] \subseteq air[w] \cup {"reconf"}
          /\ "reconf" \in air'[w] => "reconf" \in air[w] \/ Drb2 \in l2'[w]
      <3>1. PICK configured \in BOOLEAN : ReconfNewBearer(w, configured)
        BY <1>8
      <3>2. CASE configured
        <4>1. PICK B \in SUBSET (0 .. Drb2) : B = {Drb2}
          <5>1. {Drb2} \in SUBSET (0 .. Drb2)
            BY DEF Drb2
          <5>2. QED
            BY <5>1, Zenon
        <4>2. l2' = AddBearers(w, B) /\ air' = SendDl(w, "reconf")
          BY <3>1, <3>2, <4>1 DEF ReconfNewBearer
        <4>3. /\ AddBearers(w, B) \in Map(SUBSET (0 .. Drb2)) /\ DOMAIN AddBearers(w, B) = DOMAIN l2
              /\ \A x \in DOMAIN l2 : AddBearers(w, B)[x] = IF x = w THEN l2[x] \cup B ELSE l2[x]
          BY <1>0, <1>1, BearersAdded
        <4>4. /\ l2' \in Map(SUBSET (0 .. Drb2)) /\ DOMAIN l2' = DOMAIN l2
              /\ \A x \in DOMAIN l2 : l2'[x] = IF x = w THEN l2[x] \cup B ELSE l2[x]
          BY <4>2, <4>3
        <4>5. /\ air' \in [Rnti -> SUBSET {"setup", "smc", "reconf"}]
              /\ \A x \in Rnti : air'[x] \subseteq IF x = w THEN air[x] \cup {"reconf"} ELSE air[x]
          BY <1>0, <1>1, <4>2, Sent
        <4>6. QED
          BY <1>1, <2>2, <4>1, <4>4, <4>5
      <3>3. CASE ~configured
        <4>1. l2' = l2 /\ air' = air
          BY <3>1, <3>3 DEF ReconfNewBearer
        <4>2. QED
          BY <2>2, <4>1
      <3>4. QED
        BY <3>2, <3>3
    <2>4. Types' /\ Threads'
      BY <1>0, <1>1, <1>2, <1>3, <1>5, <2>1, <2>3 DEF Types, Threads
    <2>5. ASSUME NEW r \in DOMAIN users
          PROVE  Kept(r)
      <3>1. OnItsWayOut(r) => OnItsWayOut(r)'
        BY <1>2, WaysOut
      <3>2. r \in Rnti /\ Tunnels(r) \subseteq Tunnels(r)' /\ r \in DOMAIN l2
        BY <1>0, <2>1, TypeFacts DEF Layers
      <3>3. CASE r # w
        BY <1>1, <1>2, <2>1, <2>3, <3>1, <3>2, <3>3, OthersKept
      <3>4. CASE r = w
        <4>1. /\ Drb2 \in Tunnels(r)' /\ r \in DOMAIN ctxt' /\ Drb1 # Drb2
              /\ Drb1 \in users'[r].erabs => Drb1 \in users[r].erabs
          BY <1>1, <2>1, <3>4 DEF Drb1, Drb2
        <4>2. Secures(r)' => Secures(r)
          BY <1>1, <1>2, <2>3, <3>4, <4>1 DEF Secures, Awaited
        <4>3. Bears(r)' => Bears(r) \/ Drb2 \in l2'[r]
          BY <1>1, <1>2, <2>1, <2>3, <3>4 DEF Bears, Awaited
        <4>4. /\ l2'[r] \cap Drbs \subseteq l2[r] \cup Tunnels(r)'
              /\ l2[r] \cap Drbs \subseteq l2'[r]
              /\ Drb2 \in l2'[r] => l2'[r] \cap Drbs # {}
          BY <2>3, <3>4, <4>1 DEF Drbs
        <4>5. users'[r].state = users[r].state /\ users'[r].cfgOk = users[r].cfgOk
          BY <2>1, <3>4
        <4>6. QED
          BY <1>6, <3>1, <3>2, <4>1, <4>2, <4>3, <4>4, <4>5 DEF Kept
      <3>5. QED
        BY <3>3, <3>4
    <2>6. /\ \A r \in Rnti : air'[r] \subseteq air[r] \/ r \in DOMAIN users
          /\ \A r \in Rnti : Tunnels(r)' = Tunnels(r) \/ (r \in DOMAIN users /\ ~Leaves(r))
      BY <1>6, <1>8, <2>1, <2>3
    <2>7. QED
      BY <1>2, <1>3, <2>1, <2>3, <2>4, <2>5, <2>6, KeptStep
  <1>9. QED
    BY <1>4, <1>7, <1>8

\* The UE came back under a new RNTI and is configured again as the old user.
LEMMA UpdUserInv ==
  ASSUME UserInv, UpdUser
  PROVE  UserInv'
  <1> DEFINE w == pc.pdu.old
  <1>0. Types /\ Threads /\ Layers
    BY DEF UserInv
  <1>1. pc \in Places /\ pc.pdu # Idle /\ mutex = "free" /\ mac \in Map(Rnti)
    BY <1>0 DEF UpdUser, Types
  <1>2. w \in Rnti
    BY <1>1 DEF Places, Updating
  <1>3. /\ UNCHANGED <<queue, mutex, sched, l2, gtpu, ctxt, enbId, nextEnb, mme, s1, used>>
        /\ mac' = [mac EXCEPT ![pc.pdu.r] = w] /\ pc' = [pc EXCEPT !.pdu = Idle]
    BY DEF UpdUser, s1apVars
  <1>4. \/ UNCHANGED users /\ (air' = air \/ air' = Released(w))
        \/ /\ w \in DOMAIN users /\ users[w].state = "REGISTERED" /\ air' = SendDl(w, "reconf")
           /\ users' = [users EXCEPT ![w].state = "WAIT_FOR_CON_RECONF_COMPLETE"]
    BY DEF UpdUser
  <1>5. pc' \in Places
    BY <1>0, <1>2, <1>3, OtherPlaces
  <1>6. pc'.rrc = pc.rrc /\ pc'.mon = pc.mon /\ pc'.prach = pc.prach
    BY <1>1, <1>3 DEF Places
  <1>7. mac' \in Map(Rnti) /\ DOMAIN mac' = DOMAIN mac
    <2>1. CASE pc.pdu.r \in DOMAIN mac
      BY <1>1, <1>2, <1>3, <2>1, ExceptMap
    <2>2. CASE pc.pdu.r \notin DOMAIN mac
      <3>1. mac' = mac
        BY <1>1, <1>3, <2>2, MapFields
      <3>2. QED
        BY <1>1, <3>1
    <2>3. QED
      BY <2>1, <2>2
  <1> HIDE DEF w
  <1>8. \A r \in Rnti : Tunnels(r)' = Tunnels(r)
    BY <1>3 DEF Tunnels
  <1>9. CASE UNCHANGED users /\ (air' = air \/ air' = Released(w))
    <2>1. /\ air' \in [Rnti -> SUBSET {"setup", "smc", "reconf"}]
          /\ \A r \in Rnti : air'[r] \subseteq air[r]
      BY <1>0, <1>9 DEF Released, Types
    <2>2. Types' /\ Threads'
      BY <1>0, <1>3, <1>5, <1>6, <1>7, <1>9, <2>1 DEF Types, Threads
    <2>3. ASSUME NEW r \in DOMAIN users
          PROVE  SameOrLess(r) /\ (OnItsWayOut(r) => OnItsWayOut(r)')
      <3>1. r \in Rnti
        BY <1>0, TypeFacts
      <3>2. QED
        BY <1>3, <1>6, <1>9, <2>1, <3>1, WaysOut DEF SameOrLess
    <2>4. QED
      BY <1>3, <1>6, <1>7, <1>8, <1>9, <2>1, <2>2, <2>3, ControlInv
  <1>10. CASE /\ w \in DOMAIN users /\ users[w].state = "REGISTERED" /\ air' = SendDl(w, "reconf")
              /\ users' = [users EXCEPT ![w].state = "WAIT_FOR_CON_RECONF_COMPLETE"]
    <2> DEFINE u == [users[w] EXCEPT !.state = "WAIT_FOR_CON_RECONF_COMPLETE"]
    <2>1. users[w] \in User
      BY <1>0, <1>10, TypeFacts
    <2>2. u \in User /\ u.state = "WAIT_FOR_CON_RECONF_COMPLETE" /\ u.erabs = users[w].erabs
      BY <2>1 DEF User, States
    <2>3. users' = [users EXCEPT ![w] = u]
      BY <1>10
    <2> HIDE DEF u
    <2>4. /\ users' \in Map(User) /\ DOMAIN users' = DOMAIN users
          /\ users'[w] = u /\ \A x \in DOMAIN users : x # w => users'[x] = users[x]
      BY <1>0, <1>10, <2>2, <2>3, UserUpdated
    <2>5. /\ air' \in [Rnti -> SUBSET {"setup", "smc", "reconf"}]
          /\ \A x \in Rnti : air'[x] \subseteq IF x = w THEN air[x] \cup {"reconf"} ELSE air[x]
      BY <1>0, <1>2, <1>10, Sent
    <2>6. Types' /\ Threads'
      BY <1>0, <1>3, <1>5, <1>6, <1>7, <2>4, <2>5 DEF Types, Threads
    <2>7. ASSUME NEW r \in DOMAIN users
          PROVE  Kept(r)
      <3>1. OnItsWayOut(r) => OnItsWayOut(r)'
        BY <1>3, <1>6, WaysOut
      <3>2. r \in Rnti /\ Tunnels(r)' = Tunnels(r) /\ (Leaves(r)' <=> Leaves(r))
        BY <1>0, <1>6, <1>8, TypeFacts DEF Leaves
      <3>3. CASE r # w
        BY <1>3, <1>6, <2>4, <2>5, <3>1, <3>2, <3>3, OthersKept
      <3>4. CASE r = w
        <4>1. Bears(r) /\ Known(r)
          BY <1>10, <3>4 DEF Bears, Known
        <4>2. Secures(r)' => Secures(r)
          BY <1>2, <1>3, <2>2, <2>4, <2>5, <3>4 DEF Secures, Awaited
        <4>3. QED
          BY <1>3, <2>2, <2>4, <3>1, <3>2, <3>4, <4>1, <4>2 DEF Kept
      <3>5. QED
        BY <3>3, <3>4
    <2>8. \A r \in Rnti : air'[r] \subseteq air[r] \/ r \in DOMAIN users
      BY <1>10, <2>5
    <2>9. QED
      BY <1>3, <1>6, <1>7, <1>8, <2>4, <2>6, <2>7, <2>8, KeptStep
  <1>11. QED
    BY <1>4, <1>9, <1>10

-----------------------------------------------------------------------------
(* Users that come and go.                                                 *)

\* MAC and the scheduler make a user of a preamble before RRC hears of it.
LEMMA RachDetectedInv ==
  ASSUME UserInv, RachDetected
  PROVE  UserInv'
  <1> DEFINE n == used.rnti + 1
  <1>0. Types /\ Threads /\ Layers /\ Unseen /\ Bearers /\ Contexts
    BY DEF UserInv
  <1>1. /\ pc \in Places /\ mac \in Map(Rnti) /\ sched \in SUBSET Rnti
        /\ used \in [rnti : 0 .. MaxRnti, msg3 : SUBSET Rnti, events : 0 .. MaxEvents]
    BY <1>0 DEF Types
  <1>2. n \in Rnti /\ n > used.rnti /\ n \in 0 .. MaxRnti /\ used.rnti \in Nat /\ n # 0
    BY <1>1, BoundsAssumption DEF RachDetected, Rnti, BoundsAssumption
  <1>3. /\ UNCHANGED <<users, queue, mutex, l2, gtpu, ctxt, enbId, nextEnb, mme, s1, air>>
        /\ mac' = Put(mac, n, n) /\ sched' = sched \cup {n}
        /\ used' = [used EXCEPT !.rnti = n]
        /\ pc' = [pc EXCEPT !.prach = At("add_user", n)] /\ pc.prach = Idle
    BY DEF RachDetected, rrcVars, s1apVars
  <1> HIDE DEF n
  <1>4. /\ mac' \in Map(Rnti) /\ DOMAIN mac' = DOMAIN mac \cup {n}
    <2>1. mac' \in Map(Rnti)
      BY <1>1, <1>2, <1>3, PutMap
    <2>2. DOMAIN mac' = DOMAIN mac \cup {n}
      BY <1>3 DEF Put
    <2>3. QED
      BY <2>1, <2>2
  <1>5. /\ used' \in [rnti : 0 .. MaxRnti, msg3 : SUBSET Rnti, events : 0 .. MaxEvents]
        /\ used'.rnti = n
    BY <1>1, <1>2, <1>3
  <1>6. /\ pc' \in Places /\ At("add_user", n).r = n /\ At("add_user", n) # Idle
    BY <1>0, <1>2, <1>3, OtherPlaces
  <1>7. pc'.rrc = pc.rrc /\ pc'.mon = pc.mon /\ pc'.prach = At("add_user", n)
    BY <1>1, <1>3 DEF Places
  <1>8. Types' /\ Threads'
    BY <1>0, <1>1, <1>2, <1>3, <1>4, <1>5, <1>6, <1>7 DEF Types, Threads
  <1>9. n \notin DOMAIN users /\ pc.prach.r = 0
    BY <1>0, <1>2, <1>3 DEF Unseen, Fresh, Idle
  <1>10. \A r \in Rnti : r # 0
    BY DEF Rnti
  <1>11. Layers'
    <2>1. pc.rrc.at \in Removal => pc.rrc.r \in DOMAIN users
      BY <1>0 DEF Threads, Idle, Removal
    <2>2. DOMAIN mac \subseteq DOMAIN users
      BY <1>0, <1>9, <1>10, TypeFacts DEF Layers
    <2>3. /\ \A r : (Removing(r)' <=> Removing(r)) /\ Tunnels(r)' = Tunnels(r)
          /\ Tunnels(pc.rrc.r)' = Tunnels(pc.rrc.r)
      BY <1>3, <1>7 DEF Removing, Tunnels
    <2>4. DOMAIN l2' = DOMAIN users' /\ sched' \subseteq DOMAIN mac'
      BY <1>0, <1>3, <1>4 DEF Layers
    <2>5. \A r \in DOMAIN users' : ~Removing(r)' => r \in sched'
      BY <1>0, <1>3, <2>3 DEF Layers
    <2>6. \A r \in DOMAIN mac' : r \in DOMAIN users' \/ pc'.prach.r = r
      BY <1>3, <1>4, <1>6, <1>7, <2>2
    <2>7. pc'.prach # Idle => pc'.prach.r \in sched' \ DOMAIN users'
      BY <1>3, <1>6, <1>7, <1>9
    <2>8. /\ pc'.rrc.at \in Removal => pc'.rrc.r \notin sched'
          /\ pc'.rrc.at = "rem_l2" => pc'.rrc.r \notin DOMAIN mac' /\ Tunnels(pc.rrc.r)' = {}
      BY <1>0, <1>3, <1>4, <1>7, <1>9, <2>1, <2>3 DEF Layers, Removal
    <2>9. \A r \in Rnti : Tunnels(r)' # {} => r \in DOMAIN users'
      BY <1>0, <1>3, <2>3 DEF Layers
    <2>10. QED
      BY <2>4, <2>5, <2>6, <2>7, <2>8, <2>9 DEF Layers
  <1>12. Unseen'
    <2>1. \A r \in Rnti : Fresh(r)' => Fresh(r)
      BY <1>1, <1>2, <1>5, <1>6, <1>7 DEF Fresh, Rnti
    <2>2. pc'.prach.r <= used'.rnti
      BY <1>2, <1>5, <1>6, <1>7
    <2>3. QED
      BY <1>0, <1>3, <2>1, <2>2 DEF Unseen
  <1>13. ASSUME NEW r \in DOMAIN users
         PROVE  Kept(r)
    <2>1. OnItsWayOut(r) => OnItsWayOut(r)'
      BY <1>3, <1>7, WaysOut
    <2>2. Tunnels(r)' = Tunnels(r)
      BY <1>3 DEF Tunnels
    <2>3. QED
      BY <1>3, <1>7, <2>1, <2>2, OthersKept
  <1>14. Bearers' /\ Contexts'
    BY <1>0, <1>3, <1>13, KeptInv
  <1>15. QED
    BY <1>8, <1>11, <1>12, <1>14 DEF UserInv

LEMMA AddUserInv ==
  ASSUME UserInv, AddUser
  PROVE  UserInv'
  <1>0. Types /\ Threads /\ Layers /\ Unseen /\ Bearers /\ Contexts
    BY DEF UserInv
  <1>n. PICK n : n = pc.prach.r
    OBVIOUS
  <1>1. pc \in Places /\ pc.prach # Idle /\ n \in sched /\ n \notin DOMAIN users /\ mutex = "free"
    BY <1>0, <1>n DEF Types, AddUser, Layers
  <1>2. /\ UNCHANGED <<queue, mutex, mac, sched, gtpu, ctxt, enbId, nextEnb, mme, s1, air, used>>
        /\ users' = Put(users, n, NewUser) /\ l2' = Put(l2, n, NewBearers)
        /\ pc' = [pc EXCEPT !.prach = Idle]
    BY <1>0, <1>1, <1>n DEF AddUser, s1apVars, Layers
  <1>3. /\ users \in Map(User) /\ l2 \in Map(SUBSET (0 .. Drb2)) /\ n \in Rnti
        /\ used \in [rnti : 0 .. MaxRnti, msg3 : SUBSET Rnti, events : 0 .. MaxEvents]
    BY <1>0, <1>1 DEF Types
  <1>4. NewUser \in User /\ NewBearers \in SUBSET (0 .. Drb2)
    BY DEF NewUser, User, States, NewBearers, Srb0, Drb2
  <1>5. pc' \in Places
    BY <1>0, <1>2, <1>3, OtherPlaces
  <1>6. pc'.rrc = pc.rrc /\ pc'.mon = pc.mon /\ pc'.prach = Idle
    BY <1>1, <1>2 DEF Places
  <1>7. users' \in Map(User) /\ l2' \in Map(SUBSET (0 .. Drb2))
    BY <1>2, <1>3, <1>4, PutMap
  <1>8. /\ DOMAIN users' = DOMAIN users \cup {n} /\ DOMAIN l2' = DOMAIN l2 \cup {n}
        /\ users'[n] = NewUser /\ l2'[n] = NewBearers
        /\ \A r \in DOMAIN users : r # n => users'[r] = users[r]
        /\ \A r \in DOMAIN l2 : r # n => l2'[r] = l2[r]
    BY <1>2 DEF Put
  <1>9. Types'
    BY <1>0, <1>2, <1>5, <1>7 DEF Types
  <1>10. Threads'
    BY <1>0, <1>2, <1>6, <1>8 DEF Threads
  <1>11. /\ \A r : /\ (Removing(r)' <=> Removing(r)) /\ (Leaves(r)' <=> Leaves(r))
                    /\ Tunnels(r)' = Tunnels(r)
         /\ Tunnels(pc.rrc.r)' = Tunnels(pc.rrc.r)
    BY <1>2, <1>6 DEF Removing, Tunnels, Leaves
  <1>12. Layers'
    <2>1. DOMAIN l2' = DOMAIN users' /\ sched' \subseteq DOMAIN mac'
      BY <1>0, <1>2, <1>8 DEF Layers
    <2>2. \A r \in DOMAIN users' : ~Removing(r)' => r \in sched'
      BY <1>0, <1>1, <1>2, <1>8, <1>11 DEF Layers
    <2>3. \A r \in DOMAIN mac' : r \in DOMAIN users' \/ pc'.prach.r = r
      BY <1>0, <1>2, <1>8, <1>n DEF Layers
    <2>4. /\ pc'.prach = Idle /\ (pc'.rrc.at \in Removal => pc'.rrc.r \notin sched')
          /\ pc'.rrc.at = "rem_l2" => pc'.rrc.r \notin DOMAIN mac' /\ Tunnels(pc.rrc.r)' = {}
      BY <1>0, <1>2, <1>6, <1>11 DEF Layers
    <2>5. \A r \in Rnti : Tunnels(r)' # {} => r \in DOMAIN users'
      BY <1>0, <1>8, <1>11 DEF Layers
    <2>6. QED
      BY <2>1, <2>2, <2>3, <2>4, <2>5 DEF Layers
  <1>13. n <= used.rnti /\ used.rnti \in Nat
    BY <1>0, <1>3, <1>n DEF Unseen
  <1>14. Unseen'
    <2>1. ASSUME NEW r \in Rnti, Fresh(r)'
          PROVE  Fresh(r) /\ r # n
      BY <1>2, <1>3, <1>6, <1>13, <2>1 DEF Fresh, Rnti, Idle
    <2>2. pc'.prach.r <= used'.rnti
      BY <1>2, <1>6, <1>13 DEF Idle
    <2>3. QED
      BY <1>0, <1>2, <1>8, <2>1, <2>2 DEF Unseen
  <1>15. Created(n)
    <2>1. air[n] = {} /\ \A x \in Queued(queue) : x.rnti = n => x.kind \notin Answers
      BY <1>0, <1>3, <1>n DEF Unseen, Fresh
    <2>2. ~Awaited(n, "smc")' /\ ~Awaited(n, "reconf")'
      BY <1>2, <2>1 DEF Awaited, AnswerKind, Answers
    <2>3. QED
      BY <1>8, <2>2 DEF Created
  <1>16. ASSUME NEW r \in DOMAIN users
         PROVE  Kept(r)
    <2>1. OnItsWayOut(r) => OnItsWayOut(r)'
      BY <1>2, <1>6, WaysOut
    <2>2. r # n /\ r \in DOMAIN l2
      BY <1>0, <1>1 DEF Layers
    <2>3. QED
      BY <1>2, <1>6, <1>8, <1>11, <2>1, <2>2, OthersKept
  <1>17. Bearers' /\ Contexts'
    BY <1>0, <1>8, <1>15, <1>16, KeptInv
  <1>18. QED
    BY <1>9, <1>10, <1>12, <1>14, <1>17 DEF UserInv

\* rem_user, first the scheduler and the PHY.
LEMMA RemUserInv ==
  ASSUME UserInv, RemUser
  PROVE  UserInv'
  <1>0. Types /\ Threads /\ Layers /\ Unseen /\ Bearers /\ Contexts
    BY DEF UserInv
  <1>n. PICK n : n = Who
    OBVIOUS
  <1>1. /\ n \in DOMAIN users /\ n \in Rnti /\ pc.rrc = Idle /\ pc.rrc.at = "idle"
        /\ Head(queue).kind = "REM" /\ Head(queue).rnti = n
        /\ Tail(queue) \in Seq(Entry) /\ Queued(queue) = Queued(Tail(queue)) \cup {Head(queue)}
    BY <1>0, <1>n, Popped DEF RemUser
  <1>2. /\ UNCHANGED <<users, mac, l2, gtpu, ctxt, enbId, nextEnb, mme, s1, air, used>>
        /\ queue' = Tail(queue) /\ mutex = "free" /\ mutex' = "rrc" /\ pc' = [pc EXCEPT !.rrc = At("rem_mac", n)]
        /\ sched' = IF n \in DOMAIN mac THEN sched \ {n} ELSE sched
    BY <1>n DEF RemUser, RrcAt, s1apVars
  <1>3. pc \in Places /\ pc' \in Places /\ At("rem_mac", n).r = n /\ At("rem_mac", n).at = "rem_mac"
    <2>1. "rem_mac" \in {"nas", "rl_failure", "released"} \cup Removal
      BY DEF Removal
    <2>2. QED
      BY <1>0, <1>1, <1>2, <2>1, RrcPlaces DEF Types
  <1>4. pc'.rrc = At("rem_mac", n) /\ pc'.mon = pc.mon /\ pc'.prach = pc.prach
    BY <1>2, <1>3 DEF Places
  <1>5. n \notin sched' /\ sched' \subseteq sched /\ \A r : r # n => (r \in sched' <=> r \in sched)
    BY <1>0, <1>2 DEF Layers
  <1>6. Types'
    BY <1>0, <1>1, <1>2, <1>3, <1>5 DEF Types
  <1>7. Threads'
    BY <1>0, <1>1, <1>2, <1>3, <1>4 DEF Threads, Removal
  <1>8. \A r : /\ Tunnels(r)' = Tunnels(r) /\ ~Leaves(r)' /\ ~Leaves(r)
               /\ (Removing(r)' <=> r = n) /\ ~Removing(r)
    BY <1>1, <1>2, <1>3, <1>4 DEF Tunnels, Leaves, Removing
  <1>9. Layers'
    <2>1. DOMAIN l2' = DOMAIN users' /\ sched' \subseteq DOMAIN mac'
      BY <1>0, <1>2, <1>5 DEF Layers
    <2>2. \A r \in DOMAIN users' : ~Removing(r)' => r \in sched'
      BY <1>0, <1>2, <1>5, <1>8 DEF Layers
    <2>3. \A r \in DOMAIN mac' : r \in DOMAIN users' \/ pc'.prach.r = r
      BY <1>0, <1>2, <1>4 DEF Layers
    <2>4. pc'.prach # Idle => pc'.prach.r \in sched' \ DOMAIN users'
      BY <1>0, <1>1, <1>2, <1>4, <1>5 DEF Layers
    <2>5. pc'.rrc.r \notin sched' /\ pc'.rrc.at # "rem_l2"
      BY <1>3, <1>4, <1>5
    <2>6. \A r \in Rnti : Tunnels(r)' # {} => r \in DOMAIN users'
      BY <1>0, <1>2, <1>8 DEF Layers
    <2>7. QED
      BY <2>1, <2>2, <2>3, <2>4, <2>5, <2>6 DEF Layers
  <1>10. \A x \in Queued(queue') : x \in Queued(queue)
    BY <1>1, <1>2
  <1>11. Unseen'
    BY <1>0, <1>2, <1>4, <1>10, UnseenKept
  <1>12. ASSUME NEW r \in DOMAIN users
         PROVE  Kept(r)
    <2>1. OnItsWayOut(r) => OnItsWayOut(r)'
      BY <1>1, <1>2, <1>3, <1>4, WaysOut DEF WayOut
    <2>2. SameOrLess(r)
      BY <1>2 DEF SameOrLess
    <2>3. QED
      BY <1>2, <1>8, <1>10, <2>1, <2>2, KeptBy
  <1>13. Bearers' /\ Contexts'
    BY <1>0, <1>2, <1>12, KeptInv
  <1>14. QED
    BY <1>6, <1>7, <1>9, <1>11, <1>13 DEF UserInv

\* Then MAC, once it has no reader, and the tunnels.
LEMMA RemMacGtpuInv ==
  ASSUME UserInv, RemMacGtpu
  PROVE  UserInv'
  <1>0. Types /\ Threads /\ Layers /\ Unseen /\ Bearers /\ Contexts
    BY DEF UserInv
  <1>n. PICK n : n = pc.rrc.r
    OBVIOUS
  <1>1. /\ n \in DOMAIN users /\ n \in Rnti /\ pc.rrc.at = "rem_mac"
        /\ mac \in Map(Rnti) /\ gtpu \in Map(SUBSET Drbs)
    BY <1>0, <1>n, RrcWorksOn DEF RemMacGtpu, Types
  <1>2. /\ UNCHANGED <<users, queue, mutex, sched, l2, ctxt, enbId, nextEnb, mme, s1, air, used>>
        /\ mac' = Erase(mac, n) /\ gtpu' = Erase(gtpu, n)
        /\ pc' = [pc EXCEPT !.rrc = At("rem_l2", n)]
    BY <1>n DEF RemMacGtpu, RrcAt, rrcVars, s1apVars
  <1>3. pc \in Places /\ pc' \in Places /\ At("rem_l2", n).r = n /\ At("rem_l2", n).at = "rem_l2"
    <2>1. "rem_l2" \in {"nas", "rl_failure", "released"} \cup Removal
      BY DEF Removal
    <2>2. QED
      BY <1>0, <1>1, <1>2, <2>1, RrcPlaces DEF Types
  <1>4. pc'.rrc = At("rem_l2", n) /\ pc'.mon = pc.mon /\ pc'.prach = pc.prach
    BY <1>2, <1>3 DEF Places
  <1>5. /\ mac' \in Map(Rnti) /\ gtpu' \in Map(SUBSET Drbs)
    BY <1>1, <1>2, EraseMap
  <1>6. /\ DOMAIN mac' = DOMAIN mac \ {n}
        /\ \A r : Tunnels(r)' = IF r = n THEN {} ELSE Tunnels(r)
    BY <1>2 DEF Erase, Restrict, Tunnels
  <1>7. Types'
    BY <1>0, <1>2, <1>3, <1>5 DEF Types
  <1>8. Threads'
    BY <1>0, <1>1, <1>2, <1>3, <1>4 DEF Threads, Removal
  <1>9. \A r : (Leaves(r)' <=> r = n) /\ (Removing(r)' <=> r = n) /\ (Removing(r) <=> r = n) /\ ~Leaves(r)
    BY <1>n, <1>1, <1>3, <1>4 DEF Leaves, Removing
  <1>10. Layers'
    <2>1. DOMAIN l2' = DOMAIN users' /\ sched' \subseteq DOMAIN mac' /\ n \notin sched
      BY <1>0, <1>n, <1>1, <1>2, <1>6 DEF Layers, Removal
    <2>2. \A r \in DOMAIN users' : ~Removing(r)' => r \in sched'
      BY <1>0, <1>2, <1>9 DEF Layers
    <2>3. \A r \in DOMAIN mac' : r \in DOMAIN users' \/ pc'.prach.r = r
      BY <1>0, <1>2, <1>4, <1>6 DEF Layers
    <2>4. pc'.prach # Idle => pc'.prach.r \in sched' \ DOMAIN users'
      BY <1>0, <1>2, <1>4 DEF Layers
    <2>5. pc'.rrc.r \notin sched' /\ pc'.rrc.r \notin DOMAIN mac' /\ pc'.rrc.r = n
      BY <1>2, <1>3, <1>4, <1>6, <2>1
    <2>6. Tunnels(pc.rrc.r)' = {}
      BY <1>2, <2>5 DEF Tunnels, Erase, Restrict
    <2>7. \A r \in Rnti : Tunnels(r)' # {} => r \in DOMAIN users'
      BY <1>0, <1>2, <1>6 DEF Layers
    <2>8. QED
      BY <2>1, <2>2, <2>3, <2>4, <2>5, <2>6, <2>7 DEF Layers
  <1>11. Unseen'
    BY <1>0, <1>2, <1>4, UnseenKept
  <1>12. ASSUME NEW r \in DOMAIN users
         PROVE  Kept(r)
    <2>1. OnItsWayOut(r) => OnItsWayOut(r)'
      BY <1>n, <1>1, <1>2, <1>3, <1>4, WaysOut DEF WayOut
    <2>2. SameOrLess(r)
      BY <1>2 DEF SameOrLess
    <2>3. ~Leaves(r)' => ~Leaves(r) /\ Tunnels(r) \subseteq Tunnels(r)'
      BY <1>6, <1>9
    <2>4. QED
      BY <1>2, <2>1, <2>2, <2>3, KeptBy
  <1>13. Bearers' /\ Contexts'
    BY <1>0, <1>2, <1>12, KeptInv
  <1>14. QED
    BY <1>7, <1>8, <1>10, <1>11, <1>13 DEF UserInv

\* Last RLC, PDCP and RRC itself.
LEMMA RemRlcPdcpInv ==
  ASSUME UserInv, RemRlcPdcp
  PROVE  UserInv'
  <1>0. Types /\ Threads /\ Layers /\ Unseen /\ Bearers /\ Contexts
    BY DEF UserInv
  <1>n. PICK n : n = pc.rrc.r
    OBVIOUS
  <1>1. /\ n \in DOMAIN users /\ n \in Rnti /\ pc.rrc.at = "rem_l2" /\ mutex = "rrc"
        /\ users \in Map(User) /\ l2 \in Map(SUBSET (0 .. Drb2))
    BY <1>0, <1>n, RrcWorksOn DEF RemRlcPdcp, Types, Threads, Removal
  <1>2. /\ UNCHANGED <<queue, mac, sched, gtpu, ctxt, enbId, nextEnb, mme, s1, air, used>>
        /\ l2' = Erase(l2, n) /\ users' = Erase(users, n) /\ mutex' = "free"
        /\ pc' = [pc EXCEPT !.rrc = Idle]
    BY <1>n DEF RemRlcPdcp, s1apVars
  <1>3. pc \in Places /\ pc' \in Places
    BY <1>0, <1>1, <1>2, RrcPlaces DEF Types
  <1>4. pc'.rrc = Idle /\ pc'.mon = pc.mon /\ pc'.prach = pc.prach /\ Idle.at = "idle"
    BY <1>2, <1>3 DEF Places, Idle
  <1>5. users' \in Map(User) /\ l2' \in Map(SUBSET (0 .. Drb2))
    BY <1>1, <1>2, EraseMap
  <1>6. /\ DOMAIN users' = DOMAIN users \ {n} /\ DOMAIN l2' = DOMAIN l2 \ {n}
        /\ \A r \in DOMAIN users : r # n => users'[r] = users[r]
        /\ \A r \in DOMAIN l2 : r # n => l2'[r] = l2[r]
    BY <1>2 DEF Erase, Restrict
  <1>7. Types'
    BY <1>0, <1>2, <1>3, <1>5 DEF Types
  <1>8. Threads'
    BY <1>0, <1>1, <1>2, <1>4 DEF Threads, Removal
  <1>9. /\ \A r : Tunnels(r)' = Tunnels(r) /\ ~Leaves(r)' /\ ~Removing(r)'
        /\ \A r : (Leaves(r) <=> r = n) /\ (Removing(r) <=> r = n)
    BY <1>n, <1>1, <1>2, <1>4 DEF Tunnels, Leaves, Removing
  <1>10. n \notin DOMAIN mac /\ Tunnels(n) = {}
    BY <1>0, <1>n, <1>1 DEF Layers
  <1>11. Layers'
    <2>1. DOMAIN l2' = DOMAIN users' /\ sched' \subseteq DOMAIN mac'
      BY <1>0, <1>2, <1>6 DEF Layers
    <2>2. \A r \in DOMAIN users' : ~Removing(r)' => r \in sched'
      BY <1>0, <1>2, <1>6, <1>9 DEF Layers
    <2>3. \A r \in DOMAIN mac' : r \in DOMAIN users' \/ pc'.prach.r = r
      BY <1>0, <1>2, <1>4, <1>6, <1>10 DEF Layers
    <2>4. pc'.prach # Idle => pc'.prach.r \in sched' \ DOMAIN users'
      BY <1>0, <1>2, <1>4, <1>6 DEF Layers
    <2>5. pc'.rrc.at \notin Removal
      BY <1>4 DEF Removal
    <2>6. \A r \in Rnti : Tunnels(r)' # {} => r \in DOMAIN users'
      BY <1>0, <1>6, <1>9, <1>10 DEF Layers
    <2>7. QED
      BY <2>1, <2>2, <2>3, <2>4, <2>5, <2>6 DEF Layers, Removal
  <1>12. Unseen'
    BY <1>0, <1>2, <1>4, <1>6 DEF Unseen, Fresh
  <1>13. ASSUME NEW r \in DOMAIN users'
         PROVE  Kept(r)
    <2>1. r \in DOMAIN users /\ r # n /\ r \in DOMAIN l2
      BY <1>0, <1>6 DEF Layers
    <2>2. OnItsWayOut(r) => OnItsWayOut(r)'
      BY <1>n, <1>2, <2>1, WaysOut DEF WayOut
    <2>3. SameOrLess(r)
      BY <1>2, <1>6, <2>1 DEF SameOrLess
    <2>4. QED
      BY <1>2, <1>9, <2>1, <2>2, <2>3, KeptBy
  <1>14. Bearers' /\ Contexts'
    BY <1>0, <1>13, KeptInv
  <1>15. QED
    BY <1>7, <1>8, <1>11, <1>12, <1>14 DEF UserInv

-----------------------------------------------------------------------------
(* The invariant of the specification.                                     *)

LEMMA InitInv ==
  ASSUME Init
  PROVE  UserInv
  <1>1. /\ users = << >> /\ queue = << >> /\ mutex = "free"
        /\ mac = << >> /\ sched = {} /\ l2 = << >> /\ gtpu = << >>
        /\ ctxt = << >> /\ enbId = << >> /\ nextEnb = 1 /\ s1 = "down"
        /\ mme = [e \in EnbIds |-> "none"] /\ air = [r \in Rnti |-> {}]
        /\ pc = [rrc |-> Idle, mon |-> Idle, s1ap |-> Idle, pdu |-> Idle, prach |-> Idle]
        /\ used = [rnti |-> 0, msg3 |-> {}, events |-> 0]
    BY DEF Init
  <1>2. MaxRnti \in Nat \ {0} /\ MaxEvents \in Nat
    BY BoundsAssumption DEF BoundsAssumption
  <1>3. \A V : << >> \in Map(V) /\ DOMAIN << >> = {}
    BY DEF Map
  <1>4. << >> \in Seq(Entry) /\ Queued(<< >>) = {}
    BY Queues
  <1>5. Types
    <2>1. pc \in Places
      BY <1>1 DEF Places, Doing, Updating
    <2>2. used \in [rnti : 0 .. MaxRnti, msg3 : SUBSET Rnti, events : 0 .. MaxEvents]
      BY <1>1, <1>2
    <2>3. nextEnb \in 1 .. MaxRnti + 1
      BY <1>1, <1>2
    <2>4. /\ mme \in [EnbIds -> {"none", "known", "setup", "active", "erab"}]
          /\ air \in [Rnti -> SUBSET {"setup", "smc", "reconf"}]
      BY <1>1
    <2>5. QED
      BY <1>1, <1>3, <1>4, <2>1, <2>2, <2>3, <2>4 DEF Types
  <1>6. pc.rrc = Idle /\ pc.mon = Idle /\ pc.prach = Idle /\ Idle.at = "idle" /\ Idle.r = 0
    BY <1>1 DEF Idle
  <1>7. Threads
    BY <1>1, <1>6 DEF Threads, Removal
  <1>8. Layers
    BY <1>1, <1>3, <1>6 DEF Layers, Removal, Tunnels
  <1>9. Unseen
    BY <1>1, <1>3, <1>4, <1>6 DEF Unseen
  <1>10. Bearers /\ Contexts
    BY <1>1, <1>3 DEF Bearers, Contexts
  <1>11. QED
    BY <1>5, <1>7, <1>8, <1>9, <1>10 DEF UserInv

LEMMA StutterInv ==
  ASSUME UserInv, UNCHANGED vars
  PROVE  UserInv'
  <1>1. UNCHANGED <<users, queue, mutex, mac, sched, l2, gtpu, ctxt, enbId, nextEnb, mme, s1, air, pc, used>>
    BY DEF vars
  <1>2. Types
    BY DEF UserInv
  <1>3. /\ ctxt \in Map(Ctxt) /\ enbId \in Map(Rnti)
        /\ mme \in [EnbIds -> {"none", "known", "setup", "active", "erab"}]
        /\ s1 \in {"down", "asked", "up", "ended"}
        /\ used \in [rnti : 0 .. MaxRnti, msg3 : SUBSET Rnti, events : 0 .. MaxEvents]
    BY <1>2 DEF Types
  <1>4. QED
    BY <1>1, <1>3, S1Inv

LEMMA NextInv ==
  ASSUME UserInv, [Next]_vars
  PROVE  UserInv'
  <1>1. CASE RachDetected \/ AddUser \/ UpdUser
    BY <1>1, RachDetectedInv, AddUserInv, UpdUserInv
  <1>2. ASSUME NEW r \in Rnti, Ue(r) \/ MonitorCheck(r)
        PROVE  UserInv'
    BY <1>2, UeInv, AnswerInv, UlDataInv, MonitorCheckInv DEF Ue
  <1>3. CASE RrcThread
    BY <1>3, DroppedInv, ConReqInv, ReestReqInv, SetupCompleteInv, SecurityModeCompleteInv,
       ReconfCompleteInv, UlNasTransportInv, ProcessRlFailureInv, RlFailureReleaseInv,
       ProcessReleaseCompleteInv, ReleaseSleptInv, RemUserInv, RemMacGtpuInv, RemRlcPdcpInv
       DEF RrcThread
  <1>4. ASSUME NEW e \in EnbIds, Mme(e)
        PROVE  UserInv'
    BY <1>4, S1LinkInv, InitialCtxtSetupRequestInv, ErabSetupRequestInv, ReleaseCommandInv DEF Mme
  <1>5. CASE MonitorRelease \/ ReleaseCommandComplete \/ MmeDown \/ SetupS1 \/ S1SetupResponse
    BY <1>5, MonitorReleaseInv, ReleaseCommandCompleteInv, S1LinkInv
  <1>6. CASE UNCHANGED vars
    BY <1>6, StutterInv
  <1>7. QED
    BY <1>1, <1>2, <1>3, <1>4, <1>5, <1>6 DEF Next

LEMMA UserInvariant == Spec => []UserInv
  <1>1. Init => UserInv
    BY InitInv
  <1>2. UserInv /\ [Next]_vars => UserInv'
    BY NextInv
  <1>3. QED
    BY <1>1, <1>2, PTL DEF Spec

\* What the layers keep has its types: MAC and S1AP map to RNTIs that were given out, and
\* nextEnb never runs past the identifiers there are.
THEOREM UserTypeCorrect == Spec => []TypeOK
  <1>1. Types => TypeOK
    <2>1. SUFFICES ASSUME Types PROVE TypeOK
      OBVIOUS
    <2>2. /\ DOMAIN users \subseteq Rnti /\ DOMAIN l2 \subseteq Rnti /\ DOMAIN mac \subseteq Rnti
          /\ DOMAIN gtpu \subseteq Rnti /\ DOMAIN ctxt \subseteq Rnti /\ DOMAIN enbId \subseteq EnbIds
          /\ \A r \in DOMAIN users : users[r] \in User
          /\ \A r \in DOMAIN l2 : l2[r] \subseteq 0 .. Drb2
          /\ \A r \in DOMAIN mac : mac[r] \in Rnti
          /\ \A r \in DOMAIN gtpu : gtpu[r] \subseteq {Drb1, Drb2}
          /\ \A r \in DOMAIN ctxt : ctxt[r] \in Ctxt
          /\ \A e \in DOMAIN enbId : enbId[e] \in Rnti
          /\ queue \in Seq(Entry)
      BY <2>1, TypeFacts DEF Drbs, EnbIds, Rnti
    <2>3. \A r \in DOMAIN users : /\ users[r].state \in States /\ users[r].rlf \in Nat
                                  /\ users[r].erabs \subseteq {Drb1, Drb2} /\ users[r].cfgOk \in BOOLEAN
      BY <2>2 DEF User, Drbs
    <2>4. \A r \in DOMAIN ctxt : /\ ctxt[r].enb \in {0} \cup EnbIds /\ ctxt[r].mme \in {0} \cup EnbIds
                                 /\ ctxt[r].rel \in BOOLEAN
      BY <2>2 DEF Ctxt
    <2>5. \A i \in DOMAIN queue : queue[i].rnti \in Rnti
      <3>1. \A i \in 1 .. Len(queue) : queue[i] \in Entry
        BY <2>2, ElementOfSeq
      <3>2. DOMAIN queue = 1 .. Len(queue)
        BY <2>2, LenProperties
      <3>3. QED
        BY <3>1, <3>2 DEF Entry
    <2>6. QED
      BY <2>1, <2>2, <2>3, <2>4, <2>5 DEF TypeOK, Types
  <1>2. UserInv => Types
    BY DEF UserInv
  <1>3. QED
    BY <1>1, <1>2, UserInvariant, PTL

\* rem_user (rrc.cc:599), rach_detected (mac.cc:480) and add_user (rrc.cc:165): whatever
\* crosses a creation or a removal, RRC, RLC, PDCP, MAC, the scheduler and GTP-U have the
\* same users but for the one that a thread is adding or removing at that moment.
THEOREM LayersAlwaysAgree == Spec => []LayersAgree
  <1>1. UserInv => LayersAgree
    <2>1. SUFFICES ASSUME UserInv PROVE LayersAgree
      OBVIOUS
    <2>2. Types /\ Layers
      BY <2>1 DEF UserInv
    <2>3. ASSUME NEW r \in DOMAIN mac \cup DOMAIN users, ~Removing(r)
          PROVE  r \in DOMAIN mac /\ r \in sched /\ (r \in DOMAIN users \/ pc.prach.r = r)
      <3>1. r # 0
        BY <2>2, TypeFacts DEF Rnti
      <3>2. QED
        BY <2>2, <2>3, <3>1 DEF Layers, Idle
    <2>4. \A r \in DOMAIN gtpu : gtpu[r] # {} => r \in DOMAIN users
      BY <2>2, TypeFacts DEF Layers, Tunnels
    <2>5. QED
      BY <2>2, <2>3, <2>4 DEF LayersAgree, Layers
  <1>2. QED
    BY <1>1, UserInvariant, PTL

\* rrc.cc:1021: a user reported as connected has a data bearer in RLC, PDCP and GTP-U, no
\* bearer without its tunnel, and a PHY configuration in use.
THEOREM RegisteredAlwaysComplete == Spec => []RegisteredIsComplete
  <1>1. UserInv => RegisteredIsComplete
    <2>1. SUFFICES ASSUME UserInv, NEW r \in DOMAIN users,
                          users[r].state = "REGISTERED", ~Removing(r)
                   PROVE  /\ users[r].cfgOk
                          /\ l2[r] \cap {Drb1, Drb2} # {} /\ l2[r] \cap {Drb1, Drb2} \subseteq Tunnels(r)
      BY DEF RegisteredIsComplete
    <2>2. ~Leaves(r) /\ Bears(r)
      BY <2>1 DEF Leaves, Removing, Bears
    <2>3. QED
      BY <2>1, <2>2 DEF UserInv, Bearers, Drbs
  <1>2. QED
    BY <1>1, UserInvariant, PTL

\* user_release (s1ap.cc:223) and the release command (s1ap.cc:600) erase the context of a
\* user only with its removal queued in RRC or under way, and a late message of the UE
\* (an answer, NAS, data) never brings the user back.
THEOREM NeverConnectedOrphan == Spec => []NoConnectedOrphan
  <1>1. UserInv => NoConnectedOrphan
    BY DEF UserInv, Contexts, Known, NoConnectedOrphan
  <1>2. QED
    BY <1>1, UserInvariant, PTL
=============================================================================
