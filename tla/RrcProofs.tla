------------------------------ MODULE RrcProofs ------------------------------
(***************************************************************************)
(* Proofs about what RRC decides and the scheduler carries out: system     *)
(* information and MBMS (DlBroadcast), then PUCCH resources (PucchAlloc).  *)
(*                                                                         *)
(* The workers in use are in a line, their subframes consecutive up to the *)
(* next one.  System information: an open window has had one transmission  *)
(* for each of its subframes 9 so far, as long as one worker is alone with *)
(* the variables in which the scheduler keeps the subframe.  MBMS, for any *)
(* number of workers: the MAC's number of the MCH subframe is the one      *)
(* since the MCCH, but for the few workers that overtake each other there. *)
(***************************************************************************)
EXTENDS DlBroadcast, PucchAlloc, ModArith, SequenceTheorems, FiniteSetTheorems, TLAPS

Busy == [t : 0 .. Period - 1, pc : Points, ues : SUBSET UeIds, pcch : BOOLEAN]

Types ==
    /\ tti \in 0 .. Period - 1 /\ inflight \in Seq(Busy)
    /\ pending \subseteq UeIds /\ bitBuf \subseteq UeIds /\ payload \subseteq UeIds
    /\ now \in [tti : 0 .. Period - 1, sf : 0 .. 9, rbg : Int, dci : Int]
    /\ sibs \in [Sibs -> [on : BOOLEAN, start : 0 .. Period - 1, n : 0 .. 4]]

\* The subframes of the workers are the last ones before the next, in their order.
InLine(t, fl) ==
    /\ Len(fl) <= NofWorkers
    /\ \A i \in DOMAIN fl : (fl[i].t + (Len(fl) + 1 - i)) % Period = t

-----------------------------------------------------------------------------
(* TTIs.                                                                   *)

LEMMA Frames == NofWorkers \in 1 .. 4 /\ NofFrames \in Nat \ {0} /\ Period = 10 * NofFrames
                /\ Period \in Nat /\ Period >= 10
  BY CellOK DEF Period

LEMMA Wrap ==
  ASSUME NEW x \in 0 .. Period - 1, NEW d \in 0 .. Period
  PROVE  (x + d) % Period = IF x + d < Period THEN x + d ELSE x + d - Period
  <1>1. Period \in Nat \ {0}
    BY Frames
  <1>2. CASE x + d < Period
    <2>1. x + d \in 0 .. Period - 1 /\ x + d = Period * 0 + (x + d)
      BY <1>1, <1>2
    <2>2. (Period * 0 + (x + d)) % Period = x + d
      BY <1>1, <2>1, Remainder
    <2> QED
      BY <1>2, <2>1, <2>2
  <1>3. CASE ~(x + d < Period)
    <2>1. x + d - Period \in 0 .. Period - 1 /\ x + d = Period * 1 + (x + d - Period)
      BY <1>1, <1>3
    <2>2. (Period * 1 + (x + d - Period)) % Period = x + d - Period
      BY <1>1, <2>1, Remainder
    <2> QED
      BY <1>3, <2>1, <2>2
  <1> QED
    BY <1>2, <1>3

LEMMA IntervalIs ==
  ASSUME NEW x \in 0 .. Period - 1, NEW y \in 0 .. Period - 1
  PROVE  Interval(x, y) = IF x >= y THEN x - y ELSE x - y + Period
  <1>1. Period \in Nat \ {0}
    BY Frames
  <1>2. CASE x >= y
    BY <1>1, <1>2, Z3 DEF Interval
  <1>3. CASE x < y
    BY <1>1, <1>3, Z3 DEF Interval
  <1> QED
    BY <1>2, <1>3

LEMMA SfType == \A t \in 0 .. Period - 1 : Sf(t) \in 0 .. 9
  BY Frames DEF Sf

LEMMA UlTtiIs ==
  ASSUME NEW x \in 0 .. Period - 1
  PROVE  /\ UlTti(x) = IF x + 4 < Period THEN x + 4 ELSE x + 4 - Period
         /\ UlTti(x) \in 0 .. Period - 1
  <1>1. 4 \in 0 .. Period
    BY Frames
  <1>2. (x + 4) % Period = IF x + 4 < Period THEN x + 4 ELSE x + 4 - Period
    BY <1>1, Wrap
  <1>3. UlTti(x) = IF x + 4 < Period THEN x + 4 ELSE x + 4 - Period
    BY <1>2 DEF UlTti, HarqDelay
  <1> QED
    BY <1>3, Frames

-----------------------------------------------------------------------------
(* The workers.                                                            *)

LEMMA Places ==
  ASSUME NEW t \in 0 .. Period - 1, NEW fl \in Seq(Busy), InLine(t, fl), NEW i \in DOMAIN fl
  PROVE  /\ fl[i] \in Busy /\ fl[i].t \in 0 .. Period - 1
         /\ i \in 1 .. Len(fl) /\ Len(fl) \in 1 .. NofWorkers
         /\ Len(fl) + 1 - i \in 1 .. NofWorkers
         /\ LET b == Len(fl) + 1 - i
            IN t = IF fl[i].t + b < Period THEN fl[i].t + b ELSE fl[i].t + b - Period
  <1>1. /\ fl[i] \in Busy /\ i \in 1 .. Len(fl) /\ Len(fl) \in Nat
    OBVIOUS
  <1>2. fl[i].t \in 0 .. Period - 1
    BY <1>1 DEF Busy
  <1>3. /\ Len(fl) \in 1 .. NofWorkers
        /\ Len(fl) + 1 - i \in 1 .. NofWorkers
    BY <1>1, Frames DEF InLine
  <1>4. (fl[i].t + (Len(fl) + 1 - i)) % Period = t
    BY DEF InLine
  <1>5. Len(fl) + 1 - i \in 0 .. Period
    <2> DEFINE b == Len(fl) + 1 - i
    <2>1. b \in 1 .. NofWorkers
      BY <1>3
    <2> HIDE DEF b
    <2>2. b \in 0 .. Period
      BY <2>1, Frames
    <2> QED
      BY <2>2 DEF b
  <1>6. (fl[i].t + (Len(fl) + 1 - i)) % Period
          = IF fl[i].t + (Len(fl) + 1 - i) < Period THEN fl[i].t + (Len(fl) + 1 - i)
            ELSE fl[i].t + (Len(fl) + 1 - i) - Period
    BY <1>2, <1>5, Wrap
  <1> QED
    BY <1>1, <1>2, <1>3, <1>4, <1>6

\* Workers d places further to the front, with the subframes they had.
Moved(fl, gl, d) ==
    /\ d \in 0 .. Len(fl) /\ Len(gl) = Len(fl) - d
    /\ \A j \in 1 .. Len(gl) : gl[j].t = fl[j + d].t

LEMMA MovedLine ==
  ASSUME NEW t, NEW fl \in Seq(Busy), NEW gl \in Seq(Busy), NEW d,
         InLine(t, fl), Moved(fl, gl, d)
  PROVE  InLine(t, gl)
  <1>1. /\ Len(fl) \in Nat /\ Len(gl) \in Nat /\ d \in Nat /\ Len(gl) = Len(fl) - d
        /\ DOMAIN fl = 1 .. Len(fl) /\ DOMAIN gl = 1 .. Len(gl)
    BY DEF Moved
  <1>2. Len(gl) <= NofWorkers
    BY <1>1, Frames DEF InLine
  <1>3. ASSUME NEW j \in DOMAIN gl PROVE (gl[j].t + (Len(gl) + 1 - j)) % Period = t
    <2>1. j + d \in DOMAIN fl /\ Len(fl) + 1 - (j + d) = Len(gl) + 1 - j
      BY <1>1
    <2>2. gl[j].t = fl[j + d].t
      BY <1>1 DEF Moved
    <2>3. (fl[j + d].t + (Len(fl) + 1 - (j + d))) % Period = t
      BY <2>1 DEF InLine
    <2> QED
      BY <2>1, <2>2, <2>3
  <1> QED
    BY <1>2, <1>3 DEF InLine

New(t) == [t |-> t, pc |-> "sched", ues |-> {}, pcch |-> FALSE]

LEMMA NewLine ==
  ASSUME NEW t \in 0 .. Period - 1, NEW fl \in Seq(Busy), InLine(t, fl), Len(fl) < NofWorkers
  PROVE  LET gl == Append(fl, New(t))
         IN /\ gl \in Seq(Busy) /\ Len(gl) = Len(fl) + 1
            /\ \A i \in 1 .. Len(fl) : gl[i] = fl[i]
            /\ gl[Len(fl) + 1] = New(t)
            /\ (t + 1) % Period \in 0 .. Period - 1
            /\ InLine((t + 1) % Period, gl)
  <1> DEFINE gl == Append(fl, New(t))
             u == (t + 1) % Period
  <1>1. New(t) \in Busy
    BY DEF New, Busy, Points
  <1>2. /\ gl \in Seq(Busy) /\ Len(gl) = Len(fl) + 1
        /\ \A i \in 1 .. Len(fl) : gl[i] = fl[i]
        /\ gl[Len(fl) + 1] = New(t)
    BY <1>1, AppendProperties
  <1> HIDE DEF gl
  <1>3. u = IF t + 1 < Period THEN t + 1 ELSE t + 1 - Period
    BY Wrap, Frames
  <1>4. u \in 0 .. Period - 1
    BY <1>3, Frames
  <1> HIDE DEF u
  <1>5. ASSUME NEW i \in DOMAIN gl PROVE (gl[i].t + (Len(gl) + 1 - i)) % Period = u
    <2>1. i \in 1 .. Len(fl) + 1 /\ Len(fl) \in Nat
      BY <1>2
    <2>2. CASE i = Len(fl) + 1
      <3>1. gl[i].t = t /\ Len(gl) + 1 - i = 1
        BY <1>2, <2>1, <2>2 DEF New
      <3> QED
        BY <3>1 DEF u
    <2>3. CASE i \in 1 .. Len(fl)
      <3> DEFINE x == fl[i].t
                 b == Len(fl) + 1 - i
      <3>1. /\ x \in 0 .. Period - 1 /\ b \in 1 .. 4
            /\ t = IF x + b < Period THEN x + b ELSE x + b - Period
        <4>1. i \in DOMAIN fl
          BY <2>3
        <4>2. /\ x \in 0 .. Period - 1 /\ b \in 1 .. NofWorkers
              /\ t = IF x + b < Period THEN x + b ELSE x + b - Period
          BY <4>1, Places
        <4> HIDE DEF x, b
        <4> QED
          BY <4>2, Frames
      <3>2. gl[i].t = x /\ Len(gl) + 1 - i = b + 1
        BY <1>2, <2>1, <2>3
      <3> HIDE DEF x, b
      <3>3. (x + (b + 1)) % Period
              = IF x + (b + 1) < Period THEN x + (b + 1) ELSE x + (b + 1) - Period
        <4>1. b + 1 \in 0 .. Period
          BY <3>1, Frames
        <4> QED
          BY <3>1, <4>1, Wrap
      <3>4. (x + (b + 1)) % Period = u
        BY <1>3, <3>1, <3>3, Frames
      <3> QED
        BY <3>2, <3>4
    <2> QED
      BY <2>1, <2>2, <2>3
  <1>6. Len(gl) <= NofWorkers
    BY <1>2, Frames
  <1> QED
    BY <1>2, <1>4, <1>5, <1>6 DEF InLine, gl, u

\* One worker goes on.
LEMMA OneGoesOn ==
  ASSUME NEW fl \in Seq(Busy), NEW i \in DOMAIN fl, NEW r \in Busy, r.t = fl[i].t
  PROVE  LET gl == [fl EXCEPT ![i] = r]
         IN /\ gl \in Seq(Busy) /\ Len(gl) = Len(fl) /\ DOMAIN gl = DOMAIN fl
            /\ gl[i] = r /\ \A j \in DOMAIN fl : j # i => gl[j] = fl[j]
            /\ Moved(fl, gl, 0)
  <1> DEFINE gl == [fl EXCEPT ![i] = r]
  <1>1. gl \in Seq(Busy) /\ Len(gl) = Len(fl) /\ DOMAIN gl = DOMAIN fl
    BY ExceptSeq
  <1>2. gl[i] = r /\ \A j \in DOMAIN fl : j # i => gl[j] = fl[j]
    OBVIOUS
  <1> HIDE DEF gl
  <1>3. \A j \in 1 .. Len(gl) : gl[j].t = fl[j + 0].t
    BY <1>1, <1>2
  <1>4. Moved(fl, gl, 0)
    BY <1>1, <1>3 DEF Moved
  <1> QED
    BY <1>1, <1>2, <1>4 DEF gl

\* worker_end: what is left of the workers, in front of the first one still running.
Rest(fs) == LET run == {k \in DOMAIN fs : fs[k].pc # "end"}
            IN IF run = {} THEN << >> ELSE SubSeq(fs, Min(run), Len(fs))

LEMMA RestMoves ==
  ASSUME NEW fs \in Seq(Busy)
  PROVE  /\ Rest(fs) \in Seq(Busy)
         /\ \E d \in Nat : /\ Moved(fs, Rest(fs), d)
                           /\ \A j \in DOMAIN Rest(fs) : Rest(fs)[j] = fs[j + d] /\ j + d \in DOMAIN fs
                           /\ \A j \in 1 .. d : fs[j].pc = "end"
  <1> DEFINE run == {k \in DOMAIN fs : fs[k].pc # "end"}
  <1>0. Len(fs) \in Nat /\ DOMAIN fs = 1 .. Len(fs) /\ \A k \in 1 .. Len(fs) : fs[k] \in Busy
    OBVIOUS
  <1>1. CASE run = {}
    <2>1. Rest(fs) = << >>
      BY <1>1 DEF Rest
    <2>2. Moved(fs, << >>, Len(fs))
      BY <1>0 DEF Moved
    <2>3. \A j \in 1 .. Len(fs) : fs[j].pc = "end"
      BY <1>0, <1>1
    <2> QED
      BY <1>0, <2>1, <2>2, <2>3
  <1>2. CASE run # {}
    <2>1. run \in SUBSET Nat
      BY <1>0
    <2>2. \E n \in run : \A k \in run : n <= k
      BY <1>2, <2>1, LeastNat
    <2> DEFINE m == Min(run)
    <2>3. m \in run /\ \A k \in run : m <= k
      BY <2>2, Zenon DEF Min
    <2> DEFINE gl == SubSeq(fs, m, Len(fs))
    <2>4. Rest(fs) = gl
      BY <1>2 DEF Rest
    <2> HIDE DEF m
    <2>5. m \in 1 .. Len(fs)
      BY <1>0, <2>3
    <2>6. \A k \in m .. Len(fs) : fs[k] \in Busy
      BY <1>0, <2>5
    <2>7. /\ gl \in Seq(Busy)
          /\ Len(gl) = Len(fs) - m + 1
          /\ \A k \in 1 .. Len(fs) - m + 1 : gl[k] = fs[m + k - 1]
      <3>1. m \in Int /\ Len(fs) \in Int /\ m <= Len(fs)
        BY <1>0, <2>5
      <3> QED
        BY <2>6, <3>1, SubSeqProperties
    <2> HIDE DEF gl
    <2>8. \A j \in DOMAIN gl : gl[j] = fs[j + (m - 1)] /\ j + (m - 1) \in DOMAIN fs
      <3> SUFFICES ASSUME NEW j \in DOMAIN gl
                   PROVE  gl[j] = fs[j + (m - 1)] /\ j + (m - 1) \in DOMAIN fs
        OBVIOUS
      <3>1. j \in 1 .. Len(fs) - m + 1
        BY <2>7
      <3>2. gl[j] = fs[m + j - 1]
        BY <2>7, <3>1
      <3>3. m + j - 1 = j + (m - 1) /\ j + (m - 1) \in 1 .. Len(fs)
        BY <1>0, <2>5, <3>1
      <3> QED
        BY <1>0, <3>2, <3>3
    <2>9. Moved(fs, gl, m - 1)
      <3>1. m - 1 \in 0 .. Len(fs) /\ Len(gl) = Len(fs) - (m - 1)
        BY <1>0, <2>5, <2>7
      <3>2. DOMAIN gl = 1 .. Len(gl)
        BY <2>7
      <3> QED
        BY <2>8, <3>1, <3>2 DEF Moved
    <2>10. \A j \in 1 .. m - 1 : fs[j].pc = "end"
      <3> SUFFICES ASSUME NEW j \in 1 .. m - 1, fs[j].pc # "end" PROVE FALSE
        OBVIOUS
      <3>1. j \in run /\ j < m
        BY <1>0, <2>5
      <3> QED
        BY <2>3, <2>5, <3>1
    <2>11. m - 1 \in Nat
      BY <2>5
    <2> QED
      BY <2>4, <2>7, <2>8, <2>9, <2>10, <2>11
  <1> QED
    BY <1>1, <1>2

-----------------------------------------------------------------------------
(* What the steps do.                                                      *)

Sib == [on : BOOLEAN, start : 0 .. Period - 1, n : 0 .. 4]

LEMMA WindowTypes ==
  ASSUME Types, NEW k \in Sibs
  PROVE  Window(k) \in Sib
  <1> DEFINE s == sibs[k]
             t == now.tti
  <1>1. s \in Sib /\ t \in 0 .. Period - 1
    BY DEF Types, Sib
  <1>2. \A x \in Sib : [x EXCEPT !.on = FALSE, !.start = 0] \in Sib
    <2>1. 0 \in 0 .. Period - 1
      BY Frames
    <2> QED
      BY <2>1 DEF Sib
  <1>3. \A x \in Sib : [x EXCEPT !.n = 0] \in Sib
    BY DEF Sib
  <1>4. [on |-> TRUE, start |-> t, n |-> 0] \in Sib
    BY <1>1 DEF Sib
  <1> HIDE DEF s
  <1>5. Window(k) \in {s, [on |-> TRUE, start |-> t, n |-> 0],
                       [s EXCEPT !.on = FALSE, !.start = 0], [s EXCEPT !.n = 0]}
    BY DEF Window, s
  <1> QED
    BY <1>1, <1>2, <1>3, <1>4, <1>5

LEMMA SentTypes ==
  ASSUME Types, NEW k \in Sibs
  PROVE  (IF k \in Sent THEN [sibs[k] EXCEPT !.n = @ + 1] ELSE sibs[k]) \in Sib
  <1>1. sibs[k] \in Sib
    BY DEF Types, Sib
  <1>2. k \in Sent => sibs[k].n < 4
    BY DEF Sent, SiDue
  <1>3. sibs[k].n < 4 => [sibs[k] EXCEPT !.n = @ + 1] \in Sib
    BY <1>1 DEF Sib
  <1> QED
    BY <1>1, <1>2, <1>3

\* Worker i takes its record to r and the workers stay as they are otherwise.
Goes(i, r) ==
    /\ i \in DOMAIN inflight /\ r \in Busy /\ r.t = inflight[i].t
    /\ inflight' = [inflight EXCEPT ![i] = r]
    /\ tti' = tti

\* Worker i goes from point a to point b.
GoesTo(i, a, b) == \E r \in Busy : Goes(i, r) /\ inflight[i].pc = a /\ r.pc = b

LEMMA GotoIs ==
  ASSUME Types, NEW i, NEW a, NEW b \in Points, At(i, a), Goto(i, b), tti' = tti
  PROVE  GoesTo(i, a, b)
  <1> DEFINE r == [inflight[i] EXCEPT !.pc = b]
  <1>1. i \in DOMAIN inflight /\ inflight[i].pc = a /\ inflight[i] \in Busy
    BY DEF At, Types
  <1>2. r \in Busy /\ r.t = inflight[i].t /\ r.pc = b
    BY <1>1 DEF Busy
  <1>3. inflight' = [inflight EXCEPT ![i] = r]
    BY DEF Goto
  <1> QED
    BY <1>1, <1>2, <1>3 DEF Goes, GoesTo

LEMMA PagingIs ==
  ASSUME Types, NEW i, Paging(i)
  PROVE  GoesTo(i, "page", "read") /\ bitBuf' \subseteq UeIds
  <1> DEFINE ues  == Assembled(now.tti)
             pcch == ues # {} /\ Room(0)
             r    == [inflight[i] EXCEPT !.pc = "read", !.ues = ues, !.pcch = pcch]
  <1>1. i \in DOMAIN inflight /\ inflight[i].pc = "page" /\ inflight[i] \in Busy
    BY DEF Paging, At, Types
  <1>2. ues \subseteq UeIds
    BY DEF Assembled, Types
  <1>3. inflight' = [inflight EXCEPT ![i] = r] /\ tti' = tti
        /\ bitBuf' = IF ues = {} THEN bitBuf ELSE ues
    BY <1>1 DEF Paging
  <1>4. pcch \in BOOLEAN /\ "read" \in Points
    BY DEF Points
  <1> HIDE DEF ues, pcch
  <1>5. r \in Busy /\ r.t = inflight[i].t /\ r.pc = "read"
    BY <1>1, <1>2, <1>4 DEF Busy
  <1>6. bitBuf' \subseteq UeIds
    BY <1>2, <1>3 DEF Types
  <1> QED
    BY <1>1, <1>3, <1>5, <1>6 DEF Goes, GoesTo

\* The steps of a worker in which nothing of MBMS happens.
Passes(i) ==
    \/ EnterDl(i) \/ SiWindows(i) \/ SiMessages(i) \/ Paging(i) \/ GetDlSched(i)
    \/ EnterUl(i) \/ UlSched(i)

LEMMA PassesIs ==
  ASSUME Types, NEW i, Passes(i)
  PROVE  /\ \E a \in Points \ {"encode", "end"}, b \in Points \ {"sched", "end"} :
              GoesTo(i, a, b) /\ (a = "sched" => ~IsMch(inflight[i].t))
         /\ UNCHANGED mbms
  <1>0. UNCHANGED mbms
    BY DEF Passes, EnterDl, SiWindows, SiMessages, Paging, GetDlSched, EnterUl, UlSched
  <1> USE DEF Points
  <1>1. CASE EnterDl(i)
    <2>1. GoesTo(i, "sched", "si") /\ ~IsMch(inflight[i].t)
      BY <1>1, GotoIs DEF EnterDl
    <2> QED
      BY <1>0, <2>1
  <1>2. CASE SiWindows(i)
    <2>1. GoesTo(i, "si", "tx")
      BY <1>2, GotoIs DEF SiWindows
    <2> QED
      BY <1>0, <2>1
  <1>3. CASE SiMessages(i)
    <2>1. GoesTo(i, "tx", "page")
      BY <1>3, GotoIs DEF SiMessages
    <2> QED
      BY <1>0, <2>1
  <1>4. CASE Paging(i)
    BY <1>0, <1>4, PagingIs
  <1>5. CASE GetDlSched(i)
    <2>1. GoesTo(i, "read", "ul")
      BY <1>5, GotoIs DEF GetDlSched
    <2> QED
      BY <1>0, <2>1
  <1>6. CASE EnterUl(i)
    <2>1. GoesTo(i, "ul", "grant")
      BY <1>6, GotoIs DEF EnterUl
    <2> QED
      BY <1>0, <2>1
  <1>7. CASE UlSched(i)
    <2>1. GoesTo(i, "grant", "encode")
      BY <1>7, GotoIs DEF UlSched
    <2> QED
      BY <1>0, <2>1
  <1> QED
    BY <1>1, <1>2, <1>3, <1>4, <1>5, <1>6, <1>7 DEF Passes

LEMMA MchIs ==
  ASSUME Types, NEW i, GetMcch(i) \/ GetMch(i)
  PROVE  /\ GoesTo(i, "sched", "ul") /\ IsMch(inflight[i].t)
         /\ UNCHANGED <<paging, now, sibs>>
  <1>1. /\ At(i, "sched") /\ Goto(i, "ul") /\ tti' = tti /\ IsMch(inflight[i].t)
        /\ UNCHANGED <<paging, now, sibs>>
    BY DEF GetMcch, GetMch, Scheduled, IsMch
  <1>2. "ul" \in Points
    BY DEF Points
  <1> QED
    BY <1>1, <1>2, GotoIs

LEMMA EncodeIs ==
  ASSUME Types, NEW i, Encode(i)
  PROVE  /\ i \in DOMAIN inflight /\ inflight[i].pc = "encode"
         /\ [inflight[i] EXCEPT !.pc = "end"] \in Busy
         /\ inflight' = Rest([inflight EXCEPT ![i] = [inflight[i] EXCEPT !.pc = "end"]])
         /\ tti' = tti /\ UNCHANGED <<paging, now, sibs>>
  <1>1. i \in DOMAIN inflight /\ inflight[i].pc = "encode" /\ inflight[i] \in Busy
    BY DEF Encode, At, Types
  <1>2. [inflight EXCEPT ![i].pc = "end"] = [inflight EXCEPT ![i] = [inflight[i] EXCEPT !.pc = "end"]]
    OBVIOUS
  <1>3. [inflight[i] EXCEPT !.pc = "end"] \in Busy
    BY <1>1 DEF Busy, Points
  <1> QED
    BY <1>1, <1>2, <1>3 DEF Encode, Rest

Base == Types /\ InLine(tti, inflight)

LEMMA GoesBase ==
  ASSUME Base, NEW i, NEW r, Goes(i, r)
  PROVE  /\ inflight' \in Seq(Busy) /\ tti' = tti /\ InLine(tti', inflight')
         /\ Len(inflight') = Len(inflight) /\ DOMAIN inflight' = DOMAIN inflight
         /\ i \in DOMAIN inflight /\ inflight'[i] = r /\ r.t = inflight[i].t
         /\ \A j \in DOMAIN inflight : j # i => inflight'[j] = inflight[j]
  <1>1. inflight \in Seq(Busy) /\ InLine(tti, inflight)
    BY DEF Base, Types
  <1>2. /\ i \in DOMAIN inflight /\ r \in Busy /\ r.t = inflight[i].t /\ tti' = tti
        /\ inflight' = [inflight EXCEPT ![i] = r]
    BY DEF Goes
  <1>3. /\ inflight' \in Seq(Busy) /\ Len(inflight') = Len(inflight)
        /\ DOMAIN inflight' = DOMAIN inflight
        /\ inflight'[i] = r /\ \A j \in DOMAIN inflight : j # i => inflight'[j] = inflight[j]
        /\ Moved(inflight, inflight', 0)
    BY <1>1, <1>2, OneGoesOn
  <1>4. InLine(tti, inflight')
    BY <1>1, <1>3, MovedLine
  <1> QED
    BY <1>2, <1>3, <1>4

LEMMA GoesToBase ==
  ASSUME Base, NEW i, NEW a, NEW b, GoesTo(i, a, b)
  PROVE  inflight' \in Seq(Busy) /\ tti' = tti /\ InLine(tti', inflight')
  BY GoesBase DEF GoesTo

\* Encode only drops workers: the others keep subframe and place.
LEMMA EncodeBase ==
  ASSUME Base, NEW i \in 1 .. NofWorkers, Encode(i)
  PROVE  /\ inflight' \in Seq(Busy) /\ tti' = tti /\ InLine(tti', inflight')
         /\ \E d \in Nat :
              /\ Moved(inflight, inflight', d)
              /\ \A j \in DOMAIN inflight' :
                   /\ j + d \in DOMAIN inflight
                   /\ inflight'[j].t = inflight[j + d].t
                   /\ \/ inflight'[j].pc = inflight[j + d].pc
                      \/ inflight'[j].pc = "end" /\ inflight[j + d].pc = "encode"
              /\ \A j \in 1 .. d : inflight[j].pc \in {"encode", "end"}
  <1> DEFINE r  == [inflight[i] EXCEPT !.pc = "end"]
             fs == [inflight EXCEPT ![i] = r]
  <1>1. inflight \in Seq(Busy) /\ InLine(tti, inflight)
    BY DEF Base, Types
  <1>2. /\ i \in DOMAIN inflight /\ inflight[i].pc = "encode" /\ r \in Busy
        /\ inflight' = Rest(fs) /\ tti' = tti
    BY EncodeIs DEF Base
  <1>3. inflight[i] \in Busy
    BY <1>1, <1>2
  <1>4. r.t = inflight[i].t /\ r.pc = "end"
    BY <1>3 DEF Busy
  <1> HIDE DEF r
  <1>5. /\ fs \in Seq(Busy) /\ Len(fs) = Len(inflight) /\ DOMAIN fs = DOMAIN inflight
        /\ fs[i] = r /\ \A j \in DOMAIN inflight : j # i => fs[j] = inflight[j]
        /\ Moved(inflight, fs, 0)
    BY <1>1, <1>2, <1>4, OneGoesOn
  <1> HIDE DEF fs
  <1>6. InLine(tti, fs)
    BY <1>1, <1>5, MovedLine
  <1>7. PICK d \in Nat : /\ Moved(fs, Rest(fs), d)
                         /\ \A j \in DOMAIN Rest(fs) : Rest(fs)[j] = fs[j + d] /\ j + d \in DOMAIN fs
                         /\ \A j \in 1 .. d : fs[j].pc = "end"
    BY <1>5, RestMoves
  <1>8. inflight' \in Seq(Busy)
    BY <1>2, <1>5, RestMoves
  <1>9. InLine(tti, inflight')
    BY <1>2, <1>5, <1>6, <1>7, <1>8, MovedLine
  <1>10. ASSUME NEW j \in DOMAIN inflight'
         PROVE  /\ j + d \in DOMAIN inflight
                /\ inflight'[j].t = inflight[j + d].t
                /\ \/ inflight'[j].pc = inflight[j + d].pc
                   \/ inflight'[j].pc = "end" /\ inflight[j + d].pc = "encode"
    <2>1. inflight'[j] = fs[j + d] /\ j + d \in DOMAIN inflight
      BY <1>2, <1>5, <1>7
    <2>2. CASE j + d = i
      BY <1>2, <1>4, <1>5, <2>1, <2>2
    <2>3. CASE j + d # i
      BY <1>5, <2>1, <2>3
    <2> QED
      BY <2>2, <2>3
  <1>11. Moved(inflight, inflight', d)
    <2>0. Len(inflight') \in Nat /\ DOMAIN inflight' = 1 .. Len(inflight')
      BY <1>8
    <2>1. d \in 0 .. Len(inflight) /\ Len(inflight') = Len(inflight) - d
      BY <1>2, <1>5, <1>7 DEF Moved
    <2> QED
      BY <1>10, <2>0, <2>1 DEF Moved
  <1>12. \A j \in 1 .. d : inflight[j].pc \in {"encode", "end"}
    <2> SUFFICES ASSUME NEW j \in 1 .. d PROVE inflight[j].pc \in {"encode", "end"}
      OBVIOUS
    <2>1. j \in DOMAIN inflight
      BY <1>1, <1>11 DEF Moved
    <2>2. fs[j].pc = "end"
      BY <1>7
    <2> QED
      BY <1>2, <1>5, <2>1, <2>2
  <1> QED
    BY <1>2, <1>8, <1>9, <1>10, <1>11, <1>12

LEMMA NowTypes ==
  ASSUME Types
  PROVE  /\ \A i \in 1 .. NofWorkers :
              EnterDl(i) \/ EnterUl(i) \/ UlSched(i) \/ SiMessages(i) \/ Paging(i) =>
                now' \in [tti : 0 .. Period - 1, sf : 0 .. 9, rbg : Int, dci : Int]
  <1> DEFINE Now == [tti : 0 .. Period - 1, sf : 0 .. 9, rbg : Int, dci : Int]
  <1> SUFFICES ASSUME NEW i \in 1 .. NofWorkers,
                      EnterDl(i) \/ EnterUl(i) \/ UlSched(i) \/ SiMessages(i) \/ Paging(i)
               PROVE  now' \in Now
    OBVIOUS
  <1>0. now \in Now
    BY DEF Types
  <1>1. ASSUME NEW t, At(i, t) PROVE inflight[i].t \in 0 .. Period - 1
    <2>1. i \in DOMAIN inflight /\ inflight \in Seq(Busy)
      BY <1>1 DEF At, Types
    <2>2. inflight[i] \in Busy
      BY <2>1
    <2> QED
      BY <2>2 DEF Busy
  <1>2. ASSUME NEW t \in 0 .. Period - 1, NEW own, NEW rbg \in Int
        PROVE  Stored(t, own, Sf(inflight[i].t), rbg) \in [tti : 0 .. Period - 1,
                  sf : {Sf(inflight[i].t)}, rbg : Int, dci : Int]
    <2>1. NofDci \in Int /\ now.dci \in Int
      BY <1>0, CellOK
    <2> QED
      BY <1>2, <2>1 DEF Stored
  <1>3. CASE EnterDl(i)
    <2>1. inflight[i].t \in 0 .. Period - 1 /\ NofRbg \in Int
      BY <1>1, <1>3, CellOK DEF EnterDl
    <2>2. Sf(inflight[i].t) \in 0 .. 9
      BY <2>1, SfType
    <2> QED
      BY <1>2, <1>3, <2>1, <2>2 DEF EnterDl
  <1>4. CASE EnterUl(i)
    <2>1. inflight[i].t \in 0 .. Period - 1 /\ now.rbg \in Int
      BY <1>0, <1>1, <1>4 DEF EnterUl
    <2>2. Sf(inflight[i].t) \in 0 .. 9
      BY <2>1, SfType
    <2>3. UlTti(inflight[i].t) \in 0 .. Period - 1
      BY <2>1, UlTtiIs
    <2> QED
      BY <1>2, <1>4, <2>1, <2>2, <2>3 DEF EnterUl
  <1>5. CASE UlSched(i)
    <2>1. \A dci \in 0 .. now.dci : dci \in Int
      OBVIOUS
    <2> QED
      BY <1>0, <1>5, <2>1 DEF UlSched
  <1>6. ASSUME NEW n \in Nat PROVE Used(n) \in Now
    <2>1. SiRbg \in Nat
      BY CellOK
    <2>2. now.rbg - SiRbg * n \in Int /\ now.dci - n \in Int
      BY <1>0, <2>1
    <2> QED
      BY <1>0, <2>2 DEF Used
  <1>7. CASE SiMessages(i)
    <2>1. IsFiniteSet(Sent)
      BY CellOK, FS_Subset DEF Sent
    <2>2. Cardinality(Sent) \in Nat
      BY <2>1, FS_CardinalityType
    <2> QED
      BY <1>6, <1>7, <2>2 DEF SiMessages
  <1>8. CASE Paging(i)
    <2> DEFINE ues == Assembled(now.tti)
               n   == IF ues # {} /\ Room(0) THEN 1 ELSE 0
    <2>1. \E rbg \in 0 .. Used(n).rbg, dci \in 0 .. Used(n).dci :
             now' = [Used(n) EXCEPT !.rbg = rbg, !.dci = dci]
      BY <1>8 DEF Paging
    <2>2. n \in Nat
      OBVIOUS
    <2> HIDE DEF n
    <2> DEFINE left == Used(n)
    <2>3. left \in Now
      BY <1>6, <2>2
    <2>4. PICK rbg \in 0 .. left.rbg, dci \in 0 .. left.dci :
             now' = [left EXCEPT !.rbg = rbg, !.dci = dci]
      BY <2>1, Zenon
    <2>6. rbg \in Int /\ dci \in Int
      OBVIOUS
    <2> HIDE DEF left
    <2>5. [left EXCEPT !.rbg = rbg, !.dci = dci] \in Now
      BY <2>3, <2>6
    <2> QED
      BY <2>4, <2>5
  <1> QED
    BY <1>3, <1>4, <1>5, <1>7, <1>8

LEMMA BaseNext ==
  ASSUME Base, [Next]_vars
  PROVE  Base'
  <1>0. Types /\ InLine(tti, inflight)
    BY DEF Base
  <1>1. CASE Dispatch
    <2>1. /\ Len(inflight) < NofWorkers /\ inflight' = Append(inflight, New(tti))
          /\ tti' = (tti + 1) % Period /\ UNCHANGED <<paging, now, sibs>>
      BY <1>1 DEF Dispatch, New
    <2>2. inflight' \in Seq(Busy) /\ tti' \in 0 .. Period - 1 /\ InLine(tti', inflight')
      BY <1>0, <2>1, NewLine DEF Types
    <2> QED
      BY <1>0, <2>1, <2>2 DEF Base, Types, paging
  <1>2. ASSUME NEW u \in UeIds, AddPagingId(u) PROVE Base'
    BY <1>0, <1>2 DEF AddPagingId, Base, Types
  <1>3. ASSUME NEW i \in 1 .. NofWorkers, Passes(i) PROVE Base'
    <2>1. inflight' \in Seq(Busy) /\ tti' = tti /\ InLine(tti', inflight')
      BY <1>0, <1>3, PassesIs, GoesToBase
    <2>2. now' \in [tti : 0 .. Period - 1, sf : 0 .. 9, rbg : Int, dci : Int]
      <3>1. CASE SiWindows(i) \/ GetDlSched(i)
        BY <1>0, <3>1 DEF SiWindows, GetDlSched, Types
      <3> QED
        BY <1>0, <1>3, <3>1, NowTypes DEF Passes
    <2>3. sibs' \in [Sibs -> Sib]
      <3>1. CASE SiWindows(i)
        BY <1>0, <3>1, WindowTypes DEF SiWindows
      <3>2. CASE SiMessages(i)
        BY <1>0, <3>2, SentTypes DEF SiMessages
      <3>3. CASE ~SiWindows(i) /\ ~SiMessages(i)
        BY <1>0, <1>3, <3>3 DEF Passes, EnterDl, Paging, GetDlSched, EnterUl, UlSched, Types, Sib
      <3> QED
        BY <3>1, <3>2, <3>3
    <2>4. pending' \subseteq UeIds /\ bitBuf' \subseteq UeIds /\ payload' \subseteq UeIds
      <3>1. CASE Paging(i)
        BY <1>0, <3>1, PagingIs DEF Paging, Types
      <3>2. CASE GetDlSched(i)
        BY <1>0, <3>2 DEF GetDlSched, Types
      <3>3. CASE ~Paging(i) /\ ~GetDlSched(i)
        BY <1>0, <1>3, <3>3
           DEF Passes, EnterDl, SiWindows, SiMessages, EnterUl, UlSched, Types, paging
      <3> QED
        BY <3>1, <3>2, <3>3
    <2> QED
      BY <1>0, <2>1, <2>2, <2>3, <2>4 DEF Base, Types, Sib
  <1>5. ASSUME NEW i \in 1 .. NofWorkers, GetMcch(i) \/ GetMch(i) PROVE Base'
    <2>1. UNCHANGED <<paging, now, sibs>>
      BY <1>0, <1>5, MchIs
    <2>2. inflight' \in Seq(Busy) /\ tti' = tti /\ InLine(tti', inflight')
      BY <1>0, <1>5, MchIs, GoesToBase
    <2> QED
      BY <1>0, <2>1, <2>2 DEF Base, Types, paging
  <1>6. ASSUME NEW i \in 1 .. NofWorkers, Encode(i) PROVE Base'
    <2>1. inflight' \in Seq(Busy) /\ tti' = tti /\ InLine(tti', inflight')
      BY <1>6, EncodeBase
    <2>2. UNCHANGED <<paging, now, sibs>>
      BY <1>0, <1>6, EncodeIs
    <2> QED
      BY <1>0, <2>1, <2>2 DEF Base, Types, paging
  <1>7. CASE UNCHANGED vars
    BY <1>0, <1>7 DEF vars, Base, Types
  <1> QED
    BY <1>1, <1>2, <1>3, <1>5, <1>6, <1>7 DEF Next, Worker, Passes

LEMMA BaseInit == Init => Base
  <1> SUFFICES ASSUME Init PROVE Base
    OBVIOUS
  <1>1. Types
    <2>1. 0 \in 0 .. Period - 1
      BY Frames
    <2>2. << >> \in Seq(Busy)
      OBVIOUS
    <2> QED
      BY <2>1, <2>2, CellOK DEF Init, Types
  <1>2. InLine(tti, inflight)
    BY Frames DEF Init, InLine
  <1> QED
    BY <1>1, <1>2 DEF Base

LEMMA Tens == \A a \in Nat : \E q \in Nat, y \in 0 .. 9 : a = 10 * q + y /\ a % 10 = y /\ a \div 10 = q
  <1> SUFFICES ASSUME NEW a \in Nat
               PROVE  \E q \in Nat, y \in 0 .. 9 : a = 10 * q + y /\ a % 10 = y /\ a \div 10 = q
    OBVIOUS
  <1>1. a \div 10 \in Nat /\ a % 10 \in 0 .. 9 /\ a = 10 * (a \div 10) + (a % 10)
    OBVIOUS
  <1> QED
    BY <1>1

-----------------------------------------------------------------------------
(* System information, with one worker: what it stored is its own subframe *)
(* until it has scheduled.                                                 *)

\* The lengths of a window that hold a subframe 9 for each transmission, in a hyperframe longer
\* than they are; and room for all SI messages in one subframe.
SiFits ==
    /\ NofWorkers = 1
    /\ SiWindow \in {10, 20, 40} /\ SiWindow + 20 <= Period
    /\ \A n \in 0 .. Cardinality(Sibs \ {0}) - 1 : NofRbg - SiRbg * n > SiRbg /\ n < NofDci

\* The places of the DCIs are all free when the worker comes, since it has scheduled an uplink
\* subframe in between; nothing is said of subframe 0, in which the cell starts.
NowIs(fl, t, w) ==
    /\ fl = << >> => w.tti # t \/ t = 0
    /\ \A i \in DOMAIN fl :
         LET f == fl[i]
         IN /\ f.pc # "end"
            /\ f.pc = "sched" => w.tti # f.t \/ f.t = 0
            /\ f.pc \in {"si", "tx"} =>
                 /\ w.tti = f.t /\ w.sf = Sf(f.t)
                 /\ Sf(f.t) = 9 => w.rbg = NofRbg /\ w.dci = NofDci
            /\ f.pc \in {"grant", "encode"} => w.tti = UlTti(f.t)

\* The subframe scheduled next.
ToSchedule(fl, t) ==
    IF fl # << >> /\ fl[1].pc \in {"sched", "si", "tx"} THEN fl[1].t ELSE t

\* An open window has had one transmission for each of its subframes 9 before x.
OpenFor(s, x) ==
    /\ s.start % 10 = 0
    /\ Interval(x, s.start) <= SiWindow + 4 /\ s.n = Interval(x, s.start) \div 10

WindowInv(ss, fl, t) ==
    \A k \in Sibs \ {0} : ss[k].on =>
        /\ OpenFor(ss[k], ToSchedule(fl, t))
        /\ \A i \in DOMAIN fl : fl[i].pc = "tx" => Interval(fl[i].t, ss[k].start) <= SiWindow

SiInv == NowIs(inflight, tti, now) /\ WindowInv(sibs, inflight, tti)

LEMMA Spacing == SiFits => NofTx \in 1 .. 4 /\ SiWindow \div NofTx = 10 /\ SiWindow = 10 * NofTx
  BY DEF SiFits, NofTx

LEMMA MchSubframes == \A x : IsMch(x) => Sf(x) \in {1, 2, 3, 6, 7, 8}
  BY CellOK DEF IsMch, IsMcch

Succ(x) == IF x + 1 < Period THEN x + 1 ELSE x + 1 - Period

LEMMA OneWorker ==
  ASSUME SiFits, Base, NEW i \in DOMAIN inflight
  PROVE  /\ i = 1 /\ Len(inflight) = 1 /\ DOMAIN inflight = {1}
         /\ inflight[1] \in Busy /\ inflight[1].t \in 0 .. Period - 1
         /\ tti = Succ(inflight[1].t) /\ inflight # << >>
  <1>1. inflight \in Seq(Busy) /\ InLine(tti, inflight) /\ tti \in 0 .. Period - 1
    BY DEF Base, Types
  <1>2. NofWorkers = 1
    BY DEF SiFits
  <1>3. i = 1 /\ Len(inflight) = 1
    BY <1>1, <1>2, Places
  <1>4. /\ inflight[i] \in Busy /\ inflight[i].t \in 0 .. Period - 1
        /\ Len(inflight) + 1 - i = 1
    <2>1. inflight[i] \in Busy
      BY <1>1, LenProperties
    <2>2. inflight[i].t \in 0 .. Period - 1
      BY <2>1 DEF Busy
    <2>3. Len(inflight) + 1 - i = 1
      BY <1>3
    <2>4. QED
      BY <2>1, <2>2, <2>3
  <1>5. tti = Succ(inflight[i].t)
    <2>1. LET b == Len(inflight) + 1 - i
          IN tti = IF inflight[i].t + b < Period THEN inflight[i].t + b
                   ELSE inflight[i].t + b - Period
      BY <1>1, Places
    <2> QED
      BY <1>4, <2>1 DEF Succ
  <1> QED
    BY <1>1, <1>3, <1>4, <1>5

LEMMA OneGoes ==
  ASSUME SiFits, Base, NEW i, NEW a, NEW b, GoesTo(i, a, b)
  PROVE  /\ i = 1 /\ inflight[1].pc = a /\ inflight'[1].pc = b
         /\ DOMAIN inflight = {1} /\ DOMAIN inflight' = {1} /\ inflight' # << >>
         /\ inflight # << >>
         /\ inflight'[1].t = inflight[1].t /\ inflight[1].t \in 0 .. Period - 1
         /\ tti' = tti /\ tti = Succ(inflight[1].t)
  <1>1. PICK r \in Busy : Goes(i, r) /\ inflight[i].pc = a /\ r.pc = b
    BY DEF GoesTo
  <1>2. /\ DOMAIN inflight' = DOMAIN inflight /\ i \in DOMAIN inflight
        /\ inflight'[i] = r /\ r.t = inflight[i].t /\ tti' = tti
    BY <1>1, GoesBase
  <1>3. /\ i = 1 /\ DOMAIN inflight = {1} /\ inflight # << >>
        /\ tti = Succ(inflight[1].t) /\ inflight[1].t \in 0 .. Period - 1
    BY <1>2, OneWorker
  <1>4. inflight' # << >>
    BY <1>2, <1>3
  <1> QED
    BY <1>1, <1>2, <1>3, <1>4

\* A subframe c subframes after the start of a window is one of number c % 10 of its frame.
LEMMA Offset ==
  ASSUME SiFits, NEW x \in 0 .. Period - 1, NEW st \in 0 .. Period - 1, st % 10 = 0
  PROVE  LET c == Interval(x, st)
         IN /\ c \in Nat /\ Sf(x) = c % 10
            /\ x < st \/ x - st = c
            /\ c <= SiWindow + 3 => Interval(Succ(x), st) = c + 1
  <1>0. /\ Period = 10 * NofFrames /\ NofFrames \in Nat /\ SiWindow \in Nat
        /\ SiWindow + 20 <= Period
    BY Frames DEF SiFits
  <1>1. Interval(x, st) = IF x >= st THEN x - st ELSE x - st + Period
    BY IntervalIs
  <1>2. Interval(x, st) \in Nat /\ (x < st \/ x - st = Interval(x, st))
    BY <1>0, <1>1
  <1>3. Sf(x) = Interval(x, st) % 10
    BY <1>0, <1>1 DEF Sf
  <1>4. ASSUME Interval(x, st) <= SiWindow + 3
        PROVE  Interval(Succ(x), st) = Interval(x, st) + 1
    <2>1. Succ(x) \in 0 .. Period - 1
      BY <1>0 DEF Succ
    <2>2. Interval(Succ(x), st) = IF Succ(x) >= st THEN Succ(x) - st ELSE Succ(x) - st + Period
      BY <2>1, IntervalIs
    <2> QED
      BY <1>0, <1>1, <1>4, <2>2 DEF Succ
  <1> QED
    BY <1>2, <1>3, <1>4

\* The window after subframe x, that has sent if it is a subframe 9.
LEMMA OpenAfter ==
  ASSUME SiFits, NEW x \in 0 .. Period - 1, NEW s \in Sib, NEW w \in Sib, OpenFor(s, x),
         Interval(x, s.start) <= SiWindow + 3,
         w.start = s.start, w.n = IF Sf(x) = 9 THEN s.n + 1 ELSE s.n
  PROVE  OpenFor(w, Succ(x))
  <1> DEFINE c == Interval(x, s.start)
  <1>1. s.start \in 0 .. Period - 1 /\ s.start % 10 = 0 /\ s.n = c \div 10
    BY DEF OpenFor, Sib
  <1>2. c \in Nat /\ Sf(x) = c % 10 /\ Interval(Succ(x), s.start) = c + 1
    BY <1>1, Offset
  <1>3. c <= SiWindow + 3 /\ SiWindow \in Nat
    BY DEF SiFits
  <1> HIDE DEF c
  <1>4. (c + 1) \div 10 = IF c % 10 = 9 THEN (c \div 10) + 1 ELSE c \div 10
    BY <1>2
  <1>5. w.n = (c + 1) \div 10
    BY <1>1, <1>2, <1>4
  <1> QED
    BY <1>1, <1>2, <1>3, <1>5 DEF OpenFor

\* There is room for every message due: they are due in subframe 9, SIB1 in subframe 5.
LEMMA SentIs ==
  ASSUME SiFits, now.sf = 9 => now.rbg = NofRbg /\ now.dci = NofDci, NEW k \in Sibs \ {0}
  PROVE  k \in Sent <=> SiDue(k)
  <1> DEFINE due == {i \in Sibs : SiDue(i)}
             S   == Sibs \ {0}
             B   == {j \in due : j < k}
  <1>1. ASSUME SiDue(k) PROVE Room(Cardinality(B))
    <2>1. now.sf = 9
      BY <1>1 DEF SiDue
    <2>2. 0 \notin due
      BY <2>1 DEF SiDue
    <2>3. IsFiniteSet(S) /\ k \in S /\ k \in Nat
      BY CellOK, FS_Subset
    <2>4. B \subseteq S \ {k}
      BY <2>2, <2>3
    <2>5. IsFiniteSet(S \ {k}) /\ Cardinality(S \ {k}) = Cardinality(S) - 1
      BY <2>3, FS_RemoveElement
    <2>6. IsFiniteSet(B) /\ Cardinality(B) <= Cardinality(S) - 1
      BY <2>4, <2>5, FS_Subset
    <2>7. Cardinality(B) \in Nat /\ Cardinality(S) \in Nat
      BY <2>3, <2>6, FS_CardinalityType
    <2>8. Cardinality(B) \in 0 .. Cardinality(Sibs \ {0}) - 1
      BY <2>6, <2>7
    <2> HIDE DEF B
    <2> QED
      BY <2>1, <2>8 DEF SiFits, Room
  <1> HIDE DEF S
  <1>2. Sent = {i \in due : Room(Cardinality({j \in due : j < i}))}
    BY DEF Sent
  <1>3. k \in due <=> SiDue(k)
    OBVIOUS
  <1> HIDE DEF due
  <1>4. k \in Sent <=> k \in due /\ Room(Cardinality(B))
    BY <1>2
  <1> QED
    BY <1>1, <1>3, <1>4

\* SiWindows: what is open afterwards was opened in this subframe, or is not past its end.
LEMMA WindowsOpen ==
  ASSUME SiFits, Base, SiInv, NEW i \in 1 .. NofWorkers, SiWindows(i), NEW k \in Sibs \ {0}
  PROVE  LET x == inflight[1].t
         IN /\ sibs'[k].on => /\ OpenFor(sibs'[k], x)
                              /\ Interval(x, sibs'[k].start) <= SiWindow
            /\ sibs[k].on /\ ~sibs'[k].on => sibs[k].n = NofTx
  <1> DEFINE x == inflight[1].t
             s == sibs[k]
  <1>0. Types
    BY DEF Base
  <1>1. /\ i = 1 /\ inflight[1].pc = "si" /\ 1 \in DOMAIN inflight /\ x \in 0 .. Period - 1
        /\ inflight # << >>
    <2>1. i \in DOMAIN inflight /\ inflight[i].pc = "si"
      BY DEF SiWindows, At
    <2> QED
      BY <2>1, OneWorker
  <1>2. now.tti = x /\ now.sf = Sf(x)
    BY <1>1 DEF SiInv, NowIs
  <1>3. sibs'[k] = Window(k)
    BY DEF SiWindows
  <1>4. s \in Sib /\ k \in Nat /\ k # 0 /\ k > 0
    BY <1>0, CellOK DEF Types, Sib
  <1>5. s.on => OpenFor(s, x)
    BY <1>1 DEF SiInv, WindowInv, ToSchedule
  <1>6. SiWindow \in {10, 20, 40}
    BY DEF SiFits
  <1>7. CASE s.on
    <2>1. Window(k) = IF Interval(x, s.start) > SiWindow THEN [s EXCEPT !.on = FALSE, !.start = 0]
                      ELSE s
      BY <1>2, <1>4, <1>7 DEF Window
    <2>2. Interval(x, s.start) \in Nat
      BY <1>1, <1>4, <1>5, <1>7, Offset DEF OpenFor, Sib
    <2>3. CASE Interval(x, s.start) > SiWindow
      <3>1. ~sibs'[k].on
        BY <1>3, <1>4, <2>1, <2>3 DEF Sib
      <3>2. SiWindow \div 10 = NofTx
        BY <1>6, Spacing
      <3>3. Interval(x, s.start) \div 10 = SiWindow \div 10
        BY <1>5, <1>6, <1>7, <2>2, <2>3 DEF OpenFor
      <3> QED
        BY <1>5, <1>7, <3>1, <3>2, <3>3 DEF OpenFor
    <2>4. CASE ~(Interval(x, s.start) > SiWindow)
      BY <1>3, <1>5, <1>6, <1>7, <2>1, <2>2, <2>4
    <2> QED
      BY <2>3, <2>4
  <1>8. CASE ~s.on
    <2>1. Window(k) = IF Opens(k) THEN [on |-> TRUE, start |-> x, n |-> 0] ELSE s
      BY <1>2, <1>8 DEF Window
    <2>2. CASE Opens(k)
      <3>1. Sf(x) = ((k - 1) * SiWindow) % 10
        BY <1>2, <1>4, <2>2 DEF Opens
      <3>2. ((k - 1) * SiWindow) % 10 = 0
        BY <1>4, <1>6
      <3>3. x % 10 = 0 /\ Interval(x, x) = 0
        BY <1>1, <3>1, <3>2, IntervalIs DEF Sf
      <3> QED
        BY <1>3, <1>6, <1>8, <2>1, <2>2, <3>3 DEF OpenFor
    <2>3. CASE ~Opens(k)
      BY <1>3, <1>8, <2>1, <2>3
    <2> QED
      BY <2>2, <2>3
  <1> QED
    BY <1>7, <1>8

\* SiMessages: the messages are sent in subframe 9.
LEMMA MessagesSent ==
  ASSUME SiFits, Base, SiInv, NEW i \in 1 .. NofWorkers, SiMessages(i), NEW k \in Sibs \ {0},
         sibs'[k].on
  PROVE  OpenFor(sibs'[k], Succ(inflight[1].t))
  <1> DEFINE x == inflight[1].t
             s == sibs[k]
             c == Interval(x, s.start)
  <1>0. Types
    BY DEF Base
  <1>1. /\ i = 1 /\ inflight[1].pc = "tx" /\ 1 \in DOMAIN inflight /\ x \in 0 .. Period - 1
        /\ inflight # << >>
    <2>1. i \in DOMAIN inflight /\ inflight[i].pc = "tx"
      BY DEF SiMessages, At
    <2> QED
      BY <2>1, OneWorker
  <1>2. now.tti = x /\ now.sf = Sf(x) /\ (Sf(x) = 9 => now.rbg = NofRbg /\ now.dci = NofDci)
    BY <1>1 DEF SiInv, NowIs
  <1>3. sibs'[k] = IF k \in Sent THEN [s EXCEPT !.n = @ + 1] ELSE s
    BY DEF SiMessages
  <1>4. s \in Sib /\ sibs'[k] \in Sib /\ k # 0
    <2>1. sibs'[k] \in Sib
      BY <1>0, <1>3, SentTypes
    <2> QED
      BY <1>0, <2>1 DEF Types, Sib
  <1>5. s.on /\ sibs'[k].start = s.start
    BY <1>3, <1>4 DEF Sib
  <1>6. OpenFor(s, x) /\ c <= SiWindow
    BY <1>1, <1>5 DEF SiInv, WindowInv, ToSchedule
  <1>7. /\ SiWindow \in {10, 20, 40} /\ s.start \in 0 .. Period - 1 /\ s.start % 10 = 0
        /\ s.n = c \div 10
    BY <1>4, <1>6 DEF SiFits, OpenFor, Sib
  <1>8. c \in Nat /\ Sf(x) = c % 10 /\ (x < s.start \/ x - s.start = c)
    BY <1>1, <1>7, Offset
  <1>9. k \in Sent <=> Sf(x) = 9
    <2>1. k \in Sent <=> SiDue(k)
      BY <1>2, SentIs
    <2>2. SiDue(k) => Sf(x) = 9
      BY <1>2, <1>4 DEF SiDue
    <2>3. ASSUME Sf(x) = 9 PROVE SiDue(k)
      <3>1. s.n < 4 /\ c >= 10 * s.n
        <4> HIDE DEF c
        <4> QED
          BY <1>6, <1>7, <1>8, <2>3
      <3>2. SiWindow \div NofTx = 10
        BY Spacing
      <3>3. x < s.start \/ x - s.start >= (SiWindow \div NofTx) * s.n
        BY <1>8, <3>1, <3>2
      <3> QED
        BY <1>2, <1>4, <1>5, <2>3, <3>1, <3>3 DEF SiDue
    <2> QED
      BY <2>1, <2>2, <2>3
  <1>10. sibs'[k].n = IF Sf(x) = 9 THEN s.n + 1 ELSE s.n
    BY <1>3, <1>4, <1>9 DEF Sib
  <1>11. c <= SiWindow + 3
    <2> HIDE DEF c
    <2> QED
      BY <1>6, <1>7, <1>8
  <1> QED
    BY <1>1, <1>4, <1>5, <1>6, <1>10, <1>11, OpenAfter

\* An MBSFN subframe is none that a window waits for.
LEMMA MchWindow ==
  ASSUME SiFits, NEW x \in 0 .. Period - 1, IsMch(x), NEW s \in Sib, OpenFor(s, x)
  PROVE  OpenFor(s, Succ(x))
  <1> DEFINE c == Interval(x, s.start)
  <1>1. s.start \in 0 .. Period - 1 /\ s.start % 10 = 0 /\ c <= SiWindow + 4
    BY DEF OpenFor, Sib
  <1>2. c \in Nat /\ Sf(x) = c % 10
    BY <1>1, Offset
  <1>3. Sf(x) \in {1, 2, 3, 6, 7, 8} /\ SiWindow \in {10, 20, 40}
    BY MchSubframes DEF SiFits
  <1>4. c <= SiWindow + 3
    <2> HIDE DEF c
    <2> QED
      BY <1>1, <1>2, <1>3
  <1> QED
    BY <1>3, <1>4, OpenAfter

LEMMA SiNext ==
  ASSUME SiFits, Base, SiInv, [Next]_vars
  PROVE  SiInv'
  <1>0. /\ Types /\ inflight \in Seq(Busy) /\ InLine(tti, inflight) /\ tti \in 0 .. Period - 1
        /\ now.tti \in 0 .. Period - 1
        /\ \A k \in Sibs : sibs[k] \in Sib
    BY DEF Base, Types, Sib
  <1>1. CASE Dispatch
    <2>1. /\ Len(inflight) < NofWorkers /\ inflight' = Append(inflight, New(tti))
          /\ UNCHANGED <<now, sibs>>
      BY <1>1 DEF Dispatch, New
    <2>2. inflight = << >>
      BY <1>0, <2>1 DEF SiFits
    <2>3. inflight' = <<New(tti)>>
      BY <2>1, <2>2
    <2>4. /\ DOMAIN inflight' = {1} /\ inflight'[1].t = tti /\ inflight'[1].pc = "sched"
          /\ inflight' # << >>
      BY <2>3 DEF New
    <2>5. NowIs(inflight, tti, now)'
      <3>1. now.tti # tti \/ tti = 0
        BY <2>2 DEF SiInv, NowIs
      <3> QED
        BY <2>1, <2>4, <3>1 DEF NowIs
    <2>6. WindowInv(sibs, inflight, tti)'
      BY <2>1, <2>2, <2>4 DEF SiInv, WindowInv, ToSchedule
    <2> QED
      BY <2>5, <2>6 DEF SiInv
  <1>2. ASSUME NEW u \in UeIds, AddPagingId(u) PROVE SiInv'
    BY <1>2 DEF AddPagingId, SiInv, NowIs, WindowInv, ToSchedule
  <1>3. ASSUME NEW i \in 1 .. NofWorkers, EnterDl(i) PROVE SiInv'
    <2>1. /\ i = 1 /\ inflight[1].pc = "sched" /\ inflight'[1].pc = "si"
          /\ DOMAIN inflight = {1} /\ DOMAIN inflight' = {1}
          /\ inflight # << >> /\ inflight' # << >>
          /\ inflight'[1].t = inflight[1].t /\ inflight[1].t \in 0 .. Period - 1
          /\ tti' = tti
      <3>1. GoesTo(i, "sched", "si")
        BY <1>0, <1>3, GotoIs DEF EnterDl, Points
      <3> QED
        BY <3>1, OneGoes
    <2> DEFINE x == inflight[1].t
    <2>2. now' = Stored(x, x, Sf(x), NofRbg) /\ sibs' = sibs
      BY <1>3, <2>1 DEF EnterDl
    <2>3. Sf(x) = 9 => now.tti # x
      <3>1. now.tti # x \/ x = 0
        BY <2>1 DEF SiInv, NowIs
      <3>2. Sf(0) = 0
        BY DEF Sf
      <3> QED
        BY <3>1, <3>2
    <2>4. now'.tti = x /\ now'.sf = Sf(x) /\ (Sf(x) = 9 => now'.rbg = NofRbg /\ now'.dci = NofDci)
      BY <2>2, <2>3 DEF Stored
    <2>5. NowIs(inflight, tti, now)'
      BY <2>1, <2>4 DEF NowIs
    <2>6. WindowInv(sibs, inflight, tti)'
      BY <2>1, <2>2 DEF SiInv, WindowInv, ToSchedule
    <2> QED
      BY <2>5, <2>6 DEF SiInv
  <1>4. ASSUME NEW i \in 1 .. NofWorkers, SiWindows(i) PROVE SiInv'
    <2>1. /\ i = 1 /\ inflight[1].pc = "si" /\ inflight'[1].pc = "tx"
          /\ DOMAIN inflight = {1} /\ DOMAIN inflight' = {1} /\ inflight' # << >>
          /\ inflight'[1].t = inflight[1].t /\ tti' = tti
      <3>1. GoesTo(i, "si", "tx")
        BY <1>0, <1>4, GotoIs DEF SiWindows, Points
      <3> QED
        BY <3>1, OneGoes
    <2>2. now' = now
      BY <1>4 DEF SiWindows
    <2>3. NowIs(inflight, tti, now)'
      BY <2>1, <2>2 DEF SiInv, NowIs
    <2>4. \A k \in Sibs \ {0} : sibs'[k].on =>
             OpenFor(sibs'[k], inflight[1].t) /\ Interval(inflight[1].t, sibs'[k].start) <= SiWindow
      BY <1>4, WindowsOpen
    <2>5. WindowInv(sibs, inflight, tti)'
      BY <2>1, <2>4 DEF WindowInv, ToSchedule
    <2> QED
      BY <2>3, <2>5 DEF SiInv
  <1>5. ASSUME NEW i \in 1 .. NofWorkers, SiMessages(i) PROVE SiInv'
    <2>1. /\ i = 1 /\ inflight'[1].pc = "page"
          /\ DOMAIN inflight' = {1} /\ inflight' # << >>
          /\ inflight'[1].t = inflight[1].t /\ tti' = tti /\ tti = Succ(inflight[1].t)
      <3>1. GoesTo(i, "tx", "page")
        BY <1>0, <1>5, GotoIs DEF SiMessages, Points
      <3> QED
        BY <3>1, OneGoes
    <2>2. NowIs(inflight, tti, now)'
      BY <2>1 DEF NowIs
    <2>3. \A k \in Sibs \ {0} : sibs'[k].on => OpenFor(sibs'[k], tti)
      BY <1>5, <2>1, MessagesSent
    <2>4. WindowInv(sibs, inflight, tti)'
      BY <2>1, <2>3 DEF WindowInv, ToSchedule
    <2> QED
      BY <2>2, <2>4 DEF SiInv
  \* After the messages have been sent only the point changes.
  <1>6. ASSUME NEW i, NEW a \in {"page", "read", "ul", "grant"},
               NEW b \in {"read", "ul", "grant", "encode"}, GoesTo(i, a, b), sibs' = sibs,
               b \in {"grant", "encode"} => now'.tti = UlTti(inflight[i].t)
        PROVE  SiInv'
    <2>1. /\ i = 1 /\ inflight[1].pc = a /\ inflight'[1].pc = b
          /\ DOMAIN inflight = {1} /\ DOMAIN inflight' = {1}
          /\ inflight # << >> /\ inflight' # << >>
          /\ inflight'[1].t = inflight[1].t /\ tti' = tti
      BY <1>6, OneGoes
    <2>2. NowIs(inflight, tti, now)'
      BY <1>6, <2>1 DEF NowIs
    <2>3. WindowInv(sibs, inflight, tti)'
      BY <1>6, <2>1 DEF SiInv, WindowInv, ToSchedule
    <2> QED
      BY <2>2, <2>3 DEF SiInv
  <1>7. ASSUME NEW i \in 1 .. NofWorkers, Paging(i) PROVE SiInv'
    <2>1. GoesTo(i, "page", "read") /\ sibs' = sibs
      BY <1>0, <1>7, PagingIs DEF Paging
    <2> QED
      BY <1>6, <2>1
  <1>8. ASSUME NEW i \in 1 .. NofWorkers, GetDlSched(i) PROVE SiInv'
    <2>1. GoesTo(i, "read", "ul") /\ sibs' = sibs
      BY <1>0, <1>8, GotoIs DEF GetDlSched, Points
    <2> QED
      BY <1>6, <2>1
  <1>9. ASSUME NEW i \in 1 .. NofWorkers, EnterUl(i) PROVE SiInv'
    <2>1. GoesTo(i, "ul", "grant") /\ sibs' = sibs /\ now'.tti = UlTti(inflight[i].t)
      BY <1>0, <1>9, GotoIs DEF EnterUl, Points, Stored
    <2> QED
      BY <1>6, <2>1
  <1>10. ASSUME NEW i \in 1 .. NofWorkers, UlSched(i) PROVE SiInv'
    <2>1. GoesTo(i, "grant", "encode") /\ sibs' = sibs
      BY <1>0, <1>10, GotoIs DEF UlSched, Points
    <2>2. i \in DOMAIN inflight /\ inflight[i].pc = "grant"
      BY <1>10 DEF UlSched, At
    <2>3. now.tti = UlTti(inflight[i].t)
      BY <2>2 DEF SiInv, NowIs
    <2>4. now'.tti = now.tti
      BY <1>0, <1>10 DEF UlSched, Types
    <2> QED
      BY <1>6, <2>1, <2>3, <2>4
  <1>11. ASSUME NEW i \in 1 .. NofWorkers, GetMcch(i) \/ GetMch(i) PROVE SiInv'
    <2>1. GoesTo(i, "sched", "ul") /\ IsMch(inflight[i].t) /\ sibs' = sibs
      BY <1>0, <1>11, MchIs
    <2>2. /\ i = 1 /\ inflight[1].pc = "sched" /\ inflight'[1].pc = "ul"
          /\ DOMAIN inflight' = {1} /\ inflight # << >> /\ inflight' # << >>
          /\ inflight[1].t \in 0 .. Period - 1 /\ tti' = tti /\ tti = Succ(inflight[1].t)
      BY <2>1, OneGoes
    <2>3. NowIs(inflight, tti, now)'
      BY <2>2 DEF NowIs
    <2>4. ASSUME NEW k \in Sibs \ {0}, sibs[k].on PROVE OpenFor(sibs[k], tti)
      <3>1. OpenFor(sibs[k], inflight[1].t)
        BY <2>2, <2>4 DEF SiInv, WindowInv, ToSchedule
      <3> QED
        BY <1>0, <2>1, <2>2, <3>1, MchWindow
    <2>5. WindowInv(sibs, inflight, tti)'
      BY <2>1, <2>2, <2>4 DEF WindowInv, ToSchedule
    <2> QED
      BY <2>3, <2>5 DEF SiInv
  <1>12. ASSUME NEW i \in 1 .. NofWorkers, Encode(i) PROVE SiInv'
    <2>1. /\ i \in DOMAIN inflight /\ inflight[i].pc = "encode"
          /\ tti' = tti /\ UNCHANGED <<now, sibs>>
      BY <1>0, <1>12, EncodeIs
    <2>2. /\ i = 1 /\ DOMAIN inflight = {1} /\ inflight # << >>
          /\ inflight[1].t \in 0 .. Period - 1 /\ tti = Succ(inflight[1].t)
      BY <2>1, OneWorker
    <2>3. inflight' = << >>
      <3> DEFINE fs == [inflight EXCEPT ![i].pc = "end"]
      <3>1. fs[1].pc = "end" /\ DOMAIN fs = {1}
        BY <1>0, <2>1, <2>2 DEF Busy
      <3>2. {k \in DOMAIN fs : fs[k].pc # "end"} = {}
        BY <3>1
      <3> QED
        BY <1>12, <3>2 DEF Encode
    <2>4. now.tti = UlTti(inflight[1].t)
      BY <2>1, <2>2 DEF SiInv, NowIs
    <2>5. now.tti # tti
      <3> DEFINE x == inflight[1].t
      <3>1. UlTti(x) = IF x + 4 < Period THEN x + 4 ELSE x + 4 - Period
        BY <2>2, UlTtiIs
      <3>2. x \in 0 .. Period - 1 /\ tti = Succ(x)
        BY <2>2
      <3> HIDE DEF x
      <3>3. UlTti(x) # Succ(x)
        BY <3>1, <3>2, Frames DEF Succ
      <3> QED
        BY <2>4, <3>2, <3>3 DEF x
    <2>6. NowIs(inflight, tti, now)'
      BY <2>1, <2>3, <2>5 DEF NowIs
    <2>7. WindowInv(sibs, inflight, tti)'
      BY <2>1, <2>2, <2>3 DEF SiInv, WindowInv, ToSchedule
    <2> QED
      BY <2>6, <2>7 DEF SiInv
  <1>13. CASE UNCHANGED vars
    BY <1>13 DEF vars, SiInv, NowIs, WindowInv, ToSchedule
  <1> QED
    BY <1>1, <1>2, <1>3, <1>4, <1>5, <1>7, <1>8, <1>9, <1>10, <1>11, <1>12, <1>13
       DEF Next, Worker

\* Only SiWindows closes a window, and never the one of SIB1.
LEMMA ClosesServed ==
  ASSUME SiFits, Base, SiInv, Next, NEW k \in Sibs, sibs[k].on, ~sibs'[k].on
  PROVE  sibs[k].n = NofTx
  <1>0. Types /\ sibs[k] \in Sib
    BY DEF Base, Types, Sib
  <1>1. ASSUME sibs' = sibs PROVE FALSE
    BY <1>1
  <1>2. ASSUME NEW i \in 1 .. NofWorkers, SiMessages(i) PROVE FALSE
    <2>1. sibs'[k] = IF k \in Sent THEN [sibs[k] EXCEPT !.n = @ + 1] ELSE sibs[k]
      BY <1>2 DEF SiMessages
    <2> QED
      BY <1>0, <2>1 DEF Sib
  <1>3. PICK i \in 1 .. NofWorkers : SiWindows(i)
    BY <1>1, <1>2 DEF Next, Worker, Dispatch, AddPagingId, EnterDl, Paging, GetDlSched, EnterUl,
                      UlSched, GetMcch, GetMch, Scheduled, Encode
  <1>4. k # 0
    <2> SUFFICES ASSUME k = 0 PROVE FALSE
      OBVIOUS
    <2>1. Window(k).on
      BY <1>0 DEF Window, Sib
    <2> QED
      BY <1>3, <2>1 DEF SiWindows
  <1> QED
    BY <1>3, <1>4, WindowsOpen

\* When dl_sched_bc closes a window of an SI message (scheduler.cc:505) its transmissions have
\* all been made, for every number of messages, length of the hyperframe, choice of MBSFN
\* subframes and paging, in an eNodeB of one PHY worker.
THEOREM SiIsSent ==
  ASSUME SiFits
  PROVE  Spec => SiSent
  <1>1. Init => Base /\ SiInv
    <2>1. Init => SiInv
      BY DEF Init, SiInv, NowIs, WindowInv
    <2> QED
      BY <2>1, BaseInit
  <1>2. Base /\ SiInv /\ [Next]_vars => (Base /\ SiInv)'
    BY BaseNext, SiNext
  <1>3. Base /\ SiInv /\ [Next]_vars =>
          [\A k \in Sibs : sibs[k].on /\ ~sibs'[k].on => sibs[k].n = NofTx]_vars
    BY ClosesServed
  <1> QED
    BY <1>1, <1>2, <1>3, PTL DEF Spec, SiSent

-----------------------------------------------------------------------------
(* MBMS: the subframes of the MCH from one MCCH to the next.               *)

Lap  == 10 * McchPeriod
Mchs == Cardinality(MchSfs) * McchPeriod

\* How many subframes there are between t and the last MCCH before it.
Since(t) == LET r == t % Lap
            IN IF r <= McchSf THEN r + Lap - 1 - McchSf ELSE r - McchSf - 1

\* The same for a subframe of a frame and the one of the MCCH.
Rank(s)  == IF s > McchSf THEN s - McchSf - 1 ELSE s + 9 - McchSf
Among(y) == {s \in MchSfs : Rank(s) < y}

\* The MCH subframes between t and the last MCCH before it.
Count(p) == Cardinality(MchSfs) * (p \div 10) + Cardinality(Among(p % 10))
Seen(t)  == Count(Since(t))

LEMMA MchNumbers ==
  /\ McchPeriod \in Nat \ {0} /\ NofFrames \in Nat \ {0} /\ NofFrames % McchPeriod = 0
  /\ McchSf \in MchSfs /\ McchSf \in 1 .. 8 /\ MchSfs \subseteq 0 .. 9 /\ IsFiniteSet(MchSfs)
  /\ Lap \in Nat \ {0} /\ Lap = 10 * McchPeriod /\ Lap >= 10
  /\ Cardinality(MchSfs) \in Nat /\ Mchs \in Nat
  <1>1. /\ McchPeriod \in Nat \ {0} /\ NofFrames \in Nat \ {0} /\ NofFrames % McchPeriod = 0
        /\ McchSf \in MchSfs /\ MchSfs \subseteq {1, 2, 3, 6, 7, 8}
    BY CellOK
  <1>2. MchSfs \subseteq 0 .. 9 /\ McchSf \in 1 .. 8
    BY <1>1
  <1>3. IsFiniteSet(MchSfs)
    <2>0. \A a, b \in Int : IsFiniteSet(a .. b)
      BY FS_Interval
    <2>1. 0 \in Int /\ 9 \in Int
      OBVIOUS
    <2>2. IsFiniteSet(0 .. 9)
      BY <2>0, <2>1, Zenon
    <2> QED
      BY <1>2, <2>2, FS_Subset
  <1>4. Cardinality(MchSfs) \in Nat
    BY <1>3, FS_CardinalityType
  <1>5. Lap \in Nat \ {0} /\ Lap = 10 * McchPeriod /\ Lap >= 10
    BY <1>1 DEF Lap
  <1>6. Mchs \in Nat
    BY <1>1, <1>4 DEF Mchs
  <1> QED
    BY <1>1, <1>2, <1>3, <1>4, <1>5, <1>6

LEMMA WholeLaps == Period % Lap = 0
  <1>1. PICK q \in Nat : NofFrames = McchPeriod * q
    <2>1. /\ NofFrames = McchPeriod * (NofFrames \div McchPeriod) + (NofFrames % McchPeriod)
          /\ NofFrames \div McchPeriod \in Nat
      BY MchNumbers, Quotient
    <2> QED
      BY <2>1, MchNumbers
  <1>2. Period = Lap * q + 0
    BY <1>1, MchNumbers DEF Period
  <1>3. (Lap * q + 0) % Lap = 0
    <2>1. 0 \in 0 .. Lap - 1
      BY MchNumbers
    <2> QED
      BY <2>1, MchNumbers, Remainder
  <1> QED
    BY <1>2, <1>3

LEMMA MchIsSf == \A t : IsMch(t) <=> Sf(t) \in MchSfs
  BY MchNumbers DEF IsMch, IsMcch

\* A TTI as laps, frames and a subframe.
LEMMA Parts ==
  ASSUME NEW t \in Nat
  PROVE  \E f \in 0 .. McchPeriod - 1, s \in 0 .. 9 :
           t % Lap = 10 * f + s /\ Sf(t) = s /\ Sfn(t) % McchPeriod = f
  <1>1. PICK q \in Nat, r \in 0 .. Lap - 1 : t = Lap * q + r /\ t % Lap = r
    <2>0. Lap \in Nat \ {0}
      BY MchNumbers
    <2>1. t = Lap * (t \div Lap) + (t % Lap) /\ t \div Lap \in Nat /\ t % Lap \in 0 .. Lap - 1
      BY <2>0, Quotient
    <2> QED
      BY <2>1
  <1>2. PICK f \in Nat, s \in 0 .. 9 : r = 10 * f + s
    <2>1. r \in Nat
      BY MchNumbers
    <2> QED
      BY <2>1, Tens
  <1>3. f \in 0 .. McchPeriod - 1
    BY <1>1, <1>2, MchNumbers
  <1>4. t = 10 * (McchPeriod * q + f) + s /\ McchPeriod * q + f \in Nat
    <2>1. Lap * q = 10 * (McchPeriod * q) /\ McchPeriod * q \in Nat
      BY MchNumbers
    <2> QED
      BY <1>1, <1>2, <2>1
  <1>5. t % 10 = s /\ t \div 10 = McchPeriod * q + f
    BY <1>4
  <1>6. (McchPeriod * q + f) % McchPeriod = f
    BY <1>3, MchNumbers, Remainder
  <1> QED
    BY <1>1, <1>2, <1>3, <1>5, <1>6 DEF Sf, Sfn

LEMMA SinceIs ==
  ASSUME NEW t \in Nat
  PROVE  /\ Since(t) \in 0 .. Lap - 1
         /\ IsMcch(t) <=> Since(t) = Lap - 1
         /\ \E g \in 0 .. McchPeriod - 1 : Since(t) = 10 * g + Rank(Sf(t))
         /\ Rank(Sf(t)) \in 0 .. 9
  <1>1. PICK f \in 0 .. McchPeriod - 1, s \in 0 .. 9 :
          t % Lap = 10 * f + s /\ Sf(t) = s /\ Sfn(t) % McchPeriod = f
    BY Parts
  <1> DEFINE r == t % Lap
  <1>2. r = 10 * f + s /\ r \in 0 .. Lap - 1
    BY <1>1, MchNumbers
  <1>3. Since(t) = IF r <= McchSf THEN r + Lap - 1 - McchSf ELSE r - McchSf - 1
    BY DEF Since
  <1>4. IsMcch(t) <=> r = McchSf
    BY <1>1, <1>2, MchNumbers DEF IsMcch
  <1>5. Rank(s) \in 0 .. 9
    BY MchNumbers DEF Rank
  <1> HIDE DEF r
  <1>6. Since(t) \in 0 .. Lap - 1 /\ (IsMcch(t) <=> Since(t) = Lap - 1)
    BY <1>2, <1>3, <1>4, MchNumbers
  <1>7. \E g \in 0 .. McchPeriod - 1 : Since(t) = 10 * g + Rank(s)
    <2>1. CASE r <= McchSf
      <3>1. f = 0 /\ s <= McchSf
        BY <1>2, <2>1, MchNumbers
      <3>2. Since(t) = 10 * (McchPeriod - 1) + Rank(s)
        BY <1>2, <1>3, <2>1, <3>1, MchNumbers DEF Rank
      <3> QED
        BY <3>2, MchNumbers
    <2>2. CASE r > McchSf /\ s > McchSf
      BY <1>2, <1>3, <2>2, MchNumbers DEF Rank
    <2>3. CASE r > McchSf /\ s <= McchSf
      <3>1. f - 1 \in 0 .. McchPeriod - 1
        BY <1>2, <2>3, MchNumbers
      <3>2. Since(t) = 10 * (f - 1) + Rank(s)
        BY <1>2, <1>3, <2>3, MchNumbers DEF Rank
      <3> QED
        BY <3>1, <3>2
    <2> QED
      BY <1>2, <2>1, <2>2, <2>3, MchNumbers
  <1> QED
    BY <1>1, <1>5, <1>6, <1>7

LEMMA SinceNext ==
  ASSUME NEW t \in 0 .. Period - 1
  PROVE  Since((t + 1) % Period) = IF Since(t) = Lap - 1 THEN 0 ELSE Since(t) + 1
  <1> DEFINE r == t % Lap
             u == (t + 1) % Period
  <1>1. /\ Period \in Nat \ {0} /\ t \in Nat /\ t + 1 \in Nat /\ Lap \in Nat \ {0}
    BY Frames, MchNumbers
  <1>2. u % Lap = (t + 1) % Lap
    BY <1>1, WholeLaps, ModMod
  <1>3. r \in 0 .. Lap - 1 /\ (r + 1) % Lap = (t + 1) % Lap
    BY <1>1, ModRange, ModAdd
  <1> HIDE DEF r
  <1>4. (r + 1) % Lap = IF r + 1 = Lap THEN 0 ELSE r + 1
    <2>1. CASE r + 1 = Lap
      <3>1. Lap * 1 + 0 = Lap /\ 0 \in 0 .. Lap - 1
        BY <1>1
      <3>2. (Lap * 1 + 0) % Lap = 0
        BY <1>1, <3>1, Remainder
      <3> QED
        BY <2>1, <3>1, <3>2
    <2>2. CASE r + 1 # Lap
      <3>1. Lap * 0 + (r + 1) = r + 1 /\ r + 1 \in 0 .. Lap - 1
        BY <1>1, <1>3, <2>2
      <3>2. (Lap * 0 + (r + 1)) % Lap = r + 1
        BY <1>1, <3>1, Remainder
      <3> QED
        BY <2>2, <3>1, <3>2
    <2> QED
      BY <2>1, <2>2
  <1>5. u % Lap = IF r + 1 = Lap THEN 0 ELSE r + 1
    BY <1>2, <1>3, <1>4
  <1>6. Since(t) = IF r <= McchSf THEN r + Lap - 1 - McchSf ELSE r - McchSf - 1
    BY DEF Since, r
  <1>7. Since(u) = IF u % Lap <= McchSf THEN (u % Lap) + Lap - 1 - McchSf
                   ELSE (u % Lap) - McchSf - 1
    BY DEF Since
  <1> QED
    BY <1>3, <1>5, <1>6, <1>7, MchNumbers

LEMMA AmongIs ==
  /\ \A y : IsFiniteSet(Among(y)) /\ Cardinality(Among(y)) \in Nat
  /\ Cardinality(Among(0)) = 0 /\ Among(10) = MchSfs
  <1>1. ASSUME NEW y PROVE IsFiniteSet(Among(y)) /\ Cardinality(Among(y)) \in Nat
    <2>1. Among(y) \subseteq MchSfs
      BY DEF Among
    <2> QED
      BY <2>1, MchNumbers, FS_Subset, FS_CardinalityType
  <1>2. \A x \in MchSfs : Rank(x) \in 0 .. 9
    BY MchNumbers DEF Rank
  <1>3. Among(0) = {} /\ Among(10) = MchSfs
    BY <1>2 DEF Among
  <1> QED
    BY <1>1, <1>3, FS_EmptySet

LEMMA AmongNext ==
  ASSUME NEW s \in 0 .. 9
  PROVE  Cardinality(Among(Rank(s) + 1)) =
           Cardinality(Among(Rank(s))) + (IF s \in MchSfs THEN 1 ELSE 0)
  <1>1. Rank(s) \in 0 .. 9 /\ \A x \in MchSfs : Rank(x) \in 0 .. 9 /\ (Rank(x) = Rank(s) => x = s)
    BY MchNumbers DEF Rank
  <1>2. Among(Rank(s) + 1) = IF s \in MchSfs THEN Among(Rank(s)) \cup {s} ELSE Among(Rank(s))
    BY <1>1 DEF Among
  <1>3. s \notin Among(Rank(s))
    BY <1>1 DEF Among
  <1>4. IsFiniteSet(Among(Rank(s))) /\ Cardinality(Among(Rank(s))) \in Nat
    BY AmongIs
  <1>5. Cardinality(Among(Rank(s)) \cup {s}) = Cardinality(Among(Rank(s))) + 1
    BY <1>3, <1>4, FS_AddElement
  <1> QED
    BY <1>2, <1>4, <1>5

\* The count goes on with every MCH subframe and starts anew at the MCCH, when it is complete.
LEMMA SeenNext ==
  ASSUME NEW t \in 0 .. Period - 1
  PROVE  LET u == (t + 1) % Period
         IN /\ Seen(t) \in Nat
            /\ IF IsMcch(t) THEN Seen(t) = Mchs - 1 /\ Seen(u) = 0
               ELSE Seen(u) = Seen(t) + (IF IsMch(t) THEN 1 ELSE 0)
  <1> DEFINE u == (t + 1) % Period
             p == Since(t)
             s == Sf(t)
             n == Cardinality(MchSfs)
  <1>1. t \in Nat /\ s \in 0 .. 9
    BY Frames DEF Sf
  <1>2. PICK g \in 0 .. McchPeriod - 1 : p = 10 * g + Rank(s)
    BY <1>1, SinceIs
  <1>3. Rank(s) \in 0 .. 9 /\ p \in 0 .. Lap - 1 /\ (IsMcch(t) <=> p = Lap - 1)
    BY <1>1, SinceIs
  <1>4. Since(u) = IF p = Lap - 1 THEN 0 ELSE p + 1
    BY SinceNext
  <1>5. IsMch(t) <=> s \in MchSfs
    BY MchIsSf
  <1>6. Cardinality(Among(Rank(s) + 1)) =
          Cardinality(Among(Rank(s))) + (IF s \in MchSfs THEN 1 ELSE 0)
    BY <1>1, AmongNext
  <1>7. /\ Cardinality(Among(Rank(s))) \in Nat /\ Cardinality(Among(0)) = 0
        /\ Cardinality(Among(10)) = n /\ n \in Nat
    BY AmongIs, MchNumbers
  <1>8. Count(0) = 0
    <2>1. n * 0 = 0
      BY <1>7
    <2>2. 0 \div 10 = 0 /\ 0 % 10 = 0
      OBVIOUS
    <2> QED
      BY <1>7, <2>1, <2>2 DEF Count
  <1> HIDE DEF u, p, s, n
  <1>9. p % 10 = Rank(s) /\ p \div 10 = g
    BY <1>2, <1>3
  <1>10. Count(p) = n * g + Cardinality(Among(Rank(s))) /\ n * g \in Nat
    BY <1>2, <1>7, <1>9, MchNumbers DEF Count, n
  <1>11. CASE IsMcch(t)
    <2>1. p = Lap - 1 /\ g = McchPeriod - 1 /\ Rank(s) = 9
      BY <1>2, <1>3, <1>11, MchNumbers
    <2>2. s \in MchSfs
      BY <1>5, <1>11 DEF IsMch
    <2>3. Cardinality(Among(Rank(s))) = n - 1
      BY <1>6, <1>7, <2>1, <2>2
    <2>4. n * g = n * McchPeriod - n /\ n * McchPeriod \in Nat
      BY <1>7, <2>1, MchNumbers
    <2>5. Count(p) = Mchs - 1
      BY <1>7, <1>10, <2>3, <2>4 DEF Mchs, n
    <2>6. Since(u) = 0
      BY <1>4, <2>1
    <2> QED
      BY <1>8, <1>10, <1>7, <1>11, <2>5, <2>6 DEF Seen, u, p
  <1>12. CASE ~IsMcch(t)
    <2>1. Since(u) = p + 1
      BY <1>3, <1>4, <1>12
    <2>2. Count(p + 1) = n * g + Cardinality(Among(Rank(s) + 1))
      <3>1. CASE Rank(s) < 9
        <4>1. (p + 1) % 10 = Rank(s) + 1 /\ (p + 1) \div 10 = g
          BY <1>2, <1>3, <3>1
        <4> QED
          BY <4>1 DEF Count, n
      <3>2. CASE Rank(s) = 9
        <4>1. (p + 1) % 10 = 0 /\ (p + 1) \div 10 = g + 1
          BY <1>2, <1>3, <3>2
        <4>2. Rank(s) + 1 = 10
          BY <3>2
        <4>3. n * (g + 1) = n * g + n
          BY <1>2, <1>7, MchNumbers
        <4>4. Count(p + 1) = n * (g + 1) + Cardinality(Among(0))
          BY <4>1 DEF Count, n
        <4> QED
          BY <1>7, <1>10, <4>2, <4>3, <4>4
      <3> QED
        BY <1>3, <3>1, <3>2
    <2> QED
      BY <1>5, <1>6, <1>7, <1>10, <1>12, <2>1, <2>2 DEF Seen, u, p
  <1> QED
    BY <1>11, <1>12 DEF u

-----------------------------------------------------------------------------
(* MBMS: the running sums of the loops over the sessions.                  *)

LEMMA SumsAre ==
  ASSUME NEW f \in [Sessions -> Nat]
  PROVE  /\ Sums(f) \in [Sessions -> Nat] /\ Sums(f)[0] = f[0]
         /\ \A k \in 1 .. NofSessions - 1 : Sums(f)[k] = Sums(f)[k - 1] + f[k]
  <1> DEFINE M == NofSessions - 1
             F(a, k) == IF k = 0 THEN f[0] ELSE a[k - 1] + f[k]
             Is(a, n) == a = [k \in 0 .. n |-> F(a, k)]
             S == {n \in 0 .. M : \E a : Is(a, n)}
             sum == CHOOSE a : Is(a, M)
  <1>1. M \in Nat /\ Sessions = 0 .. M
    BY CellOK DEF Sessions
  <1> HIDE DEF M
  <1>2. 0 \in S
    <2>1. Is([k \in 0 .. 0 |-> f[0]], 0)
      BY <1>1
    <2> HIDE DEF Is
    <2>2. \E a : Is(a, 0)
      BY <2>1
    <2> QED
      BY <1>1, <2>2
  <1>3. ASSUME NEW n \in 0 .. M - 1, n \in S
        PROVE  n + 1 \in S
    <2>1. PICK a : Is(a, n)
      BY <1>3
    <2> DEFINE b == [k \in 0 .. n + 1 |-> IF k <= n THEN a[k] ELSE F(a, n + 1)]
    <2>2. n \in Nat /\ n + 1 \in 0 .. M /\ n + 1 # 0
      BY <1>1
    <2>3. \A k \in 0 .. n : b[k] = a[k]
      BY <2>2
    <2>4. ASSUME NEW k \in 0 .. n + 1
          PROVE  b[k] = F(b, k)
      <3>1. CASE k = 0
        BY <2>1, <2>2, <3>1
      <3>2. CASE k # 0 /\ k <= n
        <4>1. a[k] = F(a, k) /\ b[k] = a[k] /\ b[k - 1] = a[k - 1]
          BY <2>1, <2>2, <2>3, <3>2
        <4> QED
          BY <4>1
      <3>3. CASE k = n + 1
        <4>1. b[k] = F(a, n + 1) /\ b[k - 1] = a[k - 1] /\ k - 1 = n
          BY <2>2, <2>3, <3>3
        <4> QED
          BY <3>3, <4>1
      <3> QED
        BY <2>2, <3>1, <3>2, <3>3
    <2>5. b = [k \in 0 .. n + 1 |-> b[k]]
      OBVIOUS
    <2> HIDE DEF b
    <2>6. Is(b, n + 1)
      BY <2>4, <2>5
    <2> QED
      BY <2>2, <2>6
  <1>4. \E a : Is(a, M)
    <2> HIDE DEF Is
    <2>1. M \in S
      <3> HIDE DEF S
      <3>1. \A n \in 0 .. M - 1 : n \in S => n + 1 \in S
        BY <1>3
      <3>2. 0 .. M \subseteq S
        BY <1>1, <1>2, <3>1, UpTo, Zenon
      <3>3. M \in 0 .. M
        BY <1>1
      <3> QED
        BY <3>2, <3>3
    <2> QED
      BY <2>1
  <1>5. Is(sum, M)
    <2> HIDE DEF Is
    <2> QED
      BY <1>4
  <1>6. Sums(f) = sum
    BY <1>1 DEF Sums
  <1>7. PICK a : a = Sums(f)
    OBVIOUS
  <1>8. a = [k \in 0 .. M |-> F(a, k)]
    BY <1>5, <1>6, <1>7
  <1> HIDE DEF sum
  <1>9. a[0] = f[0] /\ \A k \in 1 .. M : a[k] = a[k - 1] + f[k]
    <2>1. \A k \in 0 .. M : a[k] = F(a, k)
      BY <1>8
    <2> QED
      BY <1>1, <2>1
  <1>10. \A k \in 0 .. M : a[k] \in Nat
    <2> DEFINE T == {k \in 0 .. M : a[k] \in Nat}
    <2>1. 0 \in T
      BY <1>1, <1>9
    <2>2. ASSUME NEW n \in 0 .. M - 1, n \in T PROVE n + 1 \in T
      <3>1. n + 1 \in 1 .. M /\ (n + 1) - 1 = n /\ a[n] \in Nat /\ f[n + 1] \in Nat
        BY <1>1, <2>2
      <3> QED
        BY <1>9, <3>1
    <2> HIDE DEF T
    <2>3. 0 .. M \subseteq T
      BY <1>1, <2>1, <2>2, UpTo
    <2> QED
      BY <2>3 DEF T
  <1>11. a \in [0 .. M -> Nat]
    BY <1>8, <1>10
  <1> QED
    BY <1>1, <1>7, <1>9, <1>11 DEF M

\* What holds of the first session and goes on to the next one holds of all.
LEMMA AllSessions ==
  ASSUME NEW S, 0 \in S, \A n \in 0 .. NofSessions - 2 : n \in S => n + 1 \in S
  PROVE  Sessions \subseteq S
  <1>1. NofSessions \in Nat \ {0} /\ NofSessions - 1 \in Nat
    BY CellOK
  <1>2. 0 .. (NofSessions - 1) - 1 = 0 .. NofSessions - 2
    BY <1>1
  <1>3. \A n \in 0 .. (NofSessions - 1) - 1 : n \in S => n + 1 \in S
    BY <1>2, Zenon
  <1>4. 0 .. NofSessions - 1 \subseteq S
    BY <1>1, <1>3, UpTo, Zenon
  <1> QED
    BY <1>4, Zenon DEF Sessions

LEMMA SumsGrow ==
  ASSUME NEW f \in [Sessions -> Nat]
  PROVE  \A j, k \in Sessions : j <= k => Sums(f)[j] <= Sums(f)[k]
  <1> SUFFICES ASSUME NEW j \in Sessions
               PROVE  \A k \in Sessions : j <= k => Sums(f)[j] <= Sums(f)[k]
    OBVIOUS
  <1> DEFINE a == Sums(f)
             S == {k \in Sessions : j <= k => a[j] <= a[k]}
  <1>0. /\ a \in [Sessions -> Nat] /\ \A k \in 1 .. NofSessions - 1 : a[k] = a[k - 1] + f[k]
        /\ NofSessions \in Nat \ {0} /\ Sessions = 0 .. NofSessions - 1
    BY SumsAre, CellOK DEF Sessions
  <1> HIDE DEF a
  <1>1. 0 \in S
    BY <1>0
  <1>2. ASSUME NEW n \in 0 .. NofSessions - 2, n \in S PROVE n + 1 \in S
    <2>1. /\ n + 1 \in 1 .. NofSessions - 1 /\ (n + 1) - 1 = n /\ n \in Sessions /\ n + 1 \in Sessions
          /\ a[n] \in Nat /\ a[n + 1] \in Nat /\ f[n + 1] \in Nat /\ a[j] \in Nat
          /\ j \in Nat /\ n \in Nat
      BY <1>0
    <2>2. a[n + 1] = a[n] + f[n + 1]
      BY <1>0, <2>1
    <2>3. j <= n => a[j] <= a[n]
      BY <1>2, <2>1
    <2>4. j <= n + 1 => a[j] <= a[n + 1]
      BY <2>1, <2>2, <2>3
    <2> QED
      BY <2>1, <2>4
  <1> HIDE DEF S
  <1>3. Sessions \subseteq S
    BY <1>1, <1>2, AllSessions
  <1> QED
    BY <1>3 DEF S, a

-----------------------------------------------------------------------------
(* MBMS: the stops of the sessions.                                        *)

\* get_mch_sched takes no lock. Unless the subframes of the MCH are further apart than workers
\* overtake each other, those next to an MCCH may be counted before it or after it.
MchApart == \A s1, s2 \in MchSfs, d \in 1 .. NofWorkers - 1 : (s1 + d) % 10 # s2
Late  == IF MchApart THEN 0 ELSE NofWorkers - 1
Turns == Mchs - 2 * Late

\* Room for what is rounded up, for each session but the last, and for the MCCH.
SessionsFit == IF NofSessions = 1 THEN 1 < Turns ELSE SfAllocEnd + NofSessions <= Turns

LEMMA LateNumbers == Late \in 0 .. 3 /\ Late <= NofWorkers - 1 /\ Turns \in Int /\ Turns = Mchs - 2 * Late
  BY Frames, MchNumbers DEF Late, Turns

\* Where the subframes of a session begin.
From(stop, k) == IF k = 0 THEN 0 ELSE stop[k - 1]

Share(bytes, k) == IF Total(bytes) >= SfAllocEnd * BytesPerSf
                   THEN SfAllocEnd * (bytes[k] \div Total(bytes))
                   ELSE (bytes[k] + BytesPerSf - 1) \div BytesPerSf

LEMMA SessionNumbers ==
  /\ NofSessions \in Nat \ {0} /\ Sessions = 0 .. NofSessions - 1 /\ Sessions \subseteq Nat
  /\ BytesPerSf \in Nat \ {0} /\ SfAllocEnd \in Nat \ {0} /\ Backlogs \subseteq Nat
  /\ SfAllocEnd * BytesPerSf \in Nat
  BY CellOK DEF Sessions

LEMMA TotalIs ==
  ASSUME NEW f \in [Sessions -> Nat]
  PROVE  /\ Total(f) = Sums(f)[NofSessions - 1] /\ Total(f) \in Nat
         /\ \A k \in Sessions : Sums(f)[k] <= Total(f)
  <1>1. NofSessions - 1 \in Sessions
    BY SessionNumbers
  <1>2. Sums(f) \in [Sessions -> Nat]
    BY SumsAre
  <1>3. \A k \in Sessions : k <= NofSessions - 1
    BY SessionNumbers
  <1> QED
    BY <1>1, <1>2, <1>3, SumsGrow DEF Total

\* A positive share of the bytes of all, rounded up.
LEMMA RoundedUp ==
  ASSUME NEW b \in Nat, NEW m \in Nat \ {0}
  PROVE  LET c == (b + m - 1) \div m
         IN c \in Nat /\ m * c <= b + m - 1 /\ (b > 0 => c > 0)
  <1> DEFINE a == b + m - 1
             c == a \div m
  <1>1. a \in Nat /\ (b > 0 => a >= m)
    OBVIOUS
  <1> HIDE DEF a
  <1>2. a = m * c + (a % m) /\ c \in Nat /\ a % m \in 0 .. m - 1
    BY <1>1, Quotient
  <1> HIDE DEF c
  <1>3. m * c <= a
    <2>1. m * c \in Nat
      BY <1>2
    <2> QED
      BY <1>2, <2>1
  <1>4. ASSUME b > 0 PROVE c > 0
    <2>1. CASE c = 0
      <3>1. m * c = 0
        BY <2>1
      <3> QED
        BY <1>1, <1>2, <1>4, <3>1
    <2> QED
      BY <1>2, <2>1
  <1> QED
    BY <1>2, <1>3, <1>4 DEF a, c

LEMMA StopsAre ==
  ASSUME NEW bytes \in [Sessions -> Backlogs]
  PROVE  /\ Stops(bytes) = Sums([k \in Sessions |-> Share(bytes, k)])
         /\ [k \in Sessions |-> Share(bytes, k)] \in [Sessions -> Nat]
         /\ bytes \in [Sessions -> Nat] /\ Total(bytes) \in Nat
  <1>1. bytes \in [Sessions -> Nat]
    BY SessionNumbers
  <1>2. Total(bytes) \in Nat
    BY <1>1, TotalIs
  <1>3. ASSUME NEW k \in Sessions PROVE Share(bytes, k) \in Nat
    <2>1. bytes[k] \in Nat
      BY <1>1
    <2>2. (bytes[k] + BytesPerSf - 1) \div BytesPerSf \in Nat
      BY <2>1, SessionNumbers, RoundedUp
    <2>3. ASSUME Total(bytes) >= SfAllocEnd * BytesPerSf
          PROVE  SfAllocEnd * (bytes[k] \div Total(bytes)) \in Nat
      <3>1. SfAllocEnd * BytesPerSf > 0
        BY SessionNumbers
      <3>2. Total(bytes) \in Nat \ {0}
        BY <1>2, <2>3, <3>1, SessionNumbers
      <3>3. bytes[k] \div Total(bytes) \in Nat
        BY <2>1, <3>2, Quotient
      <3> QED
        BY <3>3, SessionNumbers
    <2> QED
      BY <2>2, <2>3 DEF Share
  <1>4. Stops(bytes) = Sums([k \in Sessions |-> Share(bytes, k)])
    BY DEF Stops, Share
  <1> QED
    BY <1>1, <1>2, <1>3, <1>4

LEMMA StopsOrdered ==
  ASSUME NEW bytes \in [Sessions -> Backlogs]
  PROVE  /\ Stops(bytes) \in [Sessions -> Nat]
         /\ \A j, k \in Sessions : j <= k => Stops(bytes)[j] <= Stops(bytes)[k]
  BY StopsAre, SumsAre, SumsGrow

\* If all fits, the sessions before one that has data leave it a subframe before the next MCCH.
LEMMA StopsFit ==
  ASSUME SessionsFit, NEW bytes \in [Sessions -> Backlogs],
         Total(bytes) < SfAllocEnd * BytesPerSf, NEW k \in Sessions, bytes[k] > 0
  PROVE  /\ From(Stops(bytes), k) < Stops(bytes)[k]
         /\ From(Stops(bytes), k) + 1 < Turns
  <1> DEFINE sh == [j \in Sessions |-> Share(bytes, j)]
             S  == Stops(bytes)
             T  == Sums(bytes)
             A  == SfAllocEnd
             B  == BytesPerSf
             M  == NofSessions
  <1>1. /\ M \in Nat \ {0} /\ Sessions = 0 .. M - 1 /\ B \in Nat \ {0} /\ A \in Nat \ {0}
        /\ A * B \in Nat /\ Turns \in Int
    BY SessionNumbers, LateNumbers
  <1>2. S = Sums(sh) /\ sh \in [Sessions -> Nat] /\ bytes \in [Sessions -> Nat]
    BY StopsAre
  <1>3. ASSUME NEW j \in Sessions
        PROVE  B * sh[j] <= bytes[j] + B - 1 /\ (bytes[j] > 0 => sh[j] > 0)
    <2>1. bytes[j] \in Nat /\ Total(bytes) \in Nat
      BY <1>2, StopsAre
    <2>2. sh[j] = (bytes[j] + B - 1) \div B
      BY <1>1, <2>1 DEF Share
    <2> QED
      BY <1>1, <2>1, <2>2, RoundedUp
  <1> HIDE DEF sh, S
  <1>4. /\ S \in [Sessions -> Nat] /\ S[0] = sh[0]
        /\ \A j \in 1 .. M - 1 : S[j] = S[j - 1] + sh[j]
    BY <1>2, SumsAre
  <1>5. /\ T \in [Sessions -> Nat] /\ T[0] = bytes[0]
        /\ \A j \in 1 .. M - 1 : T[j] = T[j - 1] + bytes[j]
        /\ T[k] <= Total(bytes) /\ Total(bytes) \in Nat
    BY <1>2, SumsAre, TotalIs
  <1> HIDE DEF T, A, B, M
  <1> DEFINE X == {j \in Sessions : B * S[j] <= T[j] + (B - 1) * (j + 1)}
  <1>6. 0 \in X
    <2>1. 0 \in Sessions /\ sh[0] \in Nat /\ bytes[0] \in Nat /\ (B - 1) * (0 + 1) = B - 1
      BY <1>1, <1>2
    <2>2. B * S[0] <= T[0] + (B - 1)
      BY <1>1, <1>3, <1>4, <1>5, <2>1
    <2> QED
      BY <2>1, <2>2
  <1>7. ASSUME NEW j \in 0 .. M - 2, j \in X PROVE j + 1 \in X
    <2>1. /\ j \in Sessions /\ j + 1 \in Sessions /\ j + 1 \in 1 .. M - 1 /\ (j + 1) - 1 = j
          /\ j \in Nat
      BY <1>1
    <2>2. S[j + 1] = S[j] + sh[j + 1] /\ T[j + 1] = T[j] + bytes[j + 1]
      BY <1>4, <1>5, <2>1
    <2>3. /\ S[j] \in Nat /\ sh[j + 1] \in Nat /\ T[j] \in Nat /\ bytes[j + 1] \in Nat
      BY <1>2, <1>4, <1>5, <2>1
    <2>4. B * S[j] <= T[j] + (B - 1) * (j + 1)
      BY <1>7
    <2>5. B * sh[j + 1] <= bytes[j + 1] + (B - 1)
      BY <1>1, <1>3, <2>1, <2>3
    <2>6. B * S[j + 1] = B * S[j] + B * sh[j + 1]
      BY <1>1, <2>2, <2>3, Multiples
    <2>7. /\ (B - 1) * (j + 1 + 1) = (B - 1) * (j + 1) + (B - 1)
          /\ (B - 1) * (j + 1) \in Nat
      <3>1. B - 1 \in Nat /\ j + 1 \in Nat /\ 1 \in Nat /\ (B - 1) * 1 = B - 1
        BY <1>1, <2>1
      <3> QED
        BY <3>1, Multiples
    <2>8. B * S[j] \in Nat /\ B * sh[j + 1] \in Nat
      BY <1>1, <2>3, Multiples
    <2>9. B * S[j + 1] <= T[j + 1] + (B - 1) * (j + 1 + 1)
      <3> DEFINE p == B * S[j]
                 q == B * sh[j + 1]
                 x == (B - 1) * (j + 1)
      <3>1. p \in Nat /\ q \in Nat /\ x \in Nat /\ B - 1 \in Nat
        BY <1>1, <2>7, <2>8
      <3>2. p <= T[j] + x /\ q <= bytes[j + 1] + (B - 1)
        BY <2>4, <2>5
      <3> HIDE DEF p, q, x
      <3>3. p + q <= T[j] + bytes[j + 1] + (x + (B - 1))
        BY <2>3, <3>1, <3>2
      <3> QED
        BY <2>2, <2>6, <2>7, <3>3 DEF p, q, x
    <2> QED
      BY <2>1, <2>9
  <1> HIDE DEF X
  <1>8. Sessions \subseteq X
    BY <1>6, <1>7, AllSessions DEF M
  <1>9. CASE k = 0
    <2>1. S[0] > 0
      BY <1>3, <1>4, <1>9
    <2>2. 1 < Turns
      BY <1>1 DEF SessionsFit, M, A
    <2> QED
      BY <1>9, <2>1, <2>2 DEF From, S
  <1>10. CASE k # 0
    <2> DEFINE a == S[k - 1]
    <2>1. /\ k \in 1 .. M - 1 /\ k - 1 \in Sessions /\ k - 1 + 1 = k /\ k \in Nat
          /\ a \in Nat /\ sh[k] \in Nat /\ bytes[k] \in Nat /\ T[k - 1] \in Nat
      BY <1>1, <1>2, <1>4, <1>5, <1>10
    <2>2. S[k] = a + sh[k] /\ sh[k] > 0
      BY <1>3, <1>4, <2>1
    <2>3. B * a <= T[k - 1] + (B - 1) * k
      BY <1>8, <2>1 DEF X
    <2>4. T[k - 1] <= A * B - 2
      <3>1. T[k] = T[k - 1] + bytes[k]
        BY <1>5, <2>1
      <3>2. Total(bytes) < A * B
        BY DEF A, B
      <3> QED
        BY <1>1, <1>5, <2>1, <3>1, <3>2
    <2> HIDE DEF a
    <2>5. ASSUME a >= A + M - 1 PROVE FALSE
      <3>1. B * (A + (M - 1)) <= B * a
        <4>1. B \in Nat /\ A + (M - 1) \in Nat /\ A + (M - 1) <= a
          BY <1>1, <2>1, <2>5
        <4> QED
          BY <2>1, <4>1, Multiples
      <3>2. B * (A + (M - 1)) = B * A + B * (M - 1) /\ A * B = B * A
        <4>1. B \in Nat /\ A \in Nat /\ M - 1 \in Nat
          BY <1>1
        <4> QED
          BY <4>1, Multiples
      <3>3. (B - 1) * k <= (B - 1) * (M - 1)
        <4>1. B - 1 \in Nat /\ k <= M - 1 /\ M - 1 \in Nat
          BY <1>1, <2>1
        <4> QED
          BY <2>1, <4>1, Multiples
      <3>4. B * (M - 1) = (B - 1) * (M - 1) + (M - 1)
        <4>1. B - 1 \in Nat /\ M - 1 \in Nat /\ (B - 1) + 1 = B
          BY <1>1
        <4>2. ((B - 1) + 1) * (M - 1) = (B - 1) * (M - 1) + (M - 1)
          BY <4>1, Multiples
        <4> QED
          BY <4>1, <4>2
      <3>5. (B - 1) * (M - 1) \in Nat /\ B * (M - 1) \in Nat /\ (B - 1) * k \in Nat /\ B * a \in Nat
        <4>1. B \in Nat /\ B - 1 \in Nat /\ M - 1 \in Nat
          BY <1>1
        <4> QED
          BY <2>1, <4>1, Multiples
      <3> DEFINE u == B * a
                 v == A * B
                 w == B * (M - 1)
                 x == (B - 1) * k
                 y == (B - 1) * (M - 1)
      <3>6. u \in Nat /\ v \in Nat /\ w \in Nat /\ x \in Nat
        BY <1>1, <3>5
      <3>7. u >= v + w /\ x <= w
        <4>1. w = y + (M - 1) /\ x <= y /\ M - 1 \in Nat /\ y \in Nat
          BY <1>1, <3>3, <3>4, <3>5
        <4>2. u >= v + w
          BY <3>1, <3>2
        <4> HIDE DEF u, v, w, x, y
        <4> QED
          BY <3>6, <4>1, <4>2
      <3>8. u <= T[k - 1] + x /\ T[k - 1] <= v - 2
        BY <2>3, <2>4
      <3> HIDE DEF u, v, w, x, y
      <3> QED
        BY <2>1, <3>6, <3>7, <3>8
    <2>6. M # 1
      BY <1>1, <2>1
    <2>7. A + M <= Turns
      BY <2>6 DEF SessionsFit, A, M
    <2>8. a + 1 < Turns
      BY <1>1, <2>1, <2>5, <2>7
    <2> QED
      BY <1>10, <2>1, <2>2, <2>8 DEF From, S, a
  <1> QED
    BY <1>9, <1>10

-----------------------------------------------------------------------------
(* MBMS: the workers that are to ask for the MCH.                          *)

\* The subframes after an MCCH, as many as there are workers.
LEMMA SinceMcch ==
  ASSUME NEW x \in 0 .. Period - 1, IsMcch(x), NEW b \in 1 .. 4
  PROVE  Since((x + b) % Period) = b - 1
  <1>1. Period \in Nat \ {0} /\ x \in Nat /\ Lap \in Nat /\ Lap >= 10
    BY Frames, MchNumbers
  <1>2. ASSUME NEW n \in 0 .. 3
        PROVE  /\ (x + n) % Period \in 0 .. Period - 1
               /\ (((x + n) % Period) + 1) % Period = (x + (n + 1)) % Period
    <2>1. x + n \in Nat /\ (x + n) + 1 = x + (n + 1)
      BY <1>1
    <2>2. (((x + n) % Period) + 1) % Period = ((x + n) + 1) % Period
      BY <1>1, <2>1, ModAdd
    <2> QED
      BY <1>1, <2>1, <2>2, ModRange
  <1>3. ASSUME NEW n \in 0 .. 3
        PROVE  LET s == Since((x + n) % Period)
               IN Since((x + (n + 1)) % Period) = IF s = Lap - 1 THEN 0 ELSE s + 1
    <2>1. Since((((x + n) % Period) + 1) % Period)
            = IF Since((x + n) % Period) = Lap - 1 THEN 0 ELSE Since((x + n) % Period) + 1
      BY <1>2, SinceNext
    <2> QED
      BY <1>2, <2>1
  <1>4. (x + 0) % Period = x
    <2>1. 0 \in 0 .. Period /\ x + 0 = x /\ x < Period
      BY <1>1
    <2>2. (x + 0) % Period = IF x + 0 < Period THEN x + 0 ELSE x + 0 - Period
      BY <2>1, Wrap
    <2> QED
      BY <2>1, <2>2
  <1>5. Since(x) = Lap - 1
    BY <1>1, SinceIs
  <1> DEFINE S(n) == Since((x + n) % Period)
  <1>6. S(0) = Lap - 1 /\ \A n \in 0 .. 3 : S(n + 1) = IF S(n) = Lap - 1 THEN 0 ELSE S(n) + 1
    BY <1>3, <1>4, <1>5
  <1> HIDE DEF S
  <1>7. S(1) = 0
    BY <1>6
  <1>8. S(2) = 1
    BY <1>1, <1>6, <1>7
  <1>9. S(3) = 2
    BY <1>1, <1>6, <1>8
  <1>10. S(4) = 3
    BY <1>1, <1>6, <1>9
  <1>11. S(b) = b - 1
    BY <1>7, <1>8, <1>9, <1>10
  <1> QED
    BY <1>11 DEF S

\* So few of them are of the MCH.
LEMMA FewAmong ==
  ASSUME NEW p \in 0 .. NofWorkers - 1
  PROVE  Count(p) \in Nat /\ Count(p) <= Late
  <1>1. p \in 0 .. 3 /\ p % 10 = p /\ p \div 10 = 0
    BY Frames
  <1>2. /\ IsFiniteSet(Among(p)) /\ Cardinality(Among(p)) \in Nat
        /\ Cardinality(MchSfs) \in Nat
    BY AmongIs, MchNumbers
  <1>3. Count(p) = Cardinality(Among(p))
    BY <1>1, <1>2 DEF Count
  <1>4. CASE MchApart
    <2>1. ASSUME NEW s \in Among(p) PROVE FALSE
      <3> DEFINE d == Rank(s) + 1
      <3>1. s \in MchSfs /\ s \in 0 .. 9 /\ Rank(s) < p /\ McchSf \in 1 .. 8 /\ McchSf \in MchSfs
        BY <2>1, MchNumbers DEF Among
      <3>2. d \in 1 .. NofWorkers - 1 /\ (McchSf + d) % 10 = s
        BY <1>1, <3>1, Frames DEF Rank
      <3> QED
        BY <1>4, <3>1, <3>2 DEF MchApart
    <2>2. Among(p) = {}
      BY <2>1
    <2> QED
      BY <1>3, <1>4, <2>2, FS_EmptySet DEF Late
  <1>5. CASE ~MchApart
    <2> DEFINE C(n) == Cardinality(Among(n))
    <2>1. ASSUME NEW n \in 0 .. 2 PROVE C(n) \in Nat /\ C(n + 1) \in Nat /\ C(n + 1) <= C(n) + 1
      <3> DEFINE s == IF McchSf + n + 1 <= 9 THEN McchSf + n + 1 ELSE McchSf + n - 9
      <3>1. s \in 0 .. 9 /\ Rank(s) = n
        BY MchNumbers DEF Rank
      <3> HIDE DEF s
      <3>2. C(n + 1) = C(n) + (IF s \in MchSfs THEN 1 ELSE 0)
        BY <3>1, AmongNext
      <3>3. C(n) \in Nat /\ C(n + 1) \in Nat
        BY AmongIs
      <3> QED
        BY <3>2, <3>3
    <2>2. C(0) = 0
      BY AmongIs
    <2> HIDE DEF C
    <2>3. C(1) <= 1 /\ C(1) \in Nat
      BY <2>1, <2>2
    <2>4. C(2) <= 2 /\ C(2) \in Nat
      BY <2>1, <2>3
    <2>5. C(3) <= 3 /\ C(3) \in Nat
      BY <2>1, <2>4
    <2>6. C(p) <= p
      BY <1>1, <2>2, <2>3, <2>4, <2>5
    <2>7. Late = NofWorkers - 1
      BY <1>5 DEF Late
    <2> QED
      BY <1>1, <1>2, <1>3, <2>6, <2>7, Frames DEF C
  <1> QED
    BY <1>4, <1>5

Asks(fl) == {fl[i].t : i \in {j \in DOMAIN fl : fl[j].pc = "sched" /\ IsMch(fl[j].t)}}

LEMMA AsksAre ==
  ASSUME NEW fl, NEW x
  PROVE  x \in Asks(fl) <=>
           \E i \in DOMAIN fl : fl[i].pc = "sched" /\ IsMch(fl[i].t) /\ fl[i].t = x
  BY DEF Asks

\* Two workers are as many subframes apart as they are places.
LEMMA Spaced ==
  ASSUME NEW t \in 0 .. Period - 1, NEW fl \in Seq(Busy), InLine(t, fl),
         NEW k \in DOMAIN fl, NEW m \in DOMAIN fl, k < m
  PROVE  LET d == m - k
         IN /\ d \in 1 .. NofWorkers - 1
            /\ fl[m].t = IF fl[k].t + d < Period THEN fl[k].t + d ELSE fl[k].t + d - Period
            /\ fl[k].t \in 0 .. Period - 1 /\ fl[m].t \in 0 .. Period - 1
  <1> DEFINE x == fl[k].t
             y == fl[m].t
             b == Len(fl) + 1 - k
             c == Len(fl) + 1 - m
             d == m - k
  <1>1. /\ x \in 0 .. Period - 1 /\ b \in 1 .. NofWorkers
        /\ k \in 1 .. Len(fl) /\ Len(fl) \in 1 .. NofWorkers
        /\ t = IF x + b < Period THEN x + b ELSE x + b - Period
    BY Places
  <1>2. /\ y \in 0 .. Period - 1 /\ c \in 1 .. NofWorkers
        /\ m \in 1 .. Len(fl)
        /\ t = IF y + c < Period THEN y + c ELSE y + c - Period
    BY Places
  <1>3. d \in 1 .. NofWorkers - 1 /\ b = c + d
    <2>1. Len(fl) \in Nat /\ k \in 1 .. Len(fl) /\ m \in 1 .. Len(fl) /\ k < m
      BY <1>1, <1>2
    <2>2. Len(fl) <= NofWorkers /\ NofWorkers \in Nat
      <3>1. Len(fl) <= NofWorkers
        BY DEF InLine
      <3> QED
        BY <3>1, Frames
    <2>3. k \in Nat /\ m \in Nat /\ 1 <= k /\ m <= NofWorkers
      BY <2>1, <2>2
    <2>4. b = c + d
      BY <2>1, <2>3
    <2>5. d \in 1 .. NofWorkers - 1
      BY <2>1, <2>2, <2>3
    <2> QED
      BY <2>4, <2>5
  <1> HIDE DEF x, y, b, c, d
  <1>4. y = IF x + d < Period THEN x + d ELSE x + d - Period
    BY <1>1, <1>2, <1>3, Frames
  <1> QED
    BY <1>1, <1>2, <1>3, <1>4 DEF x, y, d

LEMMA OwnSubframe ==
  ASSUME NEW t \in 0 .. Period - 1, NEW fl \in Seq(Busy), InLine(t, fl),
         NEW i \in DOMAIN fl, NEW j \in DOMAIN fl, fl[i].t = fl[j].t
  PROVE  i = j
  <1> SUFFICES ASSUME NEW k \in DOMAIN fl, NEW m \in DOMAIN fl, k < m, fl[k].t = fl[m].t
               PROVE  FALSE
    <2>1. i \in Nat /\ j \in Nat
      BY Places
    <2> QED
      BY <2>1
  <1> DEFINE x == fl[k].t
             d == m - k
  <1>1. /\ d \in 1 .. NofWorkers - 1 /\ x \in 0 .. Period - 1
        /\ x = IF x + d < Period THEN x + d ELSE x + d - Period
    BY Spaced
  <1> HIDE DEF x, d
  <1> QED
    BY <1>1, Frames

LEMMA OneMch ==
  ASSUME MchApart, NEW t \in 0 .. Period - 1, NEW fl \in Seq(Busy), InLine(t, fl),
         NEW i \in DOMAIN fl, NEW j \in DOMAIN fl, IsMch(fl[i].t), IsMch(fl[j].t)
  PROVE  i = j
  <1> SUFFICES ASSUME NEW k \in DOMAIN fl, NEW m \in DOMAIN fl, k < m,
                      IsMch(fl[k].t), IsMch(fl[m].t)
               PROVE  FALSE
    <2>1. i \in Nat /\ j \in Nat
      BY Places
    <2> QED
      BY <2>1
  <1> DEFINE x == fl[k].t
             y == fl[m].t
             d == m - k
  <1>1. /\ d \in 1 .. NofWorkers - 1 /\ x \in 0 .. Period - 1 /\ y \in 0 .. Period - 1
        /\ y = IF x + d < Period THEN x + d ELSE x + d - Period
    BY Spaced
  <1>2. Sf(x) \in MchSfs /\ Sf(y) \in MchSfs
    BY MchIsSf
  <1> HIDE DEF x, y, d
  <1>3. (Sf(x) + d) % 10 = Sf(y)
    BY <1>1, Frames DEF Sf
  <1> QED
    BY <1>1, <1>2, <1>3 DEF MchApart

LEMMA FewAsk ==
  ASSUME NEW t \in 0 .. Period - 1, NEW fl \in Seq(Busy), InLine(t, fl)
  PROVE  IsFiniteSet(Asks(fl)) /\ Cardinality(Asks(fl)) \in Nat /\ Cardinality(Asks(fl)) <= Late + 1
  <1> DEFINE n == Len(fl)
             T == {fl[i].t : i \in 1 .. n}
             f == [i \in 1 .. n |-> fl[i].t]
  <1>1. n \in Nat /\ n <= NofWorkers /\ DOMAIN fl = 1 .. n
    BY DEF InLine
  <1>2. IsFiniteSet(1 .. n) /\ Cardinality(1 .. n) = n
    <2>1. 1 \in Int /\ n \in Int /\ n >= 0
      BY <1>1
    <2>2. IsFiniteSet(1 .. n) /\ Cardinality(1 .. n) = IF 1 > n THEN 0 ELSE n - 1 + 1
      BY <2>1, FS_Interval
    <2> QED
      BY <2>1, <2>2
  <1>3. f \in Surjection(1 .. n, T)
    BY DEF Surjection
  <1>4. Asks(fl) \subseteq T
    BY <1>1 DEF Asks
  <1> HIDE DEF n, T, f
  <1>5. IsFiniteSet(T) /\ Cardinality(T) <= n
    BY <1>2, <1>3, FS_Surjection
  <1>6. /\ IsFiniteSet(Asks(fl)) /\ Cardinality(Asks(fl)) <= Cardinality(T)
        /\ Cardinality(T) \in Nat /\ Cardinality(Asks(fl)) \in Nat
    BY <1>4, <1>5, FS_Subset, FS_CardinalityType
  <1>7. CASE MchApart
    <2>1. ASSUME NEW x \in Asks(fl), NEW y \in Asks(fl) PROVE x = y
      <3>1. PICK i \in DOMAIN fl : IsMch(fl[i].t) /\ fl[i].t = x
        BY <2>1, AsksAre
      <3>2. PICK j \in DOMAIN fl : IsMch(fl[j].t) /\ fl[j].t = y
        BY <2>1, AsksAre
      <3>3. i = j
        BY <1>7, <3>1, <3>2, OneMch
      <3> QED
        BY <3>1, <3>2, <3>3
    <2>2. Cardinality(Asks(fl)) <= 1
      <3>1. CASE Asks(fl) = {}
        BY <3>1, FS_EmptySet
      <3>2. CASE Asks(fl) # {}
        <4>1. PICK x : Asks(fl) = {x}
          BY <2>1, <3>2
        <4>2. Cardinality({x}) = 1
          BY FS_Singleton, Zenon
        <4> QED
          BY <4>1, <4>2
      <3> QED
        BY <3>1, <3>2
    <2> QED
      BY <1>6, <1>7, <2>2 DEF Late
  <1>8. CASE ~MchApart
    BY <1>1, <1>5, <1>6, <1>8, Frames DEF Late
  <1> QED
    BY <1>6, <1>7, <1>8

\* While the MCCH has not been asked for, it is as long ago as the worker is from the end.
McchAsks(fl) == \E x \in Asks(fl) : IsMcch(x)

LEMMA McchNear ==
  ASSUME NEW t \in 0 .. Period - 1, NEW fl \in Seq(Busy), InLine(t, fl),
         NEW i \in DOMAIN fl, IsMcch(fl[i].t)
  PROVE  Since(t) = Len(fl) - i /\ Seen(t) \in Nat /\ Seen(t) <= Late /\ ~IsMcch(t)
  <1> DEFINE b == Len(fl) + 1 - i
  <1>1. fl[i].t \in 0 .. Period - 1 /\ b \in 1 .. NofWorkers /\ Len(fl) \in Nat /\ i \in Nat
    BY Places
  <1>2. (fl[i].t + b) % Period = t
    BY DEF InLine
  <1>3. Len(fl) - i = b - 1
    BY <1>1
  <1> HIDE DEF b
  <1>4. b \in 1 .. 4 /\ b - 1 \in 0 .. NofWorkers - 1
    BY <1>1, Frames
  <1>5. Since(t) = b - 1
    BY <1>1, <1>2, <1>4, SinceMcch
  <1>6. Seen(t) \in Nat /\ Seen(t) <= Late
    BY <1>4, <1>5, FewAmong DEF Seen
  <1>7. t \in Nat /\ Lap >= 10 /\ Lap \in Nat
    BY Frames, MchNumbers
  <1>8. ~IsMcch(t)
    <2>1. IsMcch(t) <=> Since(t) = Lap - 1
      BY <1>7, SinceIs
    <2> QED
      BY <1>4, <1>5, <1>7, <2>1, Frames
  <1> QED
    BY <1>3, <1>5, <1>6, <1>8

LEMMA OneMcchAsks ==
  ASSUME NEW t \in 0 .. Period - 1, NEW fl \in Seq(Busy), InLine(t, fl),
         NEW x \in Asks(fl), NEW y \in Asks(fl), IsMcch(x), IsMcch(y)
  PROVE  x = y
  <1>1. PICK i \in DOMAIN fl : fl[i].t = x
    BY AsksAre
  <1>2. PICK j \in DOMAIN fl : fl[j].t = y
    BY AsksAre
  <1>3. Since(t) = Len(fl) - i /\ Since(t) = Len(fl) - j
    BY <1>1, <1>2, McchNear
  <1>4. i \in Nat /\ j \in Nat /\ Len(fl) \in Nat
    BY Places
  <1>5. i = j
    BY <1>3, <1>4
  <1> QED
    BY <1>1, <1>2, <1>5

LEMMA AsksNew ==
  ASSUME Base, Dispatch
  PROVE  /\ Asks(inflight') = Asks(inflight) \cup (IF IsMch(tti) THEN {tti} ELSE {})
         /\ tti \notin Asks(inflight)
         /\ tti' = (tti + 1) % Period
  <1>1. /\ Len(inflight) < NofWorkers /\ inflight' = Append(inflight, New(tti))
        /\ tti' = (tti + 1) % Period
    BY DEF Dispatch, New
  <1>2. inflight \in Seq(Busy) /\ tti \in 0 .. Period - 1 /\ InLine(tti, inflight)
    BY DEF Base, Types
  <1>3. PICK gl : gl = inflight'
    OBVIOUS
  <1> DEFINE u == (tti + 1) % Period
             n == Len(inflight) + 1
  <1>4. /\ gl \in Seq(Busy) /\ Len(gl) = n
        /\ \A i \in 1 .. Len(inflight) : gl[i] = inflight[i]
        /\ gl[n] = New(tti) /\ u \in 0 .. Period - 1 /\ InLine(u, gl)
    BY <1>1, <1>2, <1>3, NewLine
  <1>5. /\ DOMAIN inflight = 1 .. Len(inflight) /\ Len(inflight) \in Nat
        /\ DOMAIN gl = 1 .. n /\ n \in DOMAIN gl
    BY <1>2, <1>4
  <1>6. gl[n].t = tti /\ gl[n].pc = "sched"
    BY <1>4 DEF New
  <1> HIDE DEF u
  <1>7. ASSUME NEW x PROVE x \in Asks(gl) <=> x \in Asks(inflight) \/ (IsMch(tti) /\ x = tti)
    <2>1. \A i \in DOMAIN gl : i \in DOMAIN inflight \/ i = n
      BY <1>5
    <2>2. \A i \in DOMAIN inflight : i \in DOMAIN gl /\ gl[i] = inflight[i]
      BY <1>4, <1>5
    <2> HIDE DEF n
    <2> QED
      BY <1>5, <1>6, <2>1, <2>2, AsksAre
  <1>8. Asks(gl) = Asks(inflight) \cup (IF IsMch(tti) THEN {tti} ELSE {})
    BY <1>7
  <1>9. ASSUME tti \in Asks(inflight) PROVE FALSE
    <2>1. PICK i \in DOMAIN inflight : inflight[i].t = tti
      BY <1>9, AsksAre
    <2>2. i \in DOMAIN gl /\ gl[i] = inflight[i] /\ i # n
      BY <1>4, <1>5, <2>1
    <2>3. gl[i].t = gl[n].t
      BY <1>6, <2>1, <2>2
    <2> HIDE DEF n
    <2>4. i = n
      BY <1>4, <1>5, <2>2, <2>3, OwnSubframe
    <2> QED
      BY <2>2, <2>4
  <1> QED
    BY <1>1, <1>3, <1>8, <1>9

LEMMA AsksKept ==
  ASSUME Base, NEW i \in 1 .. NofWorkers, Passes(i) \/ Encode(i)
  PROVE  Asks(inflight') = Asks(inflight) /\ tti' = tti
  <1>0. Types
    BY DEF Base
  <1>1. ASSUME NEW r, Goes(i, r), inflight[i].pc # "sched" \/ ~IsMch(r.t), r.pc # "sched"
        PROVE  Asks(inflight') = Asks(inflight) /\ tti' = tti
    <2>1. /\ tti' = tti /\ DOMAIN inflight' = DOMAIN inflight
          /\ i \in DOMAIN inflight /\ inflight'[i] = r /\ r.t = inflight[i].t
          /\ \A j \in DOMAIN inflight : j # i => inflight'[j] = inflight[j]
      BY <1>1, GoesBase
    <2>2. PICK gl : gl = inflight'
      OBVIOUS
    <2>3. \A x : x \in Asks(gl) <=> x \in Asks(inflight)
      BY <1>1, <2>1, <2>2, AsksAre
    <2> QED
      BY <2>1, <2>2, <2>3
  <1>2. CASE Passes(i)
    <2>1. PICK a \in Points, b \in Points \ {"sched", "end"} :
             GoesTo(i, a, b) /\ (a = "sched" => ~IsMch(inflight[i].t))
      BY <1>0, <1>2, PassesIs
    <2>2. PICK r \in Busy : Goes(i, r) /\ inflight[i].pc = a /\ r.pc = b
      BY <2>1 DEF GoesTo
    <2>3. r.t = inflight[i].t
      BY <2>2 DEF Goes
    <2> QED
      BY <1>1, <2>1, <2>2, <2>3
  <1>4. CASE Encode(i)
    <2>1. PICK gl : gl = inflight'
      OBVIOUS
    <2>2. gl \in Seq(Busy) /\ tti' = tti /\ inflight \in Seq(Busy)
      BY <1>0, <1>4, <2>1, EncodeBase DEF Types
    <2>3. PICK d \in Nat :
              /\ Moved(inflight, gl, d)
              /\ \A j \in DOMAIN gl :
                   /\ j + d \in DOMAIN inflight
                   /\ gl[j].t = inflight[j + d].t
                   /\ \/ gl[j].pc = inflight[j + d].pc
                      \/ gl[j].pc = "end" /\ inflight[j + d].pc = "encode"
              /\ \A j \in 1 .. d : inflight[j].pc \in {"encode", "end"}
      BY <1>4, <2>1, EncodeBase
    <2>4. ASSUME NEW x \in Asks(gl) PROVE x \in Asks(inflight)
      <3>1. PICK j \in DOMAIN gl : gl[j].pc = "sched" /\ IsMch(gl[j].t) /\ gl[j].t = x
        BY <2>4, AsksAre
      <3>2. j + d \in DOMAIN inflight /\ inflight[j + d].t = gl[j].t /\ inflight[j + d].pc = "sched"
        BY <2>3, <3>1
      <3> QED
        BY <3>1, <3>2, AsksAre
    <2>5. ASSUME NEW x \in Asks(inflight) PROVE x \in Asks(gl)
      <3>1. PICK j \in DOMAIN inflight :
              inflight[j].pc = "sched" /\ IsMch(inflight[j].t) /\ inflight[j].t = x
        BY <2>5, AsksAre
      <3>2. j \in 1 .. Len(inflight) /\ ~(j \in 1 .. d)
        <4>1. inflight[j].pc \notin {"encode", "end"}
          BY <3>1
        <4>2. \A m \in 1 .. d : inflight[m].pc \in {"encode", "end"}
          BY <2>3
        <4>3. DOMAIN inflight = 1 .. Len(inflight)
          BY <2>2
        <4> QED
          BY <4>1, <4>2, <4>3, Zenon
      <3>3. j - d \in DOMAIN gl /\ (j - d) + d = j
        BY <2>2, <2>3, <3>2 DEF Moved
      <3>4. gl[j - d].t = inflight[j].t /\ gl[j - d].pc = "sched"
        BY <2>3, <3>1, <3>3
      <3> QED
        BY <3>1, <3>3, <3>4, AsksAre
    <2> QED
      BY <2>1, <2>2, <2>4, <2>5
  <1> QED
    BY <1>2, <1>4

LEMMA AsksMet ==
  ASSUME Base, NEW i \in 1 .. NofWorkers, GetMcch(i) \/ GetMch(i)
  PROVE  /\ inflight[i].t \in Asks(inflight) /\ tti' = tti
         /\ Asks(inflight') = Asks(inflight) \ {inflight[i].t}
  <1>0. Types /\ inflight \in Seq(Busy) /\ tti \in 0 .. Period - 1 /\ InLine(tti, inflight)
    BY DEF Base, Types
  <1>1. PICK r : Goes(i, r) /\ inflight[i].pc = "sched" /\ r.pc = "ul" /\ IsMch(r.t)
    BY <1>0, MchIs DEF Goes, GoesTo
  <1>2. /\ tti' = tti /\ DOMAIN inflight' = DOMAIN inflight
        /\ i \in DOMAIN inflight /\ inflight'[i] = r /\ r.t = inflight[i].t
        /\ \A j \in DOMAIN inflight : j # i => inflight'[j] = inflight[j]
    BY <1>1, GoesBase
  <1>3. PICK gl : gl = inflight'
    OBVIOUS
  <1>4. ASSUME NEW x \in Asks(gl) PROVE x \in Asks(inflight) /\ x # inflight[i].t
    <2>1. PICK j \in DOMAIN inflight : gl[j].pc = "sched" /\ IsMch(gl[j].t) /\ gl[j].t = x
      BY <1>2, <1>3, <1>4, AsksAre
    <2>2. j # i /\ gl[j] = inflight[j]
      BY <1>1, <1>2, <1>3, <2>1
    <2>3. x # inflight[i].t
      BY <1>0, <1>2, <2>1, <2>2, OwnSubframe
    <2> QED
      BY <2>1, <2>2, <2>3, AsksAre
  <1>5. ASSUME NEW x \in Asks(inflight), x # inflight[i].t PROVE x \in Asks(gl)
    <2>1. PICK j \in DOMAIN inflight :
            inflight[j].pc = "sched" /\ IsMch(inflight[j].t) /\ inflight[j].t = x
      BY <1>5, AsksAre
    <2>2. gl[j] = inflight[j] /\ j \in DOMAIN gl
      BY <1>2, <1>3, <1>5, <2>1
    <2> QED
      BY <2>1, <2>2, AsksAre
  <1>6. inflight[i].t \in Asks(inflight)
    BY <1>1, <1>2, AsksAre
  <1> QED
    BY <1>2, <1>3, <1>4, <1>5, <1>6

-----------------------------------------------------------------------------
(* MBMS: the sessions are read in the order of their stops.                *)

MbTypes == mch \in [stop : [Sessions -> Nat], cur : Nat]
           /\ fits \subseteq Sessions /\ served \subseteq Sessions

\* mac::mch.current_sf_allocation_num is one more than the MCH subframes since the MCCH, but for
\* the workers that have not asked yet and those that asked before the one of the MCCH; while
\* that one has not asked, the same of the period that it ends.
CurCount(cur, fl, t) ==
    IF McchAsks(fl) THEN cur + Late + Cardinality(Asks(fl)) - 1 >= Mchs
    ELSE cur + Late + Cardinality(Asks(fl)) >= Seen(t) + 1

StopOrder(stop) == \A j, k \in Sessions : j <= k => stop[j] <= stop[k]

\* A session with data has a subframe before the next MCCH and is read in the first one it has.
ReadFrom(stop, cur, k) ==
    /\ From(stop, k) < stop[k] /\ From(stop, k) + 1 < Turns
    /\ cur > From(stop, k) + 1 => k \in served

MbInv ==
    /\ MbTypes /\ StopOrder(mch.stop)
    /\ fits # {} => CurCount(mch.cur, inflight, tti)
    /\ \A k \in fits : ReadFrom(mch.stop, mch.cur, k)

Open(stop, cur) == {k \in Sessions : cur <= stop[k]}

LEMMA FirstOpen ==
  ASSUME NEW stop, NEW cur, cur <= stop[NofSessions - 1]
  PROVE  /\ Min(Open(stop, cur)) \in Open(stop, cur)
         /\ \A k \in Open(stop, cur) : Min(Open(stop, cur)) <= k
  <1>1. Open(stop, cur) \in SUBSET Nat /\ Open(stop, cur) # {}
    BY SessionNumbers DEF Open
  <1>2. \E n \in Open(stop, cur) : \A k \in Open(stop, cur) : n <= k
    BY <1>1, LeastNat
  <1> QED
    BY <1>2, Zenon DEF Min

LEMMA MbTypesNext ==
  ASSUME MbTypes, [Next]_vars
  PROVE  MbTypes'
  <1>1. CASE UNCHANGED mbms
    BY <1>1 DEF mbms, MbTypes
  <1>2. ASSUME NEW i \in 1 .. NofWorkers, GetMcch(i) PROVE MbTypes'
    <2>1. PICK bytes \in [Sessions -> Backlogs] :
            /\ mch' = [stop |-> Stops(bytes), cur |-> 1]
            /\ fits' = IF Total(bytes) < SfAllocEnd * BytesPerSf
                       THEN {k \in Sessions : bytes[k] > 0} ELSE {}
      BY <1>2 DEF GetMcch, Scheduled
    <2>2. Stops(bytes) \in [Sessions -> Nat]
      BY StopsOrdered
    <2>3. served' = {}
      BY <1>2 DEF GetMcch
    <2> QED
      BY <2>1, <2>2, <2>3 DEF MbTypes
  <1>3. ASSUME NEW i \in 1 .. NofWorkers, GetMch(i) PROVE MbTypes'
    <2>1. /\ mch' = [mch EXCEPT !.cur = @ + 1] /\ fits' = fits
          /\ served' = IF mch.cur <= mch.stop[NofSessions - 1]
                       THEN served \union {Min(Open(mch.stop, mch.cur))} ELSE served
      BY <1>3 DEF GetMch, Scheduled, Open
    <2>2. mch.cur <= mch.stop[NofSessions - 1] => Min(Open(mch.stop, mch.cur)) \in Sessions
      BY FirstOpen DEF Open
    <2>3. served' \subseteq Sessions
      BY <2>1, <2>2 DEF MbTypes
    <2> QED
      BY <2>1, <2>3 DEF MbTypes
  <1>4. ASSUME Dispatch \/ (\E u \in UeIds : AddPagingId(u))
               \/ (\E i \in 1 .. NofWorkers : Passes(i) \/ Encode(i))
               \/ UNCHANGED vars
        PROVE  MbTypes'
    <2>1. UNCHANGED mbms
      BY <1>4 DEF Dispatch, AddPagingId, Passes, EnterDl, SiWindows, SiMessages, Paging,
                  GetDlSched, EnterUl, UlSched, Encode, vars, mbms
    <2> QED
      BY <1>1, <2>1
  <1> QED
    BY <1>2, <1>3, <1>4 DEF Next, Worker, Passes

LEMMA MbDispatch ==
  ASSUME Base, MbInv, Dispatch
  PROVE  MbInv'
  <1>0. inflight \in Seq(Busy) /\ tti \in 0 .. Period - 1 /\ InLine(tti, inflight)
    BY DEF Base, Types
  <1>1. PICK gl, u, c : gl = inflight' /\ u = tti' /\ c = mch.cur
    OBVIOUS
  <1>2. mch' = mch /\ fits' = fits /\ served' = served
    BY DEF Dispatch, mbms
  <1> DEFINE A == Asks(inflight)
             a == Cardinality(A)
             b == Cardinality(Asks(gl))
  <1>3. /\ Asks(gl) = A \cup (IF IsMch(tti) THEN {tti} ELSE {})
        /\ tti \notin A /\ u = (tti + 1) % Period
    BY <1>1, AsksNew
  <1>4. /\ Seen(tti) \in Nat
        /\ IF IsMcch(tti) THEN Seen(tti) = Mchs - 1 /\ Seen(u) = 0
           ELSE Seen(u) = Seen(tti) + (IF IsMch(tti) THEN 1 ELSE 0)
    BY <1>0, <1>3, SeenNext
  <1>5. /\ IsMcch(tti) => IsMch(tti)
        /\ Mchs \in Nat /\ Late \in Nat
    BY MchNumbers, LateNumbers DEF IsMch
  <1>6. IsFiniteSet(A) /\ a \in Nat
    BY <1>0, FewAsk
  <1>7. b = a + (IF IsMch(tti) THEN 1 ELSE 0)
    BY <1>3, <1>6, FS_AddElement
  <1>8. McchAsks(gl) <=> McchAsks(inflight) \/ IsMcch(tti)
    BY <1>3, <1>5 DEF McchAsks
  <1>9. IsMcch(tti) => ~McchAsks(inflight)
    <2>1. ASSUME NEW x \in A, IsMcch(x) PROVE ~IsMcch(tti)
      <3>1. PICK i \in DOMAIN inflight : inflight[i].t = x
        BY AsksAre
      <3> QED
        BY <1>0, <2>1, <3>1, McchNear
    <2> QED
      BY <2>1 DEF McchAsks
  <1>10. ASSUME fits # {} PROVE CurCount(mch.cur, gl, u)
    <2>1. /\ IF McchAsks(inflight) THEN c + Late + a - 1 >= Mchs
             ELSE c + Late + a >= Seen(tti) + 1
          /\ c \in Nat
      BY <1>1, <1>10 DEF MbInv, CurCount, MbTypes
    <2> HIDE DEF a, b, A
    <2>2. IF McchAsks(gl) THEN c + Late + b - 1 >= Mchs ELSE c + Late + b >= Seen(u) + 1
      <3>1. CASE IsMcch(tti)
        BY <1>4, <1>5, <1>6, <1>7, <1>8, <1>9, <2>1, <3>1
      <3>2. CASE ~IsMcch(tti)
        BY <1>4, <1>5, <1>6, <1>7, <1>8, <2>1, <3>2
      <3> QED
        BY <3>1, <3>2
    <2> QED
      BY <1>1, <2>2 DEF CurCount, b
  <1> QED
    BY <1>1, <1>2, <1>10 DEF MbInv, MbTypes, StopOrder, ReadFrom, From

\* get_mch_sched of an MCCH subframe.
LEMMA MbMcch ==
  ASSUME SessionsFit, Base, MbInv, NEW i \in 1 .. NofWorkers, GetMcch(i)
  PROVE  MbInv' /\ fits \subseteq served
  <1>0. inflight \in Seq(Busy) /\ tti \in 0 .. Period - 1 /\ InLine(tti, inflight)
    BY DEF Base, Types
  <1> DEFINE x == inflight[i].t
  <1>1. /\ x \in Asks(inflight) /\ Asks(inflight') = Asks(inflight) \ {x} /\ tti' = tti
        /\ IsMcch(x) /\ i \in DOMAIN inflight
    BY AsksMet DEF GetMcch, At
  <1>2. Seen(tti) \in Nat /\ Seen(tti) <= Late /\ Late \in Nat /\ Mchs \in Nat
    <2>1. Late \in Nat /\ Mchs \in Nat
      BY LateNumbers, MchNumbers
    <2>2. Seen(tti) \in Nat /\ Seen(tti) <= Late
      BY <1>0, <1>1, McchNear
    <2> QED
      BY <2>1, <2>2
  <1>3. PICK gl, m : gl = inflight' /\ m = mch'
    OBVIOUS
  <1>4. PICK bytes \in [Sessions -> Backlogs] :
          /\ m = [stop |-> Stops(bytes), cur |-> 1]
          /\ fits' = IF Total(bytes) < SfAllocEnd * BytesPerSf
                     THEN {k \in Sessions : bytes[k] > 0} ELSE {}
    BY <1>3 DEF GetMcch, Scheduled
  <1>5. m.stop = Stops(bytes) /\ m.cur = 1 /\ served' = {}
    BY <1>4 DEF GetMcch
  <1>6. Stops(bytes) \in [Sessions -> Nat] /\ StopOrder(Stops(bytes))
    BY StopsOrdered DEF StopOrder
  <1>7. MbTypes'
    <2>1. Next
      BY DEF Next, Worker
    <2> QED
      BY <2>1, MbTypesNext DEF MbInv
  <1>8. CurCount(m.cur, gl, tti)
    <2>1. ~McchAsks(gl)
      <3>1. ASSUME NEW y \in Asks(gl), IsMcch(y) PROVE FALSE
        <4>1. y \in Asks(inflight) /\ y # x
          BY <1>1, <1>3, <3>1
        <4> HIDE DEF x
        <4>2. y = x
          BY <1>0, <1>1, <3>1, <4>1, OneMcchAsks
        <4> QED
          BY <4>1, <4>2
      <3> QED
        BY <3>1 DEF McchAsks
    <2>2. Cardinality(Asks(gl)) \in Nat
      <3>1. IsFiniteSet(Asks(inflight)) /\ Asks(gl) \subseteq Asks(inflight)
        BY <1>0, <1>1, <1>3, FewAsk
      <3> QED
        BY <3>1, FS_Subset, FS_CardinalityType
    <2>3. m.cur + Late + Cardinality(Asks(gl)) >= Seen(tti) + 1
      BY <1>2, <1>5, <2>2
    <2> QED
      BY <2>1, <2>3 DEF CurCount
  <1>9. ASSUME NEW k \in fits'
        PROVE  /\ From(m.stop, k) < m.stop[k] /\ From(m.stop, k) + 1 < Turns
               /\ ~(m.cur > From(m.stop, k) + 1)
    <2>1. k \in Sessions /\ bytes[k] > 0 /\ Total(bytes) < SfAllocEnd * BytesPerSf
      BY <1>4, <1>9
    <2>2. From(m.stop, k) < m.stop[k] /\ From(m.stop, k) + 1 < Turns
      BY <1>5, <2>1, StopsFit
    <2>3. From(m.stop, k) \in Nat
      BY <1>5, <1>6, <2>1, SessionNumbers DEF From
    <2> QED
      BY <1>5, <2>2, <2>3
  <1>10. ASSUME NEW k \in fits PROVE k \in served
    <2> DEFINE a == Cardinality(Asks(inflight))
               c == mch.cur
               f == From(mch.stop, k)
    <2>1. c + Late + a - 1 >= Mchs
      <3>1. McchAsks(inflight)
        BY <1>1 DEF McchAsks
      <3> QED
        BY <1>10, <3>1 DEF MbInv, CurCount
    <2>2. f + 1 < Turns /\ (c > f + 1 => k \in served)
      BY <1>10 DEF MbInv, ReadFrom
    <2>3. k \in Sessions /\ mch.stop \in [Sessions -> Nat] /\ c \in Nat
      BY <1>10 DEF MbInv, MbTypes
    <2>4. f \in Nat
      BY <2>3, SessionNumbers DEF From
    <2>5. a \in Nat /\ a <= Late + 1
      BY <1>0, FewAsk
    <2>6. Turns = Mchs - 2 * Late
      BY LateNumbers
    <2> HIDE DEF a, c, f
    <2> QED
      BY <1>2, <2>1, <2>2, <2>3, <2>4, <2>5, <2>6
  <1>11. StopOrder(mch.stop)'
    BY <1>3, <1>5, <1>6 DEF StopOrder
  <1>12. (fits # {} => CurCount(mch.cur, inflight, tti))'
    BY <1>1, <1>3, <1>8
  <1>13. (\A k \in fits : ReadFrom(mch.stop, mch.cur, k))'
    BY <1>3, <1>9 DEF ReadFrom, From
  <1> QED
    BY <1>7, <1>10, <1>11, <1>12, <1>13 DEF MbInv

\* get_mch_sched of another MCH subframe: the session whose first subframe it is, is read.
LEMMA MbMch ==
  ASSUME Base, MbInv, NEW i \in 1 .. NofWorkers, GetMch(i)
  PROVE  MbInv'
  <1>0. inflight \in Seq(Busy) /\ tti \in 0 .. Period - 1 /\ InLine(tti, inflight)
    BY DEF Base, Types
  <1> DEFINE x == inflight[i].t
  <1>1. /\ x \in Asks(inflight) /\ Asks(inflight') = Asks(inflight) \ {x} /\ tti' = tti
        /\ ~IsMcch(x) /\ fits' = fits
    BY AsksMet DEF GetMch
  <1>2. PICK gl, m, c, stop : gl = inflight' /\ m = mch' /\ c = mch.cur /\ stop = mch.stop
    OBVIOUS
  <1> DEFINE open == Open(stop, c)
             last == stop[NofSessions - 1]
  <1>3. m.cur = c + 1 /\ m.stop = stop /\ c \in Nat /\ stop \in [Sessions -> Nat]
    BY <1>2 DEF GetMch, Scheduled, MbInv, MbTypes
  <1>4. served' = IF c <= last THEN served \union {Min(open)} ELSE served
    BY <1>2 DEF GetMch, Open
  <1>5. StopOrder(stop) /\ fits \subseteq Sessions
    BY <1>2 DEF MbInv, MbTypes
  <1>6. NofSessions - 1 \in Sessions /\ Sessions \subseteq Nat /\ \A k \in Sessions : k <= NofSessions - 1
    BY SessionNumbers
  <1>7. ASSUME c <= last
        PROVE  Min(open) \in open /\ \A k \in open : Min(open) <= k
    BY <1>7, FirstOpen
  <1>8. served \subseteq served'
    <2> HIDE DEF open, last
    <2> QED
      BY <1>4
  <1>9. fits # {} => CurCount(m.cur, gl, tti)
    <2> DEFINE a == Cardinality(Asks(inflight))
               b == Cardinality(Asks(gl))
    <2>1. McchAsks(gl) <=> McchAsks(inflight)
      BY <1>1, <1>2 DEF McchAsks
    <2>2. a \in Nat /\ b = a - 1
      <3>1. IsFiniteSet(Asks(inflight)) /\ a \in Nat
        BY <1>0, FewAsk
      <3> HIDE DEF x
      <3> QED
        BY <1>1, <1>2, <3>1, FS_RemoveElement
    <2>3. fits # {} => IF McchAsks(inflight) THEN c + Late + a - 1 >= Mchs
                       ELSE c + Late + a >= Seen(tti) + 1
      BY <1>2 DEF MbInv, CurCount
    <2>4. Late \in Nat
      BY LateNumbers
    <2> HIDE DEF a
    <2>5. c + Late + a = (c + 1) + Late + b
      BY <1>3, <2>2, <2>4
    <2> HIDE DEF b
    <2>6. c \in Nat /\ Mchs \in Nat
      BY <1>3, MchNumbers
    <2>7. fits # {} => IF McchAsks(gl) THEN (c + 1) + Late + b - 1 >= Mchs
                       ELSE (c + 1) + Late + b >= Seen(tti) + 1
      BY <2>1, <2>2, <2>3, <2>4, <2>5, <2>6
    <2> QED
      BY <1>3, <2>7 DEF CurCount, b
  <1>10. ASSUME NEW k \in fits
         PROVE  /\ From(stop, k) < stop[k] /\ From(stop, k) + 1 < Turns
                /\ c + 1 > From(stop, k) + 1 => k \in served'
    <2>1. /\ From(stop, k) < stop[k] /\ From(stop, k) + 1 < Turns
          /\ c > From(stop, k) + 1 => k \in served
      BY <1>2, <1>10 DEF MbInv, ReadFrom
    <2>2. k \in Sessions /\ stop[k] \in Nat /\ From(stop, k) \in Nat
      BY <1>3, <1>5, <1>10, SessionNumbers DEF From
    <2>3. ASSUME c = From(stop, k) + 1 PROVE k \in served'
      <3>1. c <= stop[k]
        BY <2>1, <2>2, <2>3
      <3>2. stop[k] <= last /\ last \in Nat
        BY <1>3, <1>5, <1>6, <2>2 DEF StopOrder
      <3>3. c <= last
        BY <1>3, <2>2, <3>1, <3>2
      <3>4. k \in open
        BY <2>2, <3>1 DEF Open
      <3>5. ASSUME NEW j \in open, j < k PROVE FALSE
        <4>1. j \in Sessions /\ j \in Nat /\ k \in Nat /\ c <= stop[j]
          BY <1>6, <2>2 DEF Open
        <4>2. k - 1 \in Sessions /\ j <= k - 1 /\ k # 0
          BY <2>2, <3>5, <4>1, SessionNumbers
        <4>3. stop[j] <= stop[k - 1] /\ From(stop, k) = stop[k - 1]
          BY <1>5, <4>1, <4>2 DEF StopOrder, From
        <4>4. stop[j] \in Nat /\ stop[k - 1] \in Nat
          BY <1>3, <4>1, <4>2
        <4> QED
          BY <1>3, <2>3, <4>1, <4>3, <4>4
      <3>6. Min(open) = k
        <4> DEFINE n == Min(open)
        <4>1. n \in open /\ n <= k
          BY <1>7, <3>3, <3>4
        <4>2. n \in Nat /\ k \in Nat
          BY <1>6, <2>2, <4>1 DEF Open
        <4> HIDE DEF n, open
        <4>3. ~(n < k)
          BY <3>5, <4>1
        <4>4. n = k
          BY <4>1, <4>2, <4>3
        <4> QED
          BY <4>4 DEF n
      <3> HIDE DEF open, last
      <3> QED
        BY <1>4, <3>3, <3>6
    <2>4. c + 1 > From(stop, k) + 1 => c > From(stop, k) + 1 \/ c = From(stop, k) + 1
      BY <1>3, <2>2
    <2> QED
      BY <1>8, <2>1, <2>3, <2>4
  <1>11. StopOrder(mch.stop)'
    BY <1>2, <1>3, <1>5 DEF StopOrder
  <1>12. (fits # {} => CurCount(mch.cur, inflight, tti))'
    BY <1>1, <1>2, <1>9
  <1>13. (\A k \in fits : ReadFrom(mch.stop, mch.cur, k))'
    BY <1>1, <1>2, <1>3, <1>10 DEF ReadFrom, From
  <1>14. MbTypes'
    <2>1. Next
      BY DEF Next, Worker
    <2> QED
      BY <2>1, MbTypesNext DEF MbInv
  <1> QED
    BY <1>11, <1>12, <1>13, <1>14 DEF MbInv

LEMMA MbNext ==
  ASSUME SessionsFit, Base, MbInv, [Next]_vars
  PROVE  MbInv'
  <1>1. ASSUME Asks(inflight') = Asks(inflight), tti' = tti, UNCHANGED mbms
        PROVE  MbInv'
    <2>1. PICK gl : gl = inflight'
      OBVIOUS
    <2>2. fits # {} => CurCount(mch.cur, gl, tti)
      BY <1>1, <2>1 DEF MbInv, CurCount, McchAsks
    <2> QED
      BY <1>1, <2>1, <2>2 DEF MbInv, MbTypes, StopOrder, ReadFrom, From, mbms
  <1>2. CASE Dispatch
    BY <1>2, MbDispatch
  <1>3. ASSUME NEW u \in UeIds, AddPagingId(u) PROVE MbInv'
    <2>1. inflight' = inflight /\ tti' = tti /\ UNCHANGED mbms
      BY <1>3 DEF AddPagingId
    <2> QED
      BY <1>1, <2>1
  <1>4. ASSUME NEW i \in 1 .. NofWorkers, Passes(i) \/ Encode(i) PROVE MbInv'
    <2>1. UNCHANGED mbms
      BY <1>4 DEF Passes, EnterDl, SiWindows, SiMessages, Paging, GetDlSched, EnterUl, UlSched,
                  Encode
    <2>2. Asks(inflight') = Asks(inflight) /\ tti' = tti
      BY <1>4, AsksKept
    <2> QED
      BY <1>1, <2>1, <2>2
  <1>5. ASSUME NEW i \in 1 .. NofWorkers, GetMcch(i) \/ GetMch(i) PROVE MbInv'
    BY <1>5, MbMcch, MbMch
  <1>6. CASE UNCHANGED vars
    <2>1. inflight' = inflight /\ tti' = tti /\ UNCHANGED mbms
      BY <1>6 DEF vars, mbms
    <2> QED
      BY <1>1, <2>1
  <1> QED
    BY <1>2, <1>3, <1>4, <1>5, <1>6 DEF Next, Worker, Passes

LEMMA MbInit == Init => MbInv
  <1> SUFFICES ASSUME Init PROVE MbInv
    OBVIOUS
  <1>1. /\ fits = {} /\ served = {}
        /\ mch = [stop |-> [k \in Sessions |-> 0], cur |-> 0]
    BY DEF Init
  <1>2. MbTypes /\ StopOrder(mch.stop)
    BY <1>1 DEF MbTypes, StopOrder
  <1> QED
    BY <1>1, <1>2 DEF MbInv

\* get_mch_sched (mac.cc:689) reads every session that build_mch_sched (mac.cc:655) found data for
\* before the next MCCH if all of it fits, in whatever order the workers call it.
THEOREM AllSessionsServed ==
  ASSUME SessionsFit
  PROVE  Spec => SessionsServed
  <1>1. Init => Base /\ MbInv
    BY BaseInit, MbInit
  <1>2. Base /\ MbInv /\ [Next]_vars => (Base /\ MbInv)'
    BY BaseNext, MbNext
  <1>3. Base /\ MbInv /\ [Next]_vars =>
          [\A i \in 1 .. NofWorkers : GetMcch(i) => fits \subseteq served]_vars
    BY MbMcch
  <1> QED
    BY <1>1, <1>2, <1>3, PTL DEF Spec, SessionsServed

\* Every variable keeps its type: the shares and stops of mac.cc 655-686 are natural numbers
\* whatever RLC reports, and no window counts a fifth transmission.
THEOREM BroadcastTypeCorrect == Spec => []TypeOK
  <1>1. Init => Base /\ MbTypes
    BY BaseInit, MbInit DEF MbInv
  <1>2. Base /\ MbTypes /\ [Next]_vars => (Base /\ MbTypes)'
    BY BaseNext, MbTypesNext
  <1>3. Base /\ MbTypes => TypeOK
    BY DEF Base, Types, Busy, MbTypes, TypeOK
  <1> QED
    BY <1>1, <1>2, <1>3, PTL DEF Spec

(***************************************************************************)
(* PUCCH resources, for any number of users, slots and users per slot.     *)
(* Everything RRC does to a pool is Place or Free, so the inductive        *)
(* invariant is PoolInv of each pool and a lemma for each of the two.      *)
(***************************************************************************)
Counts(P, k) == \A s \in SlotsOf(k) : P.nof[s] = Cardinality(Holders(P, s)) + P.lost[s]

\* In a slot nobody has left, the positions are below the counter and differ.
Positions(P, k) ==
  \A s \in SlotsOf(k) \ P.freed : \A u \in User : P.at[u] = s =>
    /\ P.pos[u] < P.nof[s]
    /\ \A v \in User : P.at[v] = s /\ v # u => P.pos[v] # P.pos[u]

PoolInv(P, k) ==
  /\ P \in PoolType(k)
  /\ Counts(P, k)
  /\ Positions(P, k)
  /\ \A u \in User : P.pos[u] <= MaxUsers

PoolsInv ==
  /\ users \subseteq User
  /\ DOMAIN pool = Kind /\ pool = [k \in Kind |-> pool[k]]
  /\ \A k \in Kind : PoolInv(pool[k], k)
  /\ \A k \in Kind : \A u \in User : pool[k].at[u] # NoSlot => u \in users

(***************************************************************************)
(* Slots and holders.                                                      *)
(***************************************************************************)
LEMMA NoSlotIsNone == \A k \in Kind : NoSlot \notin SlotsOf(k)
<1>1. \A i \in Nat, j \in Nat : <<-1, -1>> \notin (0..i - 1) \X (0..j - 1)
  BY SMT
<1> QED BY <1>1, PucchAssumption, SMT DEF NoSlot, SlotsOf

LEMMA SlotParts == \A k \in Kind : \A s \in SlotsOf(k) : s = <<s[1], s[2]>> /\ s[1] \in Nat /\ s[2] \in Nat
<1>1. \A i \in Nat, j \in Nat : \A s \in (0..i - 1) \X (0..j - 1) :
        s = <<s[1], s[2]>> /\ s[1] \in Nat /\ s[2] \in Nat
  BY SMT
<1> QED BY <1>1, PucchAssumption, SMT DEF SlotsOf

LEMMA HoldersFinite == \A P, s : IsFiniteSet(Holders(P, s)) /\ Cardinality(Holders(P, s)) \in Nat
<1> TAKE P, s
<1>1. Holders(P, s) \subseteq User
  BY Zenon DEF Holders
<1>2. IsFiniteSet(Holders(P, s))
  BY <1>1, PucchAssumption, FS_Subset, Zenon
<1> QED BY <1>2, FS_CardinalityType, Zenon

(***************************************************************************)
(* A user placed in a slot.                                                *)
(***************************************************************************)
\* The counter of s grows with its holders; so does that of no other slot.  If u
\* had a slot, that slot loses a holder and gains a lost place.
LEMMA PlaceCounts ==
  ASSUME NEW k \in Kind, NEW P \in PoolType(k), Counts(P, k),
         NEW u \in User, NEW s \in SlotsOf(k)
  PROVE  Counts(Place(P, u, s), k)
<1> DEFINE Q == Place(P, u, s)
<1>1. SUFFICES ASSUME NEW t \in SlotsOf(k)
               PROVE  Q.nof[t] = Cardinality(Holders(Q, t)) + Q.lost[t]
  BY DEF Counts
<1>2. /\ P.at \in [User -> SlotsOf(k) \cup {NoSlot}]
      /\ P.nof \in [SlotsOf(k) -> Nat] /\ P.lost \in [SlotsOf(k) -> Nat]
  BY DEF PoolType
<1>3. P.nof[t] = Cardinality(Holders(P, t)) + P.lost[t]
  BY DEF Counts
<1>4. /\ IsFiniteSet(Holders(P, t)) /\ Cardinality(Holders(P, t)) \in Nat
      /\ P.nof[t] \in Nat /\ P.lost[t] \in Nat
  BY <1>2, HoldersFinite
<1>5. /\ Q.nof[t] = IF t = s THEN P.nof[t] + 1 ELSE P.nof[t]
      /\ Q.lost[t] = IF t = P.at[u] THEN P.lost[t] + 1 ELSE P.lost[t]
  BY <1>2 DEF Place
<1>6. Holders(Q, t) = IF t = s THEN Holders(P, t) \cup {u} ELSE Holders(P, t) \ {u}
  BY <1>2 DEF Holders, Place
<1>7. u \in Holders(P, t) <=> t = P.at[u]
  BY DEF Holders
<1>8. Cardinality(Holders(P, t) \cup {u})
        = IF u \in Holders(P, t) THEN Cardinality(Holders(P, t)) ELSE Cardinality(Holders(P, t)) + 1
  BY <1>4, FS_AddElement
<1>9. Cardinality(Holders(P, t) \ {u})
        = IF u \in Holders(P, t) THEN Cardinality(Holders(P, t)) - 1 ELSE Cardinality(Holders(P, t))
  BY <1>4, FS_RemoveElement
<1> HIDE DEF Q
<1> DEFINE n == Cardinality(Holders(P, t))
<1>10. Cardinality(Holders(Q, t)) = IF t = s THEN (IF t = P.at[u] THEN n ELSE n + 1)
                                             ELSE (IF t = P.at[u] THEN n - 1 ELSE n)
  BY <1>6, <1>7, <1>8, <1>9
<1> QED BY <1>3, <1>4, <1>5, <1>10

LEMMA PlaceKeeps ==
  ASSUME NEW k \in Kind, NEW P, PoolInv(P, k),
         NEW u \in User, NEW s \in SlotsOf(k), P.nof[s] <= MaxUsers
  PROVE  PoolInv(Place(P, u, s), k)
<1> DEFINE Q == Place(P, u, s)
<1>1. P \in PoolType(k)
  BY DEF PoolInv
<1>2. /\ P.at \in [User -> SlotsOf(k) \cup {NoSlot}] /\ P.pos \in [User -> Nat]
      /\ P.nof \in [SlotsOf(k) -> Nat] /\ P.lost \in [SlotsOf(k) -> Nat]
      /\ P.freed \subseteq SlotsOf(k)
  BY <1>1 DEF PoolType
<1>3. Q \in PoolType(k)
  BY <1>2 DEF Place, PoolType
<1>4. Counts(Q, k)
  BY <1>1, PlaceCounts DEF PoolInv
<1>5. Positions(Q, k)
  <2>1. SUFFICES ASSUME NEW t \in SlotsOf(k) \ P.freed, NEW v \in User, Q.at[v] = t
                 PROVE  /\ Q.pos[v] < Q.nof[t]
                        /\ \A w \in User : Q.at[w] = t /\ w # v => Q.pos[w] # Q.pos[v]
    BY DEF Positions, Place
  <2>2. \A w \in User : /\ Q.at[w] = IF w = u THEN s ELSE P.at[w]
                        /\ Q.pos[w] = IF w = u THEN P.nof[s] ELSE P.pos[w]
    BY <1>2 DEF Place
  <2>3. Q.nof[t] = IF t = s THEN P.nof[t] + 1 ELSE P.nof[t]
    BY <1>2 DEF Place
  <2>4. \A w \in User : P.at[w] = t =>
          P.pos[w] < P.nof[t] /\ \A x \in User : P.at[x] = t /\ x # w => P.pos[x] # P.pos[w]
    BY DEF PoolInv, Positions
  <2>5. P.nof[t] \in Nat /\ \A w \in User : P.pos[w] \in Nat
    BY <1>2
  <2> QED BY <2>1, <2>2, <2>3, <2>4, <2>5
<1>6. \A v \in User : Q.pos[v] <= MaxUsers
  BY <1>2 DEF PoolInv, Place
<1> QED BY <1>3, <1>4, <1>5, <1>6 DEF PoolInv

(***************************************************************************)
(* A user removed.                                                         *)
(***************************************************************************)
LEMMA FreeCounts ==
  ASSUME NEW k \in Kind, NEW P \in PoolType(k), Counts(P, k), NEW u \in User
  PROVE  Counts(Free(P, u), k)
<1> DEFINE Q == Free(P, u)
<1>1. SUFFICES ASSUME NEW t \in SlotsOf(k)
               PROVE  Q.nof[t] = Cardinality(Holders(Q, t)) + Q.lost[t]
  BY DEF Counts
<1>2. /\ P.at \in [User -> SlotsOf(k) \cup {NoSlot}]
      /\ P.nof \in [SlotsOf(k) -> Nat] /\ P.lost \in [SlotsOf(k) -> Nat]
  BY DEF PoolType
<1>3. P.nof[t] = Cardinality(Holders(P, t)) + P.lost[t]
  BY DEF Counts
<1>4. /\ IsFiniteSet(Holders(P, t)) /\ Cardinality(Holders(P, t)) \in Nat
      /\ P.nof[t] \in Nat /\ P.lost[t] \in Nat
  BY <1>2, HoldersFinite
<1>5. /\ Q.nof[t] = IF t = P.at[u] /\ P.nof[t] > 0 THEN P.nof[t] - 1 ELSE P.nof[t]
      /\ Q.lost[t] = P.lost[t]
  BY <1>2 DEF Free
<1>6. Holders(Q, t) = Holders(P, t) \ {u}
  <2>1. t # NoSlot
    BY NoSlotIsNone
  <2> QED BY <1>2, <2>1 DEF Holders, Free
<1>7. u \in Holders(P, t) <=> t = P.at[u]
  BY DEF Holders
<1>8. CASE t = P.at[u]
  <2>0. Cardinality(Holders(P, t) \ {u}) = Cardinality(Holders(P, t)) - 1
    BY <1>4, <1>7, <1>8, FS_RemoveElement, Zenon
  <2>1. Cardinality(Holders(Q, t)) = Cardinality(Holders(P, t)) - 1
    BY <1>6, <2>0, Zenon
  <2>2. Cardinality(Holders(P, t)) # 0
    BY <1>4, <1>7, <1>8, FS_EmptySet
  <2> QED BY <1>3, <1>4, <1>5, <1>8, <2>1, <2>2
<1>9. CASE t # P.at[u]
  BY <1>3, <1>4, <1>5, <1>6, <1>7, <1>9, FS_RemoveElement
<1> QED BY <1>8, <1>9

LEMMA FreeKeeps ==
  ASSUME NEW k \in Kind, NEW P, PoolInv(P, k), NEW u \in User
  PROVE  PoolInv(Free(P, u), k)
<1> DEFINE Q == Free(P, u)
<1>1. P \in PoolType(k)
  BY DEF PoolInv
<1>2. /\ P.at \in [User -> SlotsOf(k) \cup {NoSlot}] /\ P.pos \in [User -> Nat]
      /\ P.nof \in [SlotsOf(k) -> Nat] /\ P.lost \in [SlotsOf(k) -> Nat]
      /\ P.freed \subseteq SlotsOf(k)
  BY <1>1 DEF PoolType
<1>3. Q \in PoolType(k)
  BY <1>2 DEF Free, PoolType
<1>4. Counts(Q, k)
  BY <1>1, FreeCounts DEF PoolInv
<1>5. Positions(Q, k)
  <2>1. SUFFICES ASSUME NEW t \in SlotsOf(k) \ Q.freed, NEW v \in User, Q.at[v] = t
                 PROVE  /\ Q.pos[v] < Q.nof[t]
                        /\ \A w \in User : Q.at[w] = t /\ w # v => Q.pos[w] # Q.pos[v]
    BY DEF Positions
  <2>2. t \notin P.freed /\ t # NoSlot /\ t # P.at[u]
    BY <2>1, NoSlotIsNone DEF Free
  <2>3. \A w \in User : Q.at[w] = t => w # u /\ P.at[w] = t /\ Q.pos[w] = P.pos[w]
    BY <1>2, <2>2 DEF Free
  <2>4. Q.nof[t] = P.nof[t]
    BY <1>2, <2>2 DEF Free
  <2>5. \A w \in User : P.at[w] = t =>
          P.pos[w] < P.nof[t] /\ \A x \in User : P.at[x] = t /\ x # w => P.pos[x] # P.pos[w]
    BY <2>2 DEF PoolInv, Positions
  <2> QED BY <2>1, <2>3, <2>4, <2>5
<1>6. \A v \in User : Q.pos[v] <= MaxUsers
  BY <1>2, PucchAssumption DEF PoolInv, Free
<1> QED BY <1>3, <1>4, <1>5, <1>6 DEF PoolInv

(***************************************************************************)
(* The inductive invariant.                                                *)
(***************************************************************************)
LEMMA EmptyPoolInv == \A k \in Kind : PoolInv(EmptyPool(k), k)
<1> SUFFICES ASSUME NEW k \in Kind PROVE PoolInv(EmptyPool(k), k)
  OBVIOUS
<1> DEFINE P == EmptyPool(k)
<1>1. P \in PoolType(k)
  BY DEF EmptyPool, PoolType
<1>2. \A s \in SlotsOf(k) : Holders(P, s) = {}
  BY NoSlotIsNone DEF Holders, EmptyPool
<1>3. Counts(P, k)
  <2>1. ASSUME NEW s \in SlotsOf(k)
        PROVE  Cardinality(Holders(P, s)) = 0 /\ P.nof[s] = 0 /\ P.lost[s] = 0
    <3>1. Cardinality(Holders(P, s)) = 0
      BY <1>2, FS_EmptySet, Zenon
    <3> QED BY <3>1 DEF EmptyPool
  <2> QED BY <2>1 DEF Counts
<1>4. Positions(P, k)
  BY <1>2 DEF Positions, Holders
<1>5. \A u \in User : P.pos[u] <= MaxUsers
  BY PucchAssumption DEF EmptyPool
<1> QED BY <1>1, <1>3, <1>4, <1>5 DEF PoolInv

LEMMA PoolsInit == PucchInit => PoolsInv
<1> SUFFICES ASSUME PucchInit PROVE PoolsInv
  OBVIOUS
<1>1. \A k \in Kind : pool[k] = EmptyPool(k)
  BY DEF PucchInit
<1>2. ASSUME NEW k \in Kind, NEW u \in User PROVE pool[k].at[u] = NoSlot
  <2>1. EmptyPool(k).at[u] = NoSlot
    BY Zenon DEF EmptyPool
  <2> QED BY <1>1, <2>1
<1> QED BY <1>1, <1>2, EmptyPoolInv DEF PucchInit, PoolsInv

\* What a step may do to one pool.
PoolStep(P, Q, k, u) ==
  \/ Q = P
  \/ \E s \in SlotsOf(k) : P.nof[s] <= MaxUsers /\ Q = Place(P, u, s)

LEMMA ConReqPools ==
  ASSUME PoolsInv, NEW u \in User, ConReq(u)
  PROVE  /\ DOMAIN pool' = Kind /\ pool' = [k \in Kind |-> pool'[k]]
         /\ \A k \in Kind : PoolStep(pool[k], pool'[k], k, u)
<1> USE DEF Kind
<1>0. pool = [k \in Kind |-> pool[k]]
  BY DEF PoolsInv
<1>1. CASE UNCHANGED pool
  BY <1>0, <1>1 DEF PoolStep
<1>2. CASE \E s \in SlotsOf("sr") :
             Grants("sr", s) /\ pool' = [pool EXCEPT !["sr"] = Place(pool["sr"], u, s)]
  BY <1>0, <1>2 DEF PoolStep, Grants
<1>3. CASE \E s \in SlotsOf("sr"), t \in SlotsOf("cqi") :
             /\ Grants("sr", s) /\ Grants("cqi", t)
             /\ pool' = [pool EXCEPT !["sr"]  = Place(pool["sr"], u, s),
                                     !["cqi"] = Place(pool["cqi"], u, t)]
  BY <1>0, <1>3 DEF PoolStep, Grants
<1> QED BY <1>1, <1>2, <1>3 DEF ConReq

LEMMA PoolsNext == PoolsInv /\ [PucchNext]_pucchVars => PoolsInv'
<1> SUFFICES ASSUME PoolsInv, [PucchNext]_pucchVars PROVE PoolsInv'
  OBVIOUS
<1>1. ASSUME NEW u \in User, AddUser(u) PROVE PoolsInv'
  BY <1>1 DEF PoolsInv, AddUser
<1>2. ASSUME NEW u \in User, ConReq(u) PROVE PoolsInv'
  <2>1. /\ DOMAIN pool' = Kind /\ pool' = [k \in Kind |-> pool'[k]]
        /\ \A k \in Kind : PoolStep(pool[k], pool'[k], k, u)
    BY <1>2, ConReqPools
  <2>2. users' = users /\ u \in users
    BY <1>2 DEF ConReq
  <2>3. ASSUME NEW k \in Kind PROVE PoolInv(pool'[k], k)
    BY <2>1, PlaceKeeps DEF PoolsInv, PoolStep
  <2>4. ASSUME NEW k \in Kind, NEW v \in User, pool'[k].at[v] # NoSlot PROVE v \in users
    <3>1. pool[k].at \in [User -> SlotsOf(k) \cup {NoSlot}]
      BY DEF PoolsInv, PoolInv, PoolType
    <3>2. v = u \/ pool[k].at[v] # NoSlot
      BY <2>1, <2>4, <3>1 DEF PoolStep, Place
    <3> QED BY <2>2, <3>2 DEF PoolsInv
  <2> QED BY <2>1, <2>2, <2>3, <2>4 DEF PoolsInv
<1>3. ASSUME NEW u \in User, RemUser(u) PROVE PoolsInv'
  <2>1. pool' = [k \in Kind |-> Free(pool[k], u)] /\ users' = users \ {u}
    BY <1>3 DEF RemUser
  <2>2. \A k \in Kind : PoolInv(pool'[k], k)
    BY <2>1, FreeKeeps DEF PoolsInv
  <2>3. ASSUME NEW k \in Kind, NEW v \in User, pool'[k].at[v] # NoSlot PROVE v \in users'
    <3>1. pool[k].at \in [User -> SlotsOf(k) \cup {NoSlot}]
      BY DEF PoolsInv, PoolInv, PoolType
    <3>2. v # u /\ pool[k].at[v] # NoSlot
      BY <2>1, <2>3, <3>1 DEF Free
    <3> QED BY <2>1, <3>2 DEF PoolsInv
  <2> QED BY <2>1, <2>2, <2>3 DEF PoolsInv
<1>4. CASE UNCHANGED pucchVars
  BY <1>4 DEF PoolsInv, pucchVars
<1> QED BY <1>1, <1>2, <1>3, <1>4 DEF PucchNext

LEMMA PoolsHold == PucchSpec => []PoolsInv
BY PoolsInit, PoolsNext, PTL DEF PucchSpec

(***************************************************************************)
(* Theorems.                                                               *)
(***************************************************************************)
\* The variables have their types in every reachable state.
THEOREM PucchTypeCorrect == PucchSpec => []PucchTypeOK
<1>1. PoolsInv => PucchTypeOK
  BY DEF PoolsInv, PoolInv, PucchTypeOK
<1> QED BY <1>1, PoolsHold, PTL

\* RRC's counters (rrc.cc:1883, 1826) agree with who holds what, for any number
\* of users and slots: the warning of rrc.cc:1827 cannot be reached.
THEOREM CountersExact == PucchSpec => []CountsMatch
<1>1. PoolsInv => CountsMatch
  BY DEF PoolsInv, PoolInv, Counts, CountsMatch
<1> QED BY <1>1, PoolsHold, PTL

\* Only users hold resources, in the region of their slot or one past it.
THEOREM OnlyUsersHold == PucchSpec => []HeldByUsers
<1>1. PoolsInv => HeldByUsers
  BY DEF PoolsInv, PoolInv, HeldByUsers
<1> QED BY <1>1, PoolsHold, PTL

\* Regions of MaxUsers resources that start at multiples of MaxUsers are disjoint.
Resource(i, a) == i * MaxUsers + a

LEMMA Regions ==
  \A i, j \in Nat : \A a, b \in 0..MaxUsers - 1 :
    Resource(i, a) = Resource(j, b) => i = j /\ a = b
<1> SUFFICES ASSUME NEW i \in Nat, NEW j \in Nat,
                    NEW a \in 0..MaxUsers - 1, NEW b \in 0..MaxUsers - 1,
                    i * MaxUsers + a = j * MaxUsers + b
             PROVE  i = j /\ a = b
  BY DEF Resource
<1>0. MaxUsers \in Nat \ {0}
  BY PucchAssumption
<1>1. ASSUME NEW x \in Nat, NEW y \in Nat, x < y PROVE x * MaxUsers + MaxUsers <= y * MaxUsers
  <2>1. (x + 1) * MaxUsers <= y * MaxUsers
    BY <1>0, <1>1
  <2> QED BY <1>0, <2>1
<1>2. i * MaxUsers \in Nat /\ j * MaxUsers \in Nat
  BY <1>0
<1>3. ~(i < j)
  BY <1>0, <1>1, <1>2
<1>4. ~(j < i)
  BY <1>0, <1>1, <1>2
<1> QED BY <1>0, <1>2, <1>3, <1>4

\* Two users share a resource only in the two ways the code leaves open.
THEOREM CollisionsOnlyThen == PucchSpec => []CollisionsExplained
<1>1. ASSUME PoolsInv PROVE CollisionsExplained
  <2> SUFFICES ASSUME NEW k \in Kind, NEW u \in User, NEW v \in User, u # v,
                      pool[k].at[u] # NoSlot, pool[k].at[v] # NoSlot,
                      pool[k].at[u][2] = pool[k].at[v][2],
                      Npucch(pool[k], u) = Npucch(pool[k], v),
                      pool[k].pos[u] # MaxUsers, pool[k].pos[v] # MaxUsers
               PROVE  pool[k].at[u] = pool[k].at[v] /\ pool[k].at[u] \in pool[k].freed
    BY DEF CollisionsExplained
  <2> DEFINE P == pool[k]
  <2>1. PoolInv(P, k)
    BY <1>1 DEF PoolsInv
  <2>2. P.at[u] \in SlotsOf(k) /\ P.at[v] \in SlotsOf(k) /\ P.pos[u] \in Nat /\ P.pos[v] \in Nat
    BY <2>1 DEF PoolInv, PoolType
  <2>3. P.pos[u] \in 0..MaxUsers - 1 /\ P.pos[v] \in 0..MaxUsers - 1
    BY <2>1, <2>2, PucchAssumption DEF PoolInv
  <2>4. P.at[u][1] \in Nat /\ P.at[v][1] \in Nat
    BY <2>2, SlotParts
  <2>5. Resource(P.at[u][1], P.pos[u]) = Resource(P.at[v][1], P.pos[v])
    <3>1. P.at[u][1] * MaxUsers \in Nat /\ P.at[v][1] * MaxUsers \in Nat
      BY <2>4, PucchAssumption
    <3> QED BY <2>2, <3>1, PucchAssumption DEF Npucch, Resource
  <2>6. P.at[u][1] = P.at[v][1] /\ P.pos[u] = P.pos[v]
    BY <2>3, <2>4, <2>5, Regions
  <2>7. P.at[u] = P.at[v]
    BY <2>2, <2>6, SlotParts
  <2> QED BY <2>1, <2>2, <2>6, <2>7 DEF PoolInv, Positions
<1> QED BY <1>1, PoolsHold, PTL

=============================================================================
