----------------------------- MODULE UdEpBasics -----------------------------
(***************************************************************************)
(* The fields of a UD endpoint, the order of its sequence numbers, and the  *)
(* relations between an endpoint before and after a step that the proofs    *)
(* are written in.                                                          *)
(***************************************************************************)
EXTENDS UdEp, TLAPS

\* The receive side of the endpoint is left alone.
RxSame(s, t) ==
    /\ t.head_sn = s.head_sn /\ t.rx_acked = s.rx_acked
    /\ t.delivered = s.delivered /\ t.pending_q = s.pending_q

\* The completions are left alone.
CompSame(s, t) == t.async_comp_q = s.async_comp_q /\ t.comps = s.comps

\* The messages the window stands for are the same.
SameIds(v, w) ==
    /\ DOMAIN v = DOMAIN w
    /\ \A i \in DOMAIN v : v[i].psn = w[i].psn /\ v[i].flush = w[i].flush

\* Only the control operations, the resend state or the timer change.
Quiet(s, t) ==
    /\ t.psn = s.psn /\ t.acked_psn = s.acked_psn /\ t.max_psn = s.max_psn
    /\ t.life = s.life /\ SameIds(s.window, t.window)
    /\ CompSame(s, t) /\ RxSame(s, t)

-----------------------------------------------------------------------------
(* Sequence numbers. *)

LEMMA HalfFacts ==
    /\ Half \in Nat /\ PsnMod \in Nat /\ 0 < PsnMod /\ 2 * Half <= PsnMod
    /\ 2 * MaxWindow + 2 < Half /\ MaxWindow \in Nat /\ MinWindow \in Nat
    /\ 1 < MinWindow /\ MinWindow <= MaxWindow
    /\ InitialPsn \in Nat /\ 0 < InitialPsn
BY UdEpAssumption DEF Half

\* The signed difference of two registers is the difference of the numbers
\* when these are less than half the psn space apart.
LEMMA PsnDiffExact ==
    ASSUME NEW a \in Int, NEW b \in Int, a - b < Half, b - a < Half
    PROVE  PsnDiff(a, b) = a - b
<1>1. a - b + Half \in Nat /\ a - b + Half < PsnMod
    BY HalfFacts
<1>2. ASSUME NEW x \in Nat, x < PsnMod PROVE x % PsnMod = x
    BY HalfFacts, <1>2
<1> QED BY HalfFacts, <1>1, <1>2 DEF PsnDiff

\* The comparisons of the code agree with those of the numbers.
LEMMA PsnCompare ==
    ASSUME NEW a \in Int, NEW b \in Int, a - b < Half, b - a < Half
    PROVE  /\ PsnLt(a, b) <=> a < b
           /\ PsnLe(a, b) <=> a <= b
           /\ PsnEq(a, b) <=> a = b
BY PsnDiffExact DEF PsnLt, PsnLe, PsnEq

\* One direction needs only one of the two bounds.
LEMMA PsnLeBound ==
    ASSUME NEW a \in Int, NEW b \in Int, a - b < Half, PsnLe(a, b)
    PROVE  a <= b
<1> SUFFICES ASSUME b < a PROVE FALSE
    OBVIOUS
<1>1. b - a < Half
    BY HalfFacts
<1> QED BY <1>1, PsnCompare

-----------------------------------------------------------------------------
(* Fields of an endpoint, and changes that keep its invariants. *)

LEMMA EpFields ==
    ASSUME NEW s \in EpType
    PROVE  /\ s.psn \in Nat /\ s.cwnd \in MinWindow..MaxWindow
           /\ s.acked_psn \in Nat /\ s.max_psn \in Nat
           /\ s.ops \in SUBSET Ops /\ s.window \in Seq(SkbType)
           /\ s.resend_pos \in Nat \X Nat /\ s.resend_psn \in Nat
           /\ s.resend_max \in Nat /\ s.resend_count \in Int
           /\ s.tx_nacked \in BOOLEAN /\ s.rx_acked \in Nat
           /\ s.head_sn \in Nat /\ s.outstanding \in Seq(Nat \X Nat)
           /\ s.async_comp_q \in SUBSET CompType
           /\ s.comps \in SUBSET CompType
           /\ s.pending_q \in Seq(Nat) /\ s.delivered \in Seq(Nat)
           /\ s.timer \in BOOLEAN /\ s.timeouts \in Nat /\ s.life \in Lives
BY Zenon DEF EpType

LEMMA SameIdsRefl ==
    ASSUME NEW w PROVE SameIds(w, w)
BY DEF SameIds

LEMMA SkbFields ==
    ASSUME NEW w \in Seq(SkbType), NEW i \in DOMAIN w
    PROVE  /\ w[i] \in SkbType /\ w[i].psn \in Nat /\ w[i].flush \in Nat
           /\ w[i].resending \in BOOLEAN /\ i \in 1..Len(w)
           /\ Id(w[i]) \in Nat \X Nat
<1>1. w[i] \in SkbType /\ i \in 1..Len(w)
    OBVIOUS
<1> QED BY <1>1 DEF SkbType, Id

LEMMA TxFacts ==
    ASSUME NEW s \in EpType, TxInv(s)
    PROVE  /\ s.psn \in Nat /\ s.acked_psn \in Nat /\ s.max_psn \in Nat
           /\ s.acked_psn < s.psn /\ s.psn <= s.acked_psn + MaxWindow + 1
           /\ s.acked_psn < s.max_psn
           /\ s.max_psn <= s.acked_psn + MaxWindow + 1
           /\ InitialPsn - 1 <= s.acked_psn
BY EpFields DEF TxInv

\* The invariant only looks at some of the fields.
LEMMA QuietKeepsTx ==
    ASSUME NEW s \in EpType, NEW t \in EpType, TxInv(s), Quiet(s, t)
    PROVE  TxInv(t)
<1>1. \A i \in DOMAIN t.window : t.window[i].psn < t.psn
    BY DEF TxInv, Quiet, SameIds
<1>2. \A n \in t.acked_psn + 1 .. t.psn - 1 : Holds(t.window, n)
    BY DEF TxInv, Quiet, SameIds, Holds
<1> QED BY <1>1, <1>2 DEF TxInv, Quiet, CompSame

LEMMA QuietKeepsRx ==
    ASSUME NEW s, NEW t, RxInv(s), RxSame(s, t)
    PROVE  RxInv(t)
BY Zenon DEF RxInv, RxSame

\* There is room in the window exactly when psn has not reached max_psn.
LEMMA WindowRoom ==
    ASSUME NEW s \in EpType, TxInv(s), ~NoWindow(s)
    PROVE  s.psn < s.max_psn
<1>1. s.psn \in Int /\ s.max_psn \in Int
    BY EpFields
<1>2. s.psn - s.max_psn < Half /\ s.max_psn - s.psn < Half
    BY TxFacts, HalfFacts
<1>3. PsnLt(s.psn, s.max_psn)
    BY DEF NoWindow
<1> QED BY <1>1, <1>2, <1>3, PsnCompare

-----------------------------------------------------------------------------
(* Sequences. *)

LEMMA AppendFacts ==
    ASSUME NEW S, NEW w \in Seq(S), NEW x \in S
    PROVE  /\ Append(w, x) \in Seq(S)
           /\ Len(Append(w, x)) = Len(w) + 1
           /\ DOMAIN Append(w, x) = 1..Len(w) + 1
           /\ \A i \in 1..Len(w) : Append(w, x)[i] = w[i]
           /\ Append(w, x)[Len(w) + 1] = x
           /\ Len(w) \in Nat /\ DOMAIN w = 1..Len(w)
OBVIOUS

LEMMA HoldsAppend ==
    ASSUME NEW w \in Seq(SkbType), NEW x \in SkbType, NEW n, Holds(w, n)
    PROVE  Holds(Append(w, x), n)
<1>1. PICK i \in DOMAIN w : w[i].psn = n /\ w[i].flush = 0
    BY DEF Holds
<1>2. i \in DOMAIN Append(w, x) /\ Append(w, x)[i] = w[i]
    BY AppendFacts
<1> QED BY <1>1, <1>2 DEF Holds

LEMMA BelowAppend ==
    ASSUME NEW w \in Seq(SkbType), NEW x \in SkbType, NEW p \in Nat,
           x.psn < p, \A i \in DOMAIN w : w[i].psn < p
    PROVE  \A i \in DOMAIN Append(w, x) : Append(w, x)[i].psn < p
<1> SUFFICES ASSUME NEW i \in DOMAIN Append(w, x)
             PROVE  Append(w, x)[i].psn < p
    OBVIOUS
<1>1. i \in 1..Len(w) + 1 /\ Len(w) \in Nat /\ DOMAIN w = 1..Len(w)
    BY AppendFacts
<1>2. CASE i = Len(w) + 1
    BY <1>2, AppendFacts
<1>3. CASE i \in 1..Len(w)
    BY <1>1, <1>3, AppendFacts
<1> QED BY <1>1, <1>2, <1>3

LEMMA RunAppend ==
    ASSUME NEW seq \in Seq(Nat), NEW first \in Nat, Run(seq, first),
           NEW x \in Nat, x = first + Len(seq)
    PROVE  /\ Append(seq, x) \in Seq(Nat) /\ Run(Append(seq, x), first)
           /\ Len(Append(seq, x)) = Len(seq) + 1
<1>1. Len(seq) \in Nat
    OBVIOUS
<1>2. ASSUME NEW i \in 1..Len(seq) + 1
      PROVE  Append(seq, x)[i] = first + i - 1
  <2>1. CASE i = Len(seq) + 1
    BY <2>1, <1>1, AppendFacts
  <2>2. CASE i \in 1..Len(seq)
    BY <2>2, <1>1, AppendFacts DEF Run
  <2> QED BY <2>1, <2>2, <1>1
<1>3. Append(seq, x) \in Seq(Nat) /\ Len(Append(seq, x)) = Len(seq) + 1
    BY AppendFacts
<1> QED BY <1>2, <1>3 DEF Run

LEMMA RunSplit ==
    ASSUME NEW seq \in Seq(Nat), NEW first \in Nat, Run(seq, first),
           NEW n \in 0..Len(seq)
    PROVE  LET head == SubSeq(seq, 1, n)
               tail == SubSeq(seq, n + 1, Len(seq))
           IN  /\ head \in Seq(Nat) /\ Len(head) = n /\ Run(head, first)
               /\ tail \in Seq(Nat) /\ Len(tail) = Len(seq) - n
               /\ Run(tail, first + n)
<1> DEFINE head == SubSeq(seq, 1, n)
           tail == SubSeq(seq, n + 1, Len(seq))
<1>1. Len(seq) \in Nat /\ n \in Nat /\ n <= Len(seq)
    OBVIOUS
<1>2. /\ head \in Seq(Nat) /\ Len(head) = n
      /\ \A i \in 1..n : head[i] = seq[i]
    BY <1>1
<1>3. /\ tail \in Seq(Nat) /\ Len(tail) = Len(seq) - n
      /\ \A i \in 1..Len(seq) - n : tail[i] = seq[n + i]
    BY <1>1
<1> HIDE DEF head, tail
<1>4. Run(head, first)
  <2> SUFFICES ASSUME NEW i \in 1..n PROVE head[i] = first + i - 1
    BY <1>2 DEF Run
  <2>1. i \in 1..Len(seq)
    BY <1>1
  <2> QED BY <2>1, <1>2, Zenon DEF Run
<1>5. ASSUME NEW i \in 1..Len(seq) - n PROVE tail[i] = (first + n) + i - 1
  <2>1. n + i \in 1..Len(seq)
    BY <1>1
  <2>2. seq[n + i] = first + (n + i) - 1
    BY <2>1 DEF Run
  <2>3. first + (n + i) - 1 = (first + n) + i - 1
    BY <1>1
  <2> QED BY <2>2, <2>3, <1>3
<1>6. Run(tail, first + n)
    BY <1>3, <1>5 DEF Run
<1> QED BY <1>2, <1>3, <1>4, <1>6 DEF head, tail

LEMMA RunConcat ==
    ASSUME NEW a \in Seq(Nat), NEW b \in Seq(Nat), NEW first \in Nat,
           Run(a, first), Run(b, first + Len(a))
    PROVE  /\ a \o b \in Seq(Nat) /\ Len(a \o b) = Len(a) + Len(b)
           /\ Run(a \o b, first)
<1>1. Len(a) \in Nat /\ Len(b) \in Nat
    OBVIOUS
<1>2. /\ a \o b \in Seq(Nat) /\ Len(a \o b) = Len(a) + Len(b)
      /\ \A i \in 1..Len(a) + Len(b) :
            (a \o b)[i] = IF i <= Len(a) THEN a[i] ELSE b[i - Len(a)]
    OBVIOUS
<1>3. ASSUME NEW i \in 1..Len(a) + Len(b) PROVE (a \o b)[i] = first + i - 1
  <2>1. CASE i <= Len(a)
    BY <2>1, <1>1, <1>2 DEF Run
  <2>2. CASE ~(i <= Len(a))
    <3>1. i - Len(a) \in 1..Len(b)
        BY <2>2, <1>1
    <3>2. b[i - Len(a)] = (first + Len(a)) + (i - Len(a)) - 1
        BY <3>1 DEF Run
    <3>3. (first + Len(a)) + (i - Len(a)) - 1 = first + i - 1
        BY <1>1
    <3> QED BY <2>2, <3>2, <3>3, <1>2
  <2> QED BY <2>1, <2>2
<1> QED BY <1>2, <1>3 DEF Run

\* The numbers that describe what was received: d messages were handed to
\* their handlers and q wait to be.
LEMMA RxFacts ==
    ASSUME NEW s \in EpType, RxInv(s)
    PROVE  /\ \E d, q \in Nat :
                 /\ d = Len(s.delivered) /\ q = Len(s.pending_q)
                 /\ d + q = s.head_sn - (InitialPsn - 1)
           /\ s.head_sn \in Nat /\ s.rx_acked \in Nat
           /\ s.pending_q \in Seq(Nat) /\ s.delivered \in Seq(Nat)
           /\ InitialPsn - 1 <= s.rx_acked /\ s.rx_acked <= s.head_sn
           /\ Run(s.delivered, InitialPsn)
           /\ Run(s.pending_q, InitialPsn + Len(s.delivered))
<1>1. /\ s.pending_q \in Seq(Nat) /\ s.delivered \in Seq(Nat)
      /\ s.head_sn \in Nat /\ s.rx_acked \in Nat
    BY EpFields
<1>2. Len(s.delivered) \in Nat /\ Len(s.pending_q) \in Nat
    BY <1>1
<1>3. Len(s.delivered) + Len(s.pending_q) = s.head_sn - (InitialPsn - 1)
    BY Zenon DEF RxInv
<1>4. InitialPsn - 1 <= s.rx_acked /\ s.rx_acked <= s.head_sn
    BY DEF RxInv
<1>5. /\ Run(s.delivered, InitialPsn)
      /\ Run(s.pending_q, InitialPsn + Len(s.delivered))
    BY DEF RxInv
<1> QED BY <1>1, <1>2, <1>3, <1>4, <1>5, Zenon

-----------------------------------------------------------------------------
(* What a step does to an endpoint. *)

\* What the steps that release the window do to the rest of the endpoint.
Settles(s, t) ==
    /\ t.psn = s.psn /\ t.life = s.life /\ RxSame(s, t)
    /\ \A c \in t.comps \ s.comps : c.psn <= t.acked_psn

\* A purge leaves nothing unacknowledged; the operations it completes with
\* UCS_OK were acknowledged.
PurgeStep(s, t) ==
    /\ t.psn = s.psn /\ t.life = s.life /\ RxSame(s, t)
    /\ t.acked_psn = s.psn - 1
    /\ \A c \in t.comps \ s.comps :
          c.status = "OK" /\ s.life = "open" => c.psn <= s.acked_psn

\* What one packet does: acked_psn follows the acknowledgement, head_sn the
\* message when it is the next one.
RxStep(s, t, p) ==
    /\ t.psn = s.psn /\ t.life = s.life
    /\ t.acked_psn = IF s.acked_psn < p.ack THEN p.ack ELSE s.acked_psn
    /\ \/ t.head_sn = s.head_sn
       \/ p.am /\ t.head_sn = p.psn /\ p.psn = s.head_sn + 1
    /\ \A c \in t.comps \ s.comps : c.psn <= t.acked_psn

\* The state of an endpoint that s is turned into by the first part of a
\* flush.
Asked(s, t) ==
    /\ t \in EpType /\ TxInv(t) /\ RxInv(t)
    /\ t.psn = s.psn /\ t.acked_psn = s.acked_psn /\ t.life = s.life
    /\ t.head_sn = s.head_sn /\ t.comps = s.comps

\* A new life and timer for the endpoint, nothing else.
LifeStep(s, t, l) ==
    /\ t \in EpType /\ TxInv(t) /\ RxInv(t)
    /\ t.psn = s.psn /\ t.acked_psn = s.acked_psn /\ t.life = l
    /\ t.head_sn = s.head_sn /\ t.comps = s.comps

LEMMA LifeFacts ==
    ASSUME NEW s \in EpType, TxInv(s), RxInv(s),
           NEW l \in Lives \ {"open"}, NEW b \in BOOLEAN, NEW k \in Nat
    PROVE  LifeStep(s, [s EXCEPT !.life = l, !.timer = b, !.timeouts = k], l)
<1> DEFINE t == [s EXCEPT !.life = l, !.timer = b, !.timeouts = k]
<1>1. t \in EpType
    BY ZenonT(60) DEF EpType
<1>2. /\ t.psn = s.psn /\ t.acked_psn = s.acked_psn /\ t.max_psn = s.max_psn
      /\ t.life = l /\ t.window = s.window /\ CompSame(s, t) /\ RxSame(s, t)
    BY DEF EpType, CompSame, RxSame
<1> HIDE DEF t
<1>3. TxInv(t)
    BY <1>2, Zenon DEF TxInv
<1>4. RxInv(t)
    BY <1>2, QuietKeepsRx
<1>5. LifeStep(s, t, l)
    BY <1>1, <1>2, <1>3, <1>4 DEF LifeStep, CompSame, RxSame
<1> QED BY <1>5 DEF t

=============================================================================
