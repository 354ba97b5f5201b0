----------------------------- MODULE UdEpProofs -----------------------------
(***************************************************************************)
(* What the operators of UdEp preserve and return, for every value of the   *)
(* constants.                                                               *)
(***************************************************************************)
EXTENDS UdEpBasics, WellFoundedInduction

-----------------------------------------------------------------------------
(* Control operations, resend and congestion control. *)

LEMMA CtlOpAddFacts ==
    ASSUME NEW s \in EpType, NEW op \in Ops
    PROVE  CtlOpAdd(s, op) \in EpType /\ Quiet(s, CtlOpAdd(s, op))
<1>1. CtlOpAdd(s, op) \in EpType
    BY EpFields, ZenonT(60) DEF CtlOpAdd, EpType
<1>2. Quiet(s, CtlOpAdd(s, op))
    BY SameIdsRefl DEF CtlOpAdd, EpType, Quiet, RxSame, CompSame
<1> QED BY <1>1, <1>2

LEMMA ResendStartFacts ==
    ASSUME NEW s \in EpType, s.psn > 0
    PROVE  ResendStart(s) \in EpType /\ Quiet(s, ResendStart(s))
<1>1. /\ s.psn - 1 \in Nat /\ s.acked_psn + 1 \in Nat
      /\ Begin \in Nat \X Nat /\ s.ops \cup {"RESEND"} \in SUBSET Ops
    BY EpFields DEF Ops, Begin
<1>2. ResendStart(s) \in EpType
    BY <1>1, ZenonT(60) DEF ResendStart, EpType
<1>3. Quiet(s, ResendStart(s))
    BY SameIdsRefl DEF ResendStart, EpType, Quiet, RxSame, CompSame
<1> QED BY <1>2, <1>3

LEMMA ResendEndFacts ==
    ASSUME NEW s \in EpType
    PROVE  ResendEnd(s) \in EpType /\ Quiet(s, ResendEnd(s))
<1>1. ResendEnd(s) \in EpType
    BY EpFields, ZenonT(60) DEF ResendEnd, EpType
<1>2. Quiet(s, ResendEnd(s))
    BY SameIdsRefl DEF ResendEnd, EpType, Quiet, RxSame, CompSame
<1> QED BY <1>1, <1>2

\* A drop leaves a window of at least one message, at most the maximal one.
LEMMA CaDropFacts ==
    ASSUME NEW s \in EpType,
           s.acked_psn < s.psn, s.psn <= s.acked_psn + MaxWindow + 1
    PROVE  /\ CaDrop(s) \in EpType
           /\ CaDrop(s).psn = s.psn /\ CaDrop(s).acked_psn = s.acked_psn
           /\ CaDrop(s).life = s.life /\ CaDrop(s).window = s.window
           /\ CompSame(s, CaDrop(s)) /\ RxSame(s, CaDrop(s))
           /\ s.acked_psn < CaDrop(s).max_psn
           /\ CaDrop(s).max_psn <= s.acked_psn + MaxWindow
<1> DEFINE half == s.cwnd \div 2
           cwnd == IF half < MinWindow THEN MinWindow ELSE half
           lim  == s.acked_psn + cwnd
           max  == IF PsnLt(s.psn, lim) THEN s.psn ELSE lim
<1>1. CaDrop(s) = [s EXCEPT !.cwnd = cwnd, !.max_psn = max]
    BY DEF CaDrop
<1>2. /\ s.cwnd \in Nat /\ s.cwnd <= MaxWindow
      /\ s.psn \in Nat /\ s.acked_psn \in Nat
    BY EpFields, HalfFacts
<1>3. half \in Nat /\ half <= s.cwnd
    BY <1>2
<1>4. cwnd \in MinWindow..MaxWindow
    BY <1>2, <1>3, HalfFacts
<1> HIDE DEF cwnd
<1>5. lim \in Nat /\ s.acked_psn + 1 < lim /\ lim <= s.acked_psn + MaxWindow
    BY <1>2, <1>4, HalfFacts
<1>6. lim - s.psn < Half /\ s.psn - lim < Half
    BY <1>2, <1>5, HalfFacts
<1>7. PsnLt(s.psn, lim) => s.psn < lim
    BY <1>2, <1>5, <1>6, PsnCompare
<1> HIDE DEF lim
<1>8. /\ max \in Nat /\ s.acked_psn < max /\ max <= s.acked_psn + MaxWindow
    BY <1>2, <1>5, <1>7, HalfFacts
<1> HIDE DEF max
<1>9. CaDrop(s) \in EpType /\ CaDrop(s).max_psn = max
  <2>1. [s EXCEPT !.cwnd = cwnd, !.max_psn = max] \in EpType
    BY <1>4, <1>8, ZenonT(60) DEF EpType
  <2>2. CaDrop(s).max_psn = max
    BY <1>1 DEF EpType
  <2> QED BY <2>1, <2>2, <1>1
<1>10. /\ CaDrop(s).psn = s.psn /\ CaDrop(s).acked_psn = s.acked_psn
       /\ CaDrop(s).life = s.life /\ CaDrop(s).window = s.window
       /\ CompSame(s, CaDrop(s)) /\ RxSame(s, CaDrop(s))
    BY <1>1 DEF EpType, CompSame, RxSame
<1> QED BY <1>8, <1>9, <1>10

LEMMA CaAckFacts ==
    ASSUME NEW s \in EpType
    PROVE  /\ CaAck(s) \in EpType
           /\ CaAck(s).psn = s.psn /\ CaAck(s).acked_psn = s.acked_psn
           /\ CaAck(s).life = s.life /\ CaAck(s).window = s.window
           /\ CompSame(s, CaAck(s)) /\ RxSame(s, CaAck(s))
           /\ s.acked_psn < CaAck(s).max_psn
           /\ CaAck(s).max_psn <= s.acked_psn + MaxWindow
<1> DEFINE cwnd == IF s.cwnd < MaxWindow THEN s.cwnd + 1 ELSE s.cwnd
           max  == s.acked_psn + cwnd
<1>1. CaAck(s) = [s EXCEPT !.cwnd = cwnd, !.max_psn = max]
    BY DEF CaAck
<1>2. cwnd \in MinWindow..MaxWindow
    BY EpFields, HalfFacts
<1> HIDE DEF cwnd
<1>3. max \in Nat /\ s.acked_psn < max /\ max <= s.acked_psn + MaxWindow
    BY <1>2, EpFields, HalfFacts
<1> HIDE DEF max
<1>4. CaAck(s) \in EpType /\ CaAck(s).max_psn = max
  <2>1. [s EXCEPT !.cwnd = cwnd, !.max_psn = max] \in EpType
    BY <1>2, <1>3, Zenon DEF EpType
  <2>2. CaAck(s).max_psn = max
    BY <1>1 DEF EpType
  <2> QED BY <2>1, <2>2, <1>1
<1>5. /\ CaAck(s).psn = s.psn /\ CaAck(s).acked_psn = s.acked_psn
      /\ CaAck(s).life = s.life /\ CaAck(s).window = s.window
      /\ CompSame(s, CaAck(s)) /\ RxSame(s, CaAck(s))
    BY <1>1 DEF EpType, CompSame, RxSame
<1> QED BY <1>3, <1>4, <1>5

LEMMA ResetMaxPsnFacts ==
    ASSUME NEW s \in EpType
    PROVE  /\ ResetMaxPsn(s) \in EpType
           /\ ResetMaxPsn(s).psn = s.psn
           /\ ResetMaxPsn(s).acked_psn = s.acked_psn
           /\ ResetMaxPsn(s).life = s.life /\ ResetMaxPsn(s).window = s.window
           /\ CompSame(s, ResetMaxPsn(s)) /\ RxSame(s, ResetMaxPsn(s))
           /\ s.psn < ResetMaxPsn(s).max_psn
           /\ ResetMaxPsn(s).max_psn <= s.psn + MaxWindow
<1> DEFINE max  == s.psn + s.cwnd
<1>1. ResetMaxPsn(s) = [s EXCEPT !.max_psn = max]
    BY DEF ResetMaxPsn
<1>3. max \in Nat /\ s.psn < max /\ max <= s.psn + MaxWindow
    BY EpFields, HalfFacts
<1> HIDE DEF max
<1>4. ResetMaxPsn(s) \in EpType /\ ResetMaxPsn(s).max_psn = max
  <2>1. [s EXCEPT !.max_psn = max] \in EpType
    BY <1>3, ZenonT(60) DEF EpType
  <2>2. ResetMaxPsn(s).max_psn = max
    BY <1>1 DEF EpType
  <2> QED BY <2>1, <2>2, <1>1
<1>5. /\ ResetMaxPsn(s).psn = s.psn
      /\ ResetMaxPsn(s).acked_psn = s.acked_psn
      /\ ResetMaxPsn(s).life = s.life /\ ResetMaxPsn(s).window = s.window
      /\ CompSame(s, ResetMaxPsn(s)) /\ RxSame(s, ResetMaxPsn(s))
    BY <1>1 DEF EpType, CompSame, RxSame
<1> QED BY <1>3, <1>4, <1>5

LEMMA ResendAckFacts ==
    ASSUME NEW s \in EpType
    PROVE  ResendAck(s) \in EpType /\ Quiet(s, ResendAck(s))
<1>1. /\ s.acked_psn + 1 \in Nat /\ s.resend_max + 1 \in Nat
      /\ Begin \in Nat \X Nat /\ s.ops \cup {"RESEND"} \in SUBSET Ops
    BY EpFields DEF Ops, Begin
<1>2. CASE PsnLt(s.resend_max, s.resend_psn)
    BY <1>2, SameIdsRefl DEF ResendAck, Quiet, RxSame, CompSame
<1>3. CASE /\ ~PsnLt(s.resend_max, s.resend_psn)
           /\ PsnLt(s.acked_psn, s.resend_max)
  <2> DEFINE behind == PsnLe(s.resend_psn, s.acked_psn)
             pos == IF behind THEN Begin ELSE s.resend_pos
             psn == IF behind THEN s.acked_psn + 1 ELSE s.resend_psn
             ops == s.ops \cup {"RESEND"}
  <2>1. ResendAck(s) =
            [s EXCEPT !.resend_pos = pos, !.resend_psn = psn, !.ops = ops]
    BY <1>3 DEF ResendAck
  <2>2. pos \in Nat \X Nat /\ psn \in Nat /\ ops \in SUBSET Ops
    BY <1>1, EpFields
  <2> HIDE DEF pos, psn, ops
  <2>3. [s EXCEPT !.resend_pos = pos, !.resend_psn = psn, !.ops = ops]
            \in EpType
    BY <2>2, ZenonT(60) DEF EpType
  <2>4. Quiet(s, ResendAck(s))
    BY <2>1, SameIdsRefl DEF EpType, Quiet, RxSame, CompSame
  <2> QED BY <2>1, <2>3, <2>4
<1>4. CASE /\ ~PsnLt(s.resend_max, s.resend_psn)
           /\ ~PsnLt(s.acked_psn, s.resend_max)
  <2> DEFINE t == [s EXCEPT !.resend_psn = s.resend_max + 1]
  <2>1. t \in EpType
    BY <1>1, Zenon DEF EpType
  <2>2. Quiet(s, t)
    BY SameIdsRefl DEF EpType, Quiet, RxSame, CompSame
  <2>3. ResendAck(s) = ResendEnd(t)
    BY <1>4 DEF ResendAck
  <2> HIDE DEF t
  <2>4. ResendEnd(t) \in EpType /\ Quiet(t, ResendEnd(t))
    BY <2>1, ResendEndFacts
  <2> QED BY <2>2, <2>3, <2>4 DEF Quiet, RxSame, CompSame, SameIds
<1> QED BY <1>2, <1>3, <1>4

-----------------------------------------------------------------------------
(* Releasing the window. *)

LEMMA SmallestInSet ==
    ASSUME NEW T \in SUBSET Nat, T # {}
    PROVE  \E m \in T : \A k \in T : m <= k
<1> DEFINE R == {ss \in Nat \X Nat : ss[1] < ss[2]}
<1>1. IsWellFoundedOn(R, Nat)
    BY NatLessThanWellFounded, Zenon DEF OpToRel
<1> HIDE DEF R
<1>2. PICK m \in T : \A k \in T : ~(<<k, m>> \in R)
    BY <1>1, WFMin, Zenon
<1>3. \A k \in T : ~(k < m)
    BY <1>2, Zenon DEF R
<1> QED BY <1>2, <1>3

LEMMA NumCompletedFacts ==
    ASSUME NEW w \in Seq(SkbType), NEW ack
    PROVE  /\ NumCompleted(w, ack) \in 0..Len(w)
           /\ \A i \in 1..NumCompleted(w, ack) : SkbIsCompleted(w[i], ack)
<1> DEFINE T == {n \in 0..Len(w) :
                    n < Len(w) => ~SkbIsCompleted(w[n + 1], ack)}
           Longest(n) == /\ \A i \in 1..n : SkbIsCompleted(w[i], ack)
                         /\ n < Len(w) => ~SkbIsCompleted(w[n + 1], ack)
<1>1. Len(w) \in Nat /\ Len(w) \in T /\ T \in SUBSET Nat
    OBVIOUS
<1>2. PICK m \in T : \A k \in T : m <= k
    BY <1>1, SmallestInSet, Zenon
<1>3. \A i \in 1..m : SkbIsCompleted(w[i], ack)
  <2> SUFFICES ASSUME NEW i \in 1..m PROVE SkbIsCompleted(w[i], ack)
    OBVIOUS
  <2>1. i - 1 \in 0..Len(w) /\ ~(m <= i - 1) /\ m \in 0..Len(w)
    BY <1>1
  <2>2. i - 1 \notin T
    BY <2>1, <1>2, Zenon
  <2>3. SkbIsCompleted(w[(i - 1) + 1], ack)
    BY <2>1, <2>2
  <2> QED BY <2>3
<1>4. m \in 0..Len(w) /\ Longest(m)
    BY <1>2, <1>3
<1>5. NumCompleted(w, ack) = CHOOSE n \in 0..Len(w) : Longest(n)
    BY DEF NumCompleted
<1> HIDE DEF Longest
<1>6. NumCompleted(w, ack) \in 0..Len(w) /\ Longest(NumCompleted(w, ack))
    BY <1>4, <1>5
<1> QED BY <1>6 DEF Longest

\* The completions of a run of skbs.
LEMMA CompsOfFacts ==
    ASSUME NEW w \in Seq(SkbType), NEW status \in {"OK", "TIMEOUT", "CANCELED"}
    PROVE  /\ CompsOf(w, status) \in SUBSET CompType
           /\ \A c \in CompsOf(w, status) :
                 /\ c.status = status
                 /\ \E i \in DOMAIN w : c.psn = w[i].psn
<1> SUFFICES ASSUME NEW i \in DOMAIN w
             PROVE  /\ Comp(w[i], status) \in CompType
                    /\ Comp(w[i], status).status = status
                    /\ Comp(w[i], status).psn = w[i].psn
    BY DEF CompsOf
<1> QED BY SkbFields DEF Comp, CompType

\* What a release that starts from window w may do: the messages that leave
\* are acknowledged, what is not acknowledged stays.
Released(w, v, ack, psn) ==
    /\ \A i \in DOMAIN v : v[i].psn < psn
    /\ \A n \in ack + 1 .. psn - 1 : Holds(w, n) => Holds(v, n)

ReleaseStep(s, t, status, async) ==
    /\ t.psn = s.psn /\ t.acked_psn = s.acked_psn
    /\ t.max_psn = s.max_psn /\ t.life = s.life /\ RxSame(s, t)
    /\ Released(s.window, t.window, s.acked_psn, s.psn)
    /\ \A c \in t.comps \ s.comps : c.psn <= s.acked_psn /\ c.status = status
    /\ \A c \in t.async_comp_q \ s.async_comp_q : c.psn <= s.acked_psn
    /\ ~async => t.async_comp_q = s.async_comp_q

\* uct_ud_ep_window_release takes acknowledged messages off the window, and
\* reports only these.
LEMMA WindowReleaseFacts ==
    ASSUME NEW s \in EpType, NEW status \in {"OK", "TIMEOUT", "CANCELED"},
           NEW async \in BOOLEAN, NEW inval \in BOOLEAN,
           s.psn <= s.acked_psn + MaxWindow + 1,
           \A i \in DOMAIN s.window : s.window[i].psn < s.psn
    PROVE  /\ WindowRelease(s, status, async, inval) \in EpType
           /\ ReleaseStep(s, WindowRelease(s, status, async, inval),
                          status, async)
<1> DEFINE w == s.window
           n == NumCompleted(w, s.acked_psn)
           gone == SubSeq(w, 1, n)
           rest == SubSeq(w, n + 1, Len(w))
           comps == CompsOf(gone, status)
           reset == inval /\ \E i \in 1..n : s.resend_pos = Id(w[i])
           pos == IF reset THEN Begin ELSE s.resend_pos
           rpsn == IF reset THEN s.acked_psn + 1 ELSE s.resend_psn
           q == IF async THEN s.async_comp_q \cup comps ELSE s.async_comp_q
           cs == IF async THEN s.comps ELSE s.comps \cup comps
           t == WindowRelease(s, status, async, inval)
           u == [s EXCEPT !.window = rest, !.resend_pos = pos,
                          !.resend_psn = rpsn, !.async_comp_q = q,
                          !.comps = cs]
<1>1. t = u
    BY DEF WindowRelease
<1>2. /\ w \in Seq(SkbType) /\ s.acked_psn \in Nat /\ s.psn \in Nat
      /\ Len(w) \in Nat /\ DOMAIN w = 1..Len(w)
    BY EpFields
<1>3. n \in 0..Len(w) /\ \A i \in 1..n : SkbIsCompleted(w[i], s.acked_psn)
    BY <1>2, NumCompletedFacts
<1> HIDE DEF n
<1>4. /\ gone \in Seq(SkbType) /\ Len(gone) = n /\ DOMAIN gone = 1..n
      /\ \A i \in 1..n : gone[i] = w[i]
    BY <1>2, <1>3
<1>5. /\ rest \in Seq(SkbType) /\ Len(rest) = Len(w) - n
      /\ DOMAIN rest = 1..Len(w) - n
      /\ \A i \in 1..Len(w) - n : rest[i] = w[n + i]
    BY <1>2, <1>3
<1>6. \A i \in 1..n : w[i].psn <= s.acked_psn
  <2> SUFFICES ASSUME NEW i \in 1..n PROVE w[i].psn <= s.acked_psn
    OBVIOUS
  <2>1. PsnLe(w[i].psn, s.acked_psn)
    BY <1>3 DEF SkbIsCompleted
  <2>2. i \in DOMAIN w /\ w[i].psn \in Nat
    BY <1>2, <1>3, SkbFields
  <2>3. w[i].psn < s.psn /\ s.psn <= s.acked_psn + MaxWindow + 1
    BY <2>2
  <2>4. w[i].psn - s.acked_psn < Half
    BY <1>2, <2>2, <2>3, HalfFacts, SMTT(60)
  <2> QED BY <2>1, <2>2, <2>4, <1>2, PsnLeBound
<1> HIDE DEF gone, rest
<1>7. /\ comps \in SUBSET CompType
      /\ \A c \in comps : c.status = status /\ c.psn <= s.acked_psn
    BY <1>4, <1>6, CompsOfFacts
<1> HIDE DEF comps
<1>8. Released(w, rest, s.acked_psn, s.psn)
  <2>1. ASSUME NEW i \in DOMAIN rest PROVE rest[i].psn < s.psn
    <3>1. n + i \in DOMAIN w
        BY <1>2, <1>3, <1>5
    <3>2. rest[i] = w[n + i]
        BY <1>5
    <3> QED BY <3>1, <3>2
  <2>2. ASSUME NEW m \in s.acked_psn + 1 .. s.psn - 1, Holds(w, m)
        PROVE  Holds(rest, m)
    <3>1. PICK i \in DOMAIN w : w[i].psn = m /\ w[i].flush = 0
        BY <2>2 DEF Holds
    <3>2. i \notin 1..n
        BY <3>1, <1>6, <1>2
    <3>3. PICK j \in 1..Len(w) - n : n + j = i
      <4>1. i - n \in 1..Len(w) - n /\ n + (i - n) = i
        BY <3>2, <1>2, <1>3
      <4> QED BY <4>1
    <3>4. j \in DOMAIN rest /\ rest[j] = w[i]
        BY <3>3, <1>5
    <3> QED BY <3>1, <3>4 DEF Holds
  <2> QED BY <2>1, <2>2 DEF Released
<1>9. /\ pos \in Nat \X Nat /\ rpsn \in Nat
      /\ q \in SUBSET CompType /\ cs \in SUBSET CompType
    BY EpFields, <1>7 DEF Begin
<1>10. /\ \A c \in cs \ s.comps : c.psn <= s.acked_psn /\ c.status = status
       /\ \A c \in q \ s.async_comp_q : c.psn <= s.acked_psn
       /\ ~async => q = s.async_comp_q
    BY <1>7
<1> HIDE DEF pos, rpsn, q, cs
<1>11. u \in EpType
    BY <1>5, <1>9, ZenonT(60) DEF EpType
<1>12. /\ u.psn = s.psn /\ u.acked_psn = s.acked_psn
       /\ u.max_psn = s.max_psn /\ u.life = s.life /\ RxSame(s, u)
       /\ u.window = rest /\ u.comps = cs /\ u.async_comp_q = q
    BY DEF EpType, RxSame
<1> HIDE DEF u
<1> QED BY <1>1, <1>8, <1>10, <1>11, <1>12 DEF ReleaseStep

-----------------------------------------------------------------------------
(* Acknowledgements and completions. *)

\* An acknowledgement moves acked_psn forward or is ignored.
LEMMA ProcessAckFacts ==
    ASSUME NEW s \in EpType, TxInv(s), NEW ack \in Nat, NEW async \in BOOLEAN,
           ack < s.psn, s.psn - ack < Half
    PROVE  LET t == ProcessAck(s, ack, async)
           IN  /\ t \in EpType /\ TxInv(t) /\ Settles(s, t)
               /\ t.acked_psn = IF s.acked_psn < ack THEN ack ELSE s.acked_psn
<1> DEFINE t == ProcessAck(s, ack, async)
<1>1. /\ ack - s.acked_psn < Half /\ s.acked_psn - ack < Half
      /\ s.psn - ack < Half /\ ack - s.psn < Half
      /\ ack \in Int /\ s.psn \in Int /\ s.acked_psn \in Int
    BY TxFacts, HalfFacts
<1>2. /\ PsnLe(ack, s.acked_psn) <=> ack <= s.acked_psn
      /\ PsnLe(s.psn, ack) <=> s.psn <= ack
  <2>1. PsnLe(ack, s.acked_psn) <=> ack <= s.acked_psn
    BY <1>1, PsnCompare
  <2>2. PsnLe(s.psn, ack) <=> s.psn <= ack
    BY <1>1, PsnCompare
  <2> QED BY <2>1, <2>2
<1>3. CASE ack <= s.acked_psn
  <2>1. t = s
    BY <1>2, <1>3, Zenon DEF ProcessAck
  <2>2. Settles(s, s)
    BY DEF Settles, RxSame
  <2> QED BY <2>1, <2>2, <1>3, TxFacts
<1>4. CASE s.acked_psn < ack
  <2> DEFINE u == [s EXCEPT !.acked_psn = ack]
             v == WindowRelease(u, "OK", async, FALSE)
             c == CaAck(v)
  <2>1. t = ResendAck(c)
    <3>1. ~PsnLe(ack, s.acked_psn) /\ ~PsnLe(s.psn, ack)
        BY <1>1, <1>2, <1>4
    <3> QED BY <3>1, Zenon DEF ProcessAck
  <2>2. u \in EpType
    BY ZenonT(60) DEF EpType
  <2>3. /\ u.acked_psn = ack /\ u.psn = s.psn /\ u.window = s.window
        /\ u.life = s.life /\ CompSame(s, u) /\ RxSame(s, u)
    BY DEF EpType, CompSame, RxSame
  <2> HIDE DEF u
  <2>4. /\ u.psn <= u.acked_psn + MaxWindow + 1
        /\ \A i \in DOMAIN u.window : u.window[i].psn < u.psn
    <3>1. \A i \in DOMAIN u.window : u.window[i].psn < u.psn
        BY <2>3 DEF TxInv
    <3> QED BY <3>1, <2>3, <1>4, TxFacts, HalfFacts
  <2>5a. v \in EpType /\ ReleaseStep(u, v, "OK", async)
    BY <2>2, <2>4, WindowReleaseFacts, Zenon
  <2> HIDE DEF v
  <2>5. /\ v \in EpType
        /\ v.psn = u.psn /\ v.acked_psn = u.acked_psn /\ v.life = u.life
        /\ RxSame(u, v) /\ Released(u.window, v.window, u.acked_psn, u.psn)
        /\ \A x \in v.comps \ u.comps : x.psn <= u.acked_psn
        /\ \A x \in v.async_comp_q \ u.async_comp_q : x.psn <= u.acked_psn
    BY <2>5a DEF ReleaseStep
  <2>6. /\ c \in EpType /\ c.psn = v.psn /\ c.acked_psn = v.acked_psn
        /\ c.life = v.life /\ c.window = v.window /\ CompSame(v, c)
        /\ RxSame(v, c)
        /\ v.acked_psn < c.max_psn /\ c.max_psn <= v.acked_psn + MaxWindow
    BY <2>5, CaAckFacts
  <2> HIDE DEF c
  <2>7. t \in EpType /\ Quiet(c, t)
    BY <2>1, <2>6, ResendAckFacts
  <2>8. TxInv(c)
    <3>1. \A i \in DOMAIN c.window : c.window[i].psn < c.psn
        BY <2>3, <2>5, <2>6 DEF Released
    <3>2. \A n \in c.acked_psn + 1 .. c.psn - 1 : Holds(c.window, n)
      <4>1. \A n \in ack + 1 .. s.psn - 1 : Holds(s.window, n)
        BY <1>4, TxFacts DEF TxInv
      <4> QED BY <4>1, <2>3, <2>5, <2>6 DEF Released
    <3>3. c.life = "open" => \A x \in c.async_comp_q : x.psn <= c.acked_psn
      <4> SUFFICES ASSUME c.life = "open", NEW x \in c.async_comp_q
                   PROVE  x.psn <= ack
        BY <2>3, <2>5, <2>6
      <4>1. CASE x \in s.async_comp_q
        <5>1. x.psn <= s.acked_psn
          <6>1. s.life = "open"
            BY <2>3, <2>5, <2>6
          <6> QED BY <6>1, <4>1 DEF TxInv
        <5>2. x.psn \in Nat
            BY <4>1, EpFields DEF CompType
        <5> QED BY <5>1, <5>2, <1>4, TxFacts
      <4>2. CASE x \notin s.async_comp_q
        BY <4>2, <2>3, <2>5, <2>6 DEF CompSame
      <4> QED BY <4>1, <4>2
    <3>4. /\ c.psn = s.psn /\ c.acked_psn = ack /\ ack < c.max_psn
          /\ c.max_psn <= ack + MaxWindow /\ c.max_psn \in Nat
        BY <2>3, <2>5, <2>6, EpFields
    <3>5. /\ InitialPsn - 1 <= ack /\ ack < s.psn
          /\ s.psn <= ack + MaxWindow + 1 /\ c.max_psn <= ack + MaxWindow + 1
        BY <3>4, <1>4, TxFacts, HalfFacts
    <3> QED BY <3>1, <3>2, <3>3, <3>4, <3>5, SMTT(60) DEF TxInv
  <2>9. TxInv(t)
    BY <2>6, <2>7, <2>8, QuietKeepsTx
  <2>10. Settles(s, t) /\ t.acked_psn = ack
    BY <2>3, <2>5, <2>6, <2>7 DEF Settles, Quiet, RxSame, CompSame
  <2> QED BY <2>7, <2>9, <2>10, <1>4
<1> QED BY <1>3, <1>4, TxFacts

LEMMA ClearResendingFacts ==
    ASSUME NEW w \in Seq(SkbType), NEW d
    PROVE  /\ ClearResending(w, d) \in Seq(SkbType)
           /\ SameIds(w, ClearResending(w, d))
<1> DEFINE v == ClearResending(w, d)
<1>1. DOMAIN w = 1..Len(w) /\ Len(w) \in Nat
    OBVIOUS
<1>2. ASSUME NEW i \in DOMAIN w
      PROVE  v[i] \in SkbType /\ v[i].psn = w[i].psn /\ v[i].flush = w[i].flush
  <2>1. w[i] \in SkbType
    BY SkbFields
  <2>2. /\ [w[i] EXCEPT !.resending = FALSE] \in SkbType
        /\ [w[i] EXCEPT !.resending = FALSE].psn = w[i].psn
        /\ [w[i] EXCEPT !.resending = FALSE].flush = w[i].flush
    BY <2>1, Zenon DEF SkbType
  <2> QED BY <2>1, <2>2 DEF ClearResending
<1>3. DOMAIN v = 1..Len(w) /\ v = [i \in 1..Len(w) |-> v[i]]
    BY <1>1 DEF ClearResending
<1>4. v \in Seq(SkbType)
  <2>1. v \in [1..Len(w) -> SkbType]
    BY <1>1, <1>2, <1>3
  <2> QED BY <2>1, <1>1
<1> QED BY <1>1, <1>2, <1>3, <1>4 DEF SameIds

\* A release that leaves acked_psn alone, after marks were cleared.
LEMMA ReleaseAfterClear ==
    ASSUME NEW s \in EpType, TxInv(s), NEW u \in EpType,
           u.psn = s.psn, u.acked_psn = s.acked_psn, u.max_psn = s.max_psn,
           u.life = s.life, CompSame(s, u), RxSame(s, u),
           SameIds(s.window, u.window), NEW async \in BOOLEAN
    PROVE  LET t == WindowRelease(u, "OK", async, TRUE)
           IN  /\ t \in EpType /\ TxInv(t) /\ Settles(s, t)
               /\ t.acked_psn = s.acked_psn
<1> DEFINE t == WindowRelease(u, "OK", async, TRUE)
<1>1. TxInv(u)
    BY QuietKeepsTx DEF Quiet
<1>2. /\ u.psn <= u.acked_psn + MaxWindow + 1
      /\ \A i \in DOMAIN u.window : u.window[i].psn < u.psn
    BY <1>1 DEF TxInv
<1>3. t \in EpType /\ ReleaseStep(u, t, "OK", async)
    BY <1>2, WindowReleaseFacts, Zenon
<1> HIDE DEF t
<1>4. Settles(s, t) /\ t.acked_psn = s.acked_psn
    BY <1>3 DEF ReleaseStep, Settles, RxSame, CompSame
<1>5. \A n \in t.acked_psn + 1 .. t.psn - 1 : Holds(t.window, n)
    BY <1>1, <1>3 DEF TxInv, ReleaseStep, Released
<1>6. \A i \in DOMAIN t.window : t.window[i].psn < t.psn
    BY <1>3 DEF ReleaseStep, Released
<1>7. t.life = "open" => \A c \in t.async_comp_q : c.psn <= t.acked_psn
    BY <1>1, <1>3, SMTT(60) DEF TxInv, ReleaseStep
<1>8. TxInv(t)
    BY <1>1, <1>3, <1>5, <1>6, <1>7 DEF TxInv, ReleaseStep
<1> QED BY <1>3, <1>4, <1>8, Zenon DEF t

LEMMA CtlSkbCompleteFacts ==
    ASSUME NEW s \in EpType, TxInv(s), NEW d, NEW async \in BOOLEAN
    PROVE  LET t == CtlSkbComplete(s, d, async)
           IN  /\ t \in EpType /\ TxInv(t) /\ Settles(s, t)
               /\ t.acked_psn = s.acked_psn
<1> DEFINE w == ClearResending(s.window, {d})
           n == IF d = AckDesc THEN s.resend_count ELSE s.resend_count - 1
           u == [s EXCEPT !.window = w, !.resend_count = n]
<1>1. w \in Seq(SkbType) /\ SameIds(s.window, w) /\ n \in Int
    BY EpFields, ClearResendingFacts
<1>2. CtlSkbComplete(s, d, async) = WindowRelease(u, "OK", async, TRUE)
    BY DEF CtlSkbComplete
<1> HIDE DEF w, n
<1>3. u \in EpType
    BY <1>1, ZenonT(60) DEF EpType
<1>4. /\ u.psn = s.psn /\ u.acked_psn = s.acked_psn /\ u.max_psn = s.max_psn
      /\ u.life = s.life /\ CompSame(s, u) /\ RxSame(s, u) /\ u.window = w
    BY DEF EpType, CompSame, RxSame
<1> HIDE DEF u
<1>5. SameIds(s.window, u.window)
    BY <1>1, <1>4
<1>6. LET t == WindowRelease(u, "OK", async, TRUE)
      IN  /\ t \in EpType /\ TxInv(t) /\ Settles(s, t)
          /\ t.acked_psn = s.acked_psn
    BY <1>3, <1>4, <1>5, ReleaseAfterClear, Zenon
<1> QED BY <1>2, <1>6, Zenon

LEMMA DispatchAsyncCompsFacts ==
    ASSUME NEW s \in EpType
    PROVE  LET t == DispatchAsyncComps(s)
           IN  /\ t \in EpType /\ t.psn = s.psn /\ t.acked_psn = s.acked_psn
               /\ t.max_psn = s.max_psn /\ t.life = s.life
               /\ t.window = s.window /\ t.async_comp_q = {}
               /\ t.comps = s.comps \cup s.async_comp_q
               /\ RxSame(s, t)
<1> DEFINE cs == s.comps \cup s.async_comp_q
           t == [s EXCEPT !.comps = cs, !.async_comp_q = {}]
<1>1. DispatchAsyncComps(s) = t
    BY DEF DispatchAsyncComps
<1>2. cs \in SUBSET CompType
    BY EpFields
<1> HIDE DEF cs
<1>3. t \in EpType
    BY <1>2, ZenonT(60) DEF EpType
<1>4. /\ t.psn = s.psn /\ t.acked_psn = s.acked_psn
      /\ t.max_psn = s.max_psn /\ t.life = s.life
      /\ t.window = s.window /\ t.async_comp_q = {}
      /\ t.comps = cs /\ RxSame(s, t)
    BY DEF EpType, RxSame
<1> QED BY <1>1, <1>3, <1>4 DEF cs

LEMMA PurgeOutstandingFacts ==
    ASSUME NEW s \in EpType, s.psn <= s.acked_psn + MaxWindow + 1,
           \A i \in DOMAIN s.window : s.window[i].psn < s.psn
    PROVE  LET t == PurgeOutstanding(s)
           IN  /\ t \in EpType
               /\ t.psn = s.psn /\ t.max_psn = s.max_psn
               /\ t.life = s.life /\ RxSame(s, t)
               /\ t.async_comp_q = s.async_comp_q
               /\ \A i \in DOMAIN t.window : t.window[i].psn < t.psn
               /\ \A c \in t.comps \ s.comps : c.psn <= s.acked_psn
<1> DEFINE t == PurgeOutstanding(s)
<1>1. CASE s.outstanding = << >>
    BY <1>1 DEF PurgeOutstanding, RxSame
<1>2. CASE s.outstanding # << >>
  <2> DEFINE resent == SelectSeq(s.outstanding, IsResend)
             w == ClearResending(s.window,
                                 {resent[i] : i \in DOMAIN resent})
             n == s.resend_count - Len(resent)
             u == [s EXCEPT !.window = w, !.resend_count = n,
                            !.outstanding = << >>]
  <2>1. t = WindowRelease(u, "OK", FALSE, TRUE)
    BY <1>2 DEF PurgeOutstanding
  <2>2. w \in Seq(SkbType) /\ SameIds(s.window, w)
    BY EpFields, ClearResendingFacts
  <2>3. n \in Int
    <3>1. Len(resent) \in Nat
        BY EpFields
    <3> QED BY <3>1, EpFields
  <2> HIDE DEF w, n
  <2>4. u \in EpType
    <3>1. << >> \in Seq(Nat \X Nat)
        OBVIOUS
    <3> QED BY <3>1, <2>2, <2>3, ZenonT(60) DEF EpType
  <2>5. /\ u.psn = s.psn /\ u.acked_psn = s.acked_psn /\ u.max_psn = s.max_psn
        /\ u.life = s.life /\ CompSame(s, u) /\ RxSame(s, u) /\ u.window = w
    BY DEF EpType, CompSame, RxSame
  <2> HIDE DEF u
  <2>6. /\ u.psn <= u.acked_psn + MaxWindow + 1
        /\ \A i \in DOMAIN u.window : u.window[i].psn < u.psn
    BY <2>2, <2>5 DEF SameIds
  <2>7. t \in EpType /\ ReleaseStep(u, t, "OK", FALSE)
    BY <2>1, <2>4, <2>6, WindowReleaseFacts, Zenon
  <2> HIDE DEF t
  <2>8. /\ t.psn = s.psn /\ t.max_psn = s.max_psn /\ t.life = s.life
        /\ RxSame(s, t) /\ t.async_comp_q = s.async_comp_q
        /\ \A c \in t.comps \ s.comps : c.psn <= s.acked_psn
    BY <2>5, <2>7 DEF ReleaseStep, RxSame, CompSame
  <2>9. \A i \in DOMAIN t.window : t.window[i].psn < t.psn
    BY <2>7 DEF ReleaseStep, Released
  <2> QED BY <2>7, <2>8, <2>9 DEF t
<1> QED BY <1>1, <1>2

LEMMA PurgeFacts ==
    ASSUME NEW s \in EpType, TxInv(s), NEW status \in {"TIMEOUT", "CANCELED"}
    PROVE  /\ Purge(s, status) \in EpType /\ TxInv(Purge(s, status))
           /\ PurgeStep(s, Purge(s, status))
<1> DEFINE a == DispatchAsyncComps(s)
           b == ResetMaxPsn(a)
           c == PurgeOutstanding(b)
           d == [c EXCEPT !.ops = {}, !.acked_psn = s.psn - 1]
           t == Purge(s, status)
<1>1. t = WindowRelease(d, status, FALSE, FALSE)
    BY DEF Purge
<1>2. /\ a \in EpType /\ a.psn = s.psn /\ a.acked_psn = s.acked_psn
      /\ a.life = s.life /\ a.window = s.window /\ a.async_comp_q = {}
      /\ a.comps = s.comps \cup s.async_comp_q /\ RxSame(s, a)
    BY DispatchAsyncCompsFacts, Zenon
<1> HIDE DEF a
<1>3. /\ b \in EpType /\ b.psn = a.psn /\ b.acked_psn = a.acked_psn
      /\ b.life = a.life /\ b.window = a.window
      /\ CompSame(a, b) /\ RxSame(a, b)
      /\ a.psn < b.max_psn /\ b.max_psn <= a.psn + MaxWindow
    BY <1>2, ResetMaxPsnFacts
<1> HIDE DEF b
<1>4. /\ b.psn <= b.acked_psn + MaxWindow + 1
      /\ \A i \in DOMAIN b.window : b.window[i].psn < b.psn
    BY <1>2, <1>3 DEF TxInv
<1>5. /\ c \in EpType /\ c.psn = b.psn /\ c.max_psn = b.max_psn
      /\ c.life = b.life /\ RxSame(b, c) /\ c.async_comp_q = b.async_comp_q
      /\ \A i \in DOMAIN c.window : c.window[i].psn < c.psn
      /\ \A x \in c.comps \ b.comps : x.psn <= b.acked_psn
    BY <1>3, <1>4, PurgeOutstandingFacts, Zenon
<1> HIDE DEF c
<1>6. s.psn - 1 \in Nat /\ s.psn \in Nat
    BY TxFacts
<1>7. d \in EpType
    BY <1>5, <1>6, ZenonT(60) DEF EpType
<1>8. /\ d.psn = c.psn /\ d.acked_psn = s.psn - 1 /\ d.max_psn = c.max_psn
      /\ d.life = c.life /\ d.window = c.window /\ CompSame(c, d)
      /\ RxSame(c, d)
    BY <1>5 DEF EpType, CompSame, RxSame
<1> HIDE DEF d
<1>9. /\ d.psn <= d.acked_psn + MaxWindow + 1
      /\ \A i \in DOMAIN d.window : d.window[i].psn < d.psn
    BY <1>2, <1>3, <1>5, <1>6, <1>8, HalfFacts
<1>10. t \in EpType /\ ReleaseStep(d, t, status, FALSE)
    BY <1>1, <1>7, <1>9, WindowReleaseFacts, Zenon
<1> HIDE DEF t
<1>11. /\ t.psn = s.psn /\ t.life = s.life /\ t.acked_psn = s.psn - 1
       /\ t.max_psn = b.max_psn /\ t.async_comp_q = {}
    BY <1>2, <1>3, <1>5, <1>8, <1>10 DEF ReleaseStep, CompSame
<1>12. RxSame(s, t)
    BY <1>2, <1>3, <1>5, <1>8, <1>10 DEF ReleaseStep, RxSame
<1>13. TxInv(t)
  <2>1. \A i \in DOMAIN t.window : t.window[i].psn < t.psn
    BY <1>10 DEF ReleaseStep, Released
  <2>2. b.max_psn \in Nat /\ s.psn < b.max_psn /\ b.max_psn <= s.psn + MaxWindow
    BY <1>2, <1>3, EpFields
  <2>3. t.acked_psn + 1 .. t.psn - 1 = {}
    BY <1>6, <1>11
  <2> QED BY <2>1, <2>2, <2>3, <1>6, <1>11, TxFacts, HalfFacts, SMTT(60)
     DEF TxInv
<1>14. ASSUME NEW x \in t.comps \ s.comps, x.status = "OK", s.life = "open"
       PROVE  x.psn <= s.acked_psn
  <2>1. x \in d.comps
    BY <1>10, <1>14 DEF ReleaseStep
  <2>2. x \in c.comps
    BY <2>1, <1>8 DEF CompSame
  <2>3. CASE x \notin b.comps
    BY <2>2, <2>3, <1>2, <1>3, <1>5
  <2>4. CASE x \in b.comps
    BY <2>4, <1>2, <1>3, <1>14 DEF CompSame, TxInv
  <2> QED BY <2>3, <2>4
<1>15. PurgeStep(s, t)
    BY <1>11, <1>12, <1>14 DEF PurgeStep
<1> QED BY <1>10, <1>13, <1>15 DEF t

-----------------------------------------------------------------------------
(* Sending. *)

\* An outgoing acknowledgement catches up with what was received.
LEMMA AckedKeepsRx ==
    ASSUME NEW s \in EpType, RxInv(s), NEW t,
           t.head_sn = s.head_sn, t.rx_acked = s.head_sn,
           t.delivered = s.delivered, t.pending_q = s.pending_q
    PROVE  RxInv(t)
<1>1. InitialPsn - 1 <= s.head_sn /\ s.head_sn <= s.head_sn
    BY EpFields, HalfFacts DEF RxInv
<1> QED BY <1>1, Zenon DEF RxInv

LEMMA SendAmFacts ==
    ASSUME NEW s \in EpType, TxInv(s), RxInv(s), NEW skb \in SkbType,
           skb.psn = s.psn, skb.flush = 0, s.psn < s.max_psn
    PROVE  LET t == SendAm(s, skb)
           IN  /\ t \in EpType /\ TxInv(t) /\ RxInv(t)
               /\ t.psn = s.psn + 1 /\ t.acked_psn = s.acked_psn
               /\ t.life = s.life /\ t.head_sn = s.head_sn /\ CompSame(s, t)
<1> DEFINE w == Append(s.window, skb)
           p == s.psn + 1
           ops == s.ops \ {"ACK", "ACK_REQ"}
           t == [s EXCEPT !.rx_acked = s.head_sn, !.ops = ops, !.psn = p,
                          !.window = w, !.timer = TRUE]
<1>1. SendAm(s, skb) = t
    BY DEF SendAm
<1>2. w \in Seq(SkbType) /\ p \in Nat /\ ops \in SUBSET Ops /\ s.head_sn \in Nat
    BY EpFields, AppendFacts
<1>3. \A i \in DOMAIN w : w[i].psn < p
  <2>1. skb.psn < p
    BY EpFields
  <2>2. \A i \in DOMAIN s.window : s.window[i].psn < p
    BY EpFields, SkbFields DEF TxInv
  <2> HIDE DEF p
  <2> QED BY <2>1, <2>2, <1>2, EpFields, BelowAppend
<1>4. \A n \in s.acked_psn + 1 .. p - 1 : Holds(w, n)
  <2> SUFFICES ASSUME NEW n \in s.acked_psn + 1 .. p - 1 PROVE Holds(w, n)
    OBVIOUS
  <2>1. CASE n = s.psn
    <3>1. /\ Len(s.window) + 1 \in DOMAIN w
          /\ w[Len(s.window) + 1] = skb
        BY EpFields, AppendFacts
    <3> QED BY <3>1, <2>1 DEF Holds
  <2>2. CASE n # s.psn
    <3>1. n \in s.acked_psn + 1 .. s.psn - 1
        BY <2>2, EpFields
    <3>2. Holds(s.window, n)
        BY <3>1 DEF TxInv
    <3> QED BY <3>2, EpFields, HoldsAppend
  <2> QED BY <2>1, <2>2
<1>5. s.acked_psn < p /\ p <= s.acked_psn + MaxWindow + 1
    BY TxFacts, HalfFacts
<1> HIDE DEF w, p, ops
<1>6. t \in EpType
    BY <1>2, ZenonT(60) DEF EpType
<1>7. /\ t.psn = p /\ t.acked_psn = s.acked_psn /\ t.max_psn = s.max_psn
      /\ t.life = s.life /\ t.window = w /\ CompSame(s, t)
      /\ t.head_sn = s.head_sn /\ t.rx_acked = s.head_sn
      /\ t.delivered = s.delivered /\ t.pending_q = s.pending_q
    BY DEF EpType, CompSame
<1> HIDE DEF t
<1>8. TxInv(t)
    BY <1>3, <1>4, <1>5, <1>7 DEF TxInv, CompSame
<1>9. RxInv(t)
    BY <1>7, AckedKeepsRx
<1> QED BY <1>1, <1>6, <1>7, <1>8, <1>9 DEF p

LEMMA SendAckFacts ==
    ASSUME NEW s \in EpType, RxInv(s)
    PROVE  LET t == SendAck(s)
           IN  /\ t \in EpType /\ RxInv(t)
               /\ t.psn = s.psn /\ t.acked_psn = s.acked_psn
               /\ t.max_psn = s.max_psn /\ t.life = s.life
               /\ t.window = s.window /\ CompSame(s, t)
               /\ t.head_sn = s.head_sn
<1> DEFINE ops == s.ops \ CtlAck
           out == IF "ACK_REQ" \in s.ops THEN Append(s.outstanding, AckDesc)
                  ELSE s.outstanding
           t == [s EXCEPT !.rx_acked = s.head_sn, !.ops = ops,
                          !.outstanding = out]
<1>1. SendAck(s) = t
    BY DEF SendAck
<1>2. ops \in SUBSET Ops /\ out \in Seq(Nat \X Nat) /\ s.head_sn \in Nat
  <2>1. AckDesc \in Nat \X Nat
    BY DEF AckDesc
  <2> QED BY <2>1, EpFields
<1> HIDE DEF ops, out
<1>3. t \in EpType
    BY <1>2, ZenonT(60) DEF EpType
<1>4. /\ t.psn = s.psn /\ t.acked_psn = s.acked_psn
      /\ t.max_psn = s.max_psn /\ t.life = s.life
      /\ t.window = s.window /\ CompSame(s, t)
      /\ t.head_sn = s.head_sn /\ t.rx_acked = s.head_sn
      /\ t.delivered = s.delivered /\ t.pending_q = s.pending_q
    BY DEF EpType, CompSame
<1> HIDE DEF t
<1>5. RxInv(t)
    BY <1>4, AckedKeepsRx
<1> QED BY <1>1, <1>3, <1>4, <1>5

LEMMA ResendSkipFacts ==
    ASSUME NEW s \in EpType, NEW i \in DOMAIN s.window
    PROVE  ResendSkip(s, i) \in EpType /\ Quiet(s, ResendSkip(s, i))
<1> DEFINE pos == Id(s.window[i])
<1>1. pos \in Nat \X Nat
    BY EpFields, SkbFields
<1>2. ResendSkip(s, i) = [s EXCEPT !.resend_pos = pos]
    BY DEF ResendSkip
<1> HIDE DEF pos
<1>3. [s EXCEPT !.resend_pos = pos] \in EpType
    BY <1>1, ZenonT(60) DEF EpType
<1>4. Quiet(s, [s EXCEPT !.resend_pos = pos])
    BY SameIdsRefl DEF EpType, Quiet, RxSame, CompSame
<1> QED BY <1>2, <1>3, <1>4

LEMMA ResendSkbFacts ==
    ASSUME NEW s \in EpType, NEW i \in DOMAIN s.window
    PROVE  ResendSkb(s, i) \in EpType /\ Quiet(s, ResendSkb(s, i))
<1> DEFINE w == s.window
           last == PsnEq(w[i].psn, s.resend_max)
           pos == Id(w[i])
           v == [w EXCEPT ![i].resending = TRUE]
           psn == IF last THEN s.resend_max + 1 ELSE w[i].psn
           out == Append(s.outstanding, pos)
           n == s.resend_count + 1
           u == [s EXCEPT !.resend_pos = pos, !.window = v, !.resend_psn = psn,
                          !.outstanding = out, !.resend_count = n]
<1>1. ResendSkb(s, i) = IF last THEN ResendEnd(u) ELSE u
    BY DEF ResendSkb
<1>2. /\ pos \in Nat \X Nat /\ psn \in Nat /\ n \in Int
      /\ w \in Seq(SkbType) /\ w[i] \in SkbType /\ i \in 1..Len(w)
    BY EpFields, SkbFields
<1>3. out \in Seq(Nat \X Nat)
    BY <1>2, EpFields
<1>4. v \in Seq(SkbType) /\ SameIds(w, v)
  <2> DEFINE x == [w[i] EXCEPT !.resending = TRUE]
  <2>1. x \in SkbType /\ x.psn = w[i].psn /\ x.flush = w[i].flush
    BY <1>2, Zenon DEF SkbType
  <2>2. v = [w EXCEPT ![i] = x]
    OBVIOUS
  <2> HIDE DEF x
  <2>3. [w EXCEPT ![i] = x] \in Seq(SkbType)
    BY <1>2, <2>1
  <2> QED BY <2>1, <2>2, <2>3, Zenon DEF SameIds
<1> HIDE DEF pos, v, psn, out, n
<1>5. u \in EpType
    BY <1>2, <1>3, <1>4, ZenonT(60) DEF EpType
<1>6. Quiet(s, u)
    BY <1>4 DEF EpType, Quiet, RxSame, CompSame
<1> HIDE DEF u
<1>7. ResendEnd(u) \in EpType /\ Quiet(u, ResendEnd(u))
    BY <1>5, ResendEndFacts
<1>8. Quiet(s, ResendEnd(u))
    BY <1>6, <1>7 DEF Quiet, RxSame, CompSame, SameIds
<1> QED BY <1>1, <1>5, <1>6, <1>7, <1>8

-----------------------------------------------------------------------------
(* Flush, cancel and timer. *)

\* An empty window means that everything was acknowledged.
LEMMA EmptyWindow ==
    ASSUME NEW s \in EpType, TxInv(s), s.window = << >>
    PROVE  s.acked_psn = s.psn - 1
<1> SUFFICES ASSUME s.acked_psn # s.psn - 1 PROVE FALSE
    OBVIOUS
<1>1. s.psn - 1 \in s.acked_psn + 1 .. s.psn - 1
    BY TxFacts
<1>2. Holds(s.window, s.psn - 1)
    BY <1>1 DEF TxInv
<1> QED BY <1>2 DEF Holds

LEMMA LastInWindow ==
    ASSUME NEW s \in EpType, TxInv(s), ~IsLastAckReceived(s)
    PROVE  Len(s.window) \in DOMAIN s.window
<1>1. s.psn - 1 \in Int /\ s.acked_psn \in Int
    BY EpFields
<1>2. s.acked_psn # s.psn - 1
  <2> SUFFICES ASSUME s.acked_psn = s.psn - 1 PROVE FALSE
    OBVIOUS
  <2>1. PsnEq(s.acked_psn, s.psn - 1)
    BY <1>1, HalfFacts, PsnCompare
  <2> QED BY <2>1 DEF IsLastAckReceived
<1>3. s.window # << >>
    BY <1>2, EmptyWindow
<1> QED BY <1>3, EpFields

LEMMA CompSkbAddFacts ==
    ASSUME NEW s \in EpType, TxInv(s), RxInv(s), NEW n \in Nat
    PROVE  Asked(s, CompSkbAdd(s, n))
<1> DEFINE dummy == Skb(s.psn - 1, n, FALSE, TRUE, TRUE)
           t == CompSkbAdd(s, n)
<1>1. s.psn \in Nat /\ s.psn - 1 \in Nat /\ s.psn - 1 < s.psn
    BY TxFacts
<1>2. dummy \in SkbType /\ dummy.psn = s.psn - 1
    BY <1>1 DEF Skb, SkbType
<1>3. CASE s.window # << >>
  <2> DEFINE w == Append(s.window, dummy)
             u == [s EXCEPT !.window = w]
  <2>1. t = u
    BY <1>3 DEF CompSkbAdd
  <2> HIDE DEF dummy
  <2>2. w \in Seq(SkbType)
    BY <1>2, EpFields, AppendFacts
  <2>3. \A i \in DOMAIN w : w[i].psn < s.psn
    <3>1. \A i \in DOMAIN s.window : s.window[i].psn < s.psn
        BY DEF TxInv
    <3> QED BY <3>1, <1>1, <1>2, EpFields, BelowAppend
  <2>4. \A m \in s.acked_psn + 1 .. s.psn - 1 : Holds(w, m)
    <3>1. \A m \in s.acked_psn + 1 .. s.psn - 1 : Holds(s.window, m)
        BY DEF TxInv
    <3> QED BY <3>1, <1>2, EpFields, HoldsAppend
  <2> HIDE DEF w
  <2>5. u \in EpType
    BY <2>2, Zenon DEF EpType
  <2>6. /\ u.psn = s.psn /\ u.acked_psn = s.acked_psn /\ u.max_psn = s.max_psn
        /\ u.life = s.life /\ u.window = w /\ CompSame(s, u) /\ RxSame(s, u)
    BY DEF EpType, CompSame, RxSame
  <2> HIDE DEF u
  <2>7. TxInv(u)
    BY <2>3, <2>4, <2>6 DEF TxInv, CompSame
  <2>8. RxInv(u)
    BY <2>6, QuietKeepsRx
  <2> QED BY <2>1, <2>5, <2>6, <2>7, <2>8 DEF Asked, CompSame, RxSame
<1>4. CASE s.window = << >>
  <2> DEFINE q == s.async_comp_q \cup {Comp(dummy, "OK")}
             u == [s EXCEPT !.async_comp_q = q]
  <2>1. t = u
    BY <1>4 DEF CompSkbAdd
  <2> HIDE DEF dummy
  <2>2. Comp(dummy, "OK") \in CompType /\ Comp(dummy, "OK").psn = s.psn - 1
    BY <1>2 DEF Comp, CompType, SkbType
  <2>3. q \in SUBSET CompType
    BY <2>2, EpFields
  <2>4. s.life = "open" => \A c \in q : c.psn <= s.acked_psn
    <3>1. s.psn - 1 <= s.acked_psn
        BY <1>1, <1>4, EmptyWindow
    <3> QED BY <3>1, <2>2 DEF TxInv
  <2> HIDE DEF q
  <2>5. u \in EpType
    BY <2>3, ZenonT(60) DEF EpType
  <2>6. /\ u.psn = s.psn /\ u.acked_psn = s.acked_psn /\ u.max_psn = s.max_psn
        /\ u.life = s.life /\ u.window = s.window /\ u.async_comp_q = q
        /\ u.comps = s.comps /\ RxSame(s, u)
    BY DEF EpType, RxSame
  <2> HIDE DEF u
  <2>7. TxInv(u)
    BY <2>4, <2>6 DEF TxInv
  <2>8. RxInv(u)
    BY <2>6, QuietKeepsRx
  <2> QED BY <2>1, <2>5, <2>6, <2>7, <2>8 DEF Asked, RxSame
<1> QED BY <1>3, <1>4

\* A flush that finds nothing outstanding reports what was acknowledged.
LEMMA FlushDoneFacts ==
    ASSUME NEW s \in EpType, TxInv(s), RxInv(s), NEW n \in Nat, FlushIdle(s)
    PROVE  LET t == FlushDone(s, n)
           IN  /\ t \in EpType /\ TxInv(t) /\ RxInv(t)
               /\ t.psn = s.psn /\ t.acked_psn = s.acked_psn
               /\ t.life = s.life /\ t.head_sn = s.head_sn
               /\ \A c \in t.comps \ s.comps : c.psn <= s.acked_psn
<1> DEFINE c == [psn |-> s.psn - 1, flush |-> n, status |-> "OK"]
           cs == s.comps \cup {c}
           t == [s EXCEPT !.comps = cs]
<1>1. FlushDone(s, n) = t
    BY DEF FlushDone
<1>2. s.acked_psn = s.psn - 1 /\ s.psn - 1 \in Nat
    BY EmptyWindow, TxFacts DEF FlushIdle
<1>3. c \in CompType /\ c.psn <= s.acked_psn
    BY <1>2 DEF CompType
<1> HIDE DEF c
<1>4. cs \in SUBSET CompType /\ \A x \in cs \ s.comps : x.psn <= s.acked_psn
    BY <1>3, EpFields
<1> HIDE DEF cs
<1>5. t \in EpType
    BY <1>4, ZenonT(60) DEF EpType
<1>6. /\ t.psn = s.psn /\ t.acked_psn = s.acked_psn /\ t.max_psn = s.max_psn
      /\ t.life = s.life /\ t.window = s.window /\ t.comps = cs
      /\ t.async_comp_q = s.async_comp_q /\ RxSame(s, t)
    BY DEF EpType, RxSame
<1> HIDE DEF t
<1>7. TxInv(t)
    BY <1>6 DEF TxInv
<1>8. RxInv(t)
    BY <1>6, QuietKeepsRx
<1> QED BY <1>1, <1>4, <1>5, <1>6, <1>7, <1>8 DEF RxSame

\* An ack request leaves only the control state and rx_acked changed.
LEMMA AckReqDoFacts ==
    ASSUME NEW s \in EpType, TxInv(s), RxInv(s)
    PROVE  LET t == AckReqDo(s)
           IN  /\ t \in EpType /\ TxInv(t) /\ RxInv(t)
               /\ t.psn = s.psn /\ t.acked_psn = s.acked_psn
               /\ t.max_psn = s.max_psn /\ t.life = s.life
               /\ t.window = s.window /\ CompSame(s, t)
               /\ t.head_sn = s.head_sn
<1> DEFINE a == CtlOpAdd(s, "ACK_REQ")
           b == SendAck(a)
           t == AckReqDo(s)
<1>1. a \in EpType /\ Quiet(s, a) /\ a.window = s.window
  <2>1. "ACK_REQ" \in Ops
    BY DEF Ops
  <2>2. a.window = s.window
    BY DEF CtlOpAdd, EpType
  <2> QED BY <2>1, <2>2, CtlOpAddFacts
<1> HIDE DEF a
<1>2. TxInv(a) /\ RxInv(a)
    BY <1>1, QuietKeepsTx, QuietKeepsRx DEF Quiet
<1>3. /\ b \in EpType /\ RxInv(b)
      /\ b.psn = a.psn /\ b.acked_psn = a.acked_psn
      /\ b.max_psn = a.max_psn /\ b.life = a.life
      /\ b.window = a.window /\ CompSame(a, b) /\ b.head_sn = a.head_sn
    BY <1>1, <1>2, SendAckFacts, Zenon
<1> HIDE DEF b
<1>4. TxInv(b)
    BY <1>2, <1>3 DEF TxInv, CompSame
<1>5. t = IF s.ops \subseteq {"ACK_REQ"} THEN b ELSE a
    BY DEF AckReqDo, a, b
<1>6. /\ a.psn = s.psn /\ a.acked_psn = s.acked_psn /\ a.max_psn = s.max_psn
      /\ a.life = s.life /\ CompSame(s, a) /\ a.head_sn = s.head_sn
    BY <1>1 DEF Quiet, RxSame
<1>7. CASE s.ops \subseteq {"ACK_REQ"}
    BY <1>1, <1>3, <1>4, <1>5, <1>6, <1>7, SMTT(60) DEF CompSame
<1>8. CASE ~(s.ops \subseteq {"ACK_REQ"})
    BY <1>1, <1>2, <1>5, <1>6, <1>8
<1> QED BY <1>7, <1>8

\* The first part of a flush that has something to wait for.
LEMMA FlushAskFacts ==
    ASSUME NEW s \in EpType, TxInv(s), RxInv(s), ~IsLastAckReceived(s)
    PROVE  Asked(s, [AckReqDo(s) EXCEPT !.window[Len(s.window)].ackreq = TRUE])
<1> DEFINE a == AckReqDo(s)
           last == Len(s.window)
           w == [s.window EXCEPT ![last].ackreq = TRUE]
           t == [a EXCEPT !.window = w]
<1>1. /\ a \in EpType /\ TxInv(a) /\ RxInv(a)
      /\ a.psn = s.psn /\ a.acked_psn = s.acked_psn
      /\ a.max_psn = s.max_psn /\ a.life = s.life
      /\ a.window = s.window /\ CompSame(s, a) /\ a.head_sn = s.head_sn
    BY AckReqDoFacts, Zenon
<1> HIDE DEF a
<1>2. [a EXCEPT !.window[last].ackreq = TRUE] = t
    BY <1>1
<1>3. w \in Seq(SkbType) /\ SameIds(s.window, w)
  <2> DEFINE x == [s.window[last] EXCEPT !.ackreq = TRUE]
  <2>1. /\ s.window \in Seq(SkbType) /\ last \in DOMAIN s.window
        /\ last \in 1..Len(s.window) /\ s.window[last] \in SkbType
    BY LastInWindow, EpFields, SkbFields
  <2>2. x \in SkbType /\ x.psn = s.window[last].psn
        /\ x.flush = s.window[last].flush
    BY <2>1, Zenon DEF SkbType
  <2>3. w = [s.window EXCEPT ![last] = x]
    OBVIOUS
  <2> HIDE DEF x, last
  <2>4. [s.window EXCEPT ![last] = x] \in Seq(SkbType)
    BY <2>1, <2>2
  <2> QED BY <2>1, <2>2, <2>3, <2>4, Zenon DEF SameIds
<1> HIDE DEF w
<1>4. t \in EpType
    BY <1>1, <1>3, ZenonT(60) DEF EpType
<1>5. Quiet(a, t)
  <2>1. /\ t.psn = a.psn /\ t.acked_psn = a.acked_psn /\ t.max_psn = a.max_psn
        /\ t.life = a.life /\ t.window = w /\ CompSame(a, t) /\ RxSame(a, t)
    BY <1>1 DEF EpType, RxSame, CompSame
  <2> QED BY <2>1, <1>1, <1>3 DEF Quiet
<1> HIDE DEF t
<1>6. TxInv(t) /\ RxInv(t)
    BY <1>1, <1>4, <1>5, QuietKeepsTx, QuietKeepsRx DEF Quiet
<1>7. Asked(s, t)
    BY <1>1, <1>4, <1>5, <1>6 DEF Asked, Quiet, CompSame, RxSame
<1> QED BY <1>2, <1>7 DEF a, last

\* Cancelling the acks leaves nothing to wait for.
LEMMA CancelAcksFacts ==
    ASSUME NEW s \in EpType, TxInv(s), RxInv(s)
    PROVE  LET t == CancelAcks(s)
           IN  /\ t \in EpType /\ TxInv(t) /\ RxInv(t)
               /\ t.psn = s.psn /\ t.acked_psn = s.psn - 1
               /\ t.life = s.life /\ t.window = s.window
               /\ CompSame(s, t) /\ RxSame(s, t)
<1> DEFINE b == ResetMaxPsn(s)
           t == [b EXCEPT !.acked_psn = s.psn - 1]
<1>1. CancelAcks(s) = t
    BY DEF CancelAcks
<1>2. /\ b \in EpType /\ b.psn = s.psn /\ b.acked_psn = s.acked_psn
      /\ b.life = s.life /\ b.window = s.window
      /\ CompSame(s, b) /\ RxSame(s, b)
      /\ s.psn < b.max_psn /\ b.max_psn <= s.psn + MaxWindow
    BY ResetMaxPsnFacts
<1> HIDE DEF b
<1>3. s.psn - 1 \in Nat /\ s.psn \in Nat /\ b.max_psn \in Nat
    BY <1>2, TxFacts, EpFields
<1>4. t \in EpType
    BY <1>2, <1>3, ZenonT(60) DEF EpType
<1>5. /\ t.psn = b.psn /\ t.acked_psn = s.psn - 1 /\ t.max_psn = b.max_psn
      /\ t.life = b.life /\ t.window = b.window
      /\ CompSame(b, t) /\ RxSame(b, t)
    BY <1>2 DEF EpType, CompSame, RxSame
<1> HIDE DEF t
<1>6. CompSame(s, t) /\ RxSame(s, t)
    BY <1>2, <1>5 DEF CompSame, RxSame
<1>7. TxInv(t)
  <2>1. \A i \in DOMAIN t.window : t.window[i].psn < t.psn
    BY <1>2, <1>5 DEF TxInv
  <2>2. t.acked_psn + 1 .. t.psn - 1 = {}
    BY <1>2, <1>3, <1>5
  <2>3. t.life = "open" => \A c \in t.async_comp_q : c.psn <= t.acked_psn
    <3> SUFFICES ASSUME t.life = "open", NEW c \in s.async_comp_q
                 PROVE  c.psn <= s.psn - 1
        BY <1>2, <1>5, <1>6, SMTT(60) DEF CompSame
    <3>1. c.psn <= s.acked_psn
        BY <1>2, <1>5 DEF TxInv
    <3>2. c.psn \in Nat
        BY EpFields DEF CompType
    <3> QED BY <3>1, <3>2, TxFacts, SMTT(60)
  <2>4. /\ InitialPsn - 1 <= t.acked_psn /\ t.acked_psn < t.psn
        /\ t.psn <= t.acked_psn + MaxWindow + 1
        /\ t.acked_psn < t.max_psn /\ t.max_psn <= t.acked_psn + MaxWindow + 1
    BY <1>2, <1>3, <1>5, TxFacts, HalfFacts
  <2> QED BY <2>1, <2>2, <2>3, <2>4, SMTT(60) DEF TxInv
<1>8. RxInv(t)
    BY <1>6, QuietKeepsRx
<1> QED BY <1>1, <1>2, <1>4, <1>5, <1>6, <1>7, <1>8, SMTT(60)

LEMMA AfterTicksFacts ==
    ASSUME NEW s \in EpType, TxInv(s), RxInv(s), NEW ticks \in Ticks
    PROVE  LET t == AfterTicks(s, ticks)
           IN  /\ t \in EpType /\ TxInv(t) /\ RxInv(t)
               /\ t.psn = s.psn /\ t.acked_psn = s.acked_psn
               /\ t.life = s.life /\ t.head_sn = s.head_sn /\ CompSame(s, t)
<1> DEFINE a == CaDrop(s)
           b == ResendStart(a)
           d == IF ticks > 3 THEN b ELSE s
           u == CtlOpAdd(d, "ACK_REQ")
           t == AfterTicks(s, ticks)
           Good(x) == /\ x \in EpType /\ TxInv(x) /\ RxInv(x)
                      /\ x.psn = s.psn /\ x.acked_psn = s.acked_psn
                      /\ x.life = s.life /\ x.head_sn = s.head_sn
                      /\ CompSame(s, x)
<1>1. t = IF ticks > 1 THEN u ELSE s
    BY DEF AfterTicks
<1>2. ASSUME NEW x \in EpType, Good(x), NEW y \in EpType, Quiet(x, y)
      PROVE  Good(y)
  <2>1. TxInv(y) /\ RxInv(y)
    BY <1>2, QuietKeepsTx, QuietKeepsRx DEF Quiet
  <2> QED BY <1>2, <2>1 DEF Quiet, CompSame, RxSame
<1>3. Good(s)
    BY DEF CompSame
<1>4. Good(a) /\ a.psn > 0
  <2>1. /\ a \in EpType /\ a.psn = s.psn /\ a.acked_psn = s.acked_psn
        /\ a.life = s.life /\ a.window = s.window
        /\ CompSame(s, a) /\ RxSame(s, a)
        /\ s.acked_psn < a.max_psn /\ a.max_psn <= s.acked_psn + MaxWindow
    BY TxFacts, CaDropFacts
  <2> HIDE DEF a
  <2>2. a.max_psn <= s.acked_psn + MaxWindow + 1
    BY <2>1, EpFields, HalfFacts, SMTT(60)
  <2>3. TxInv(a)
    BY <2>1, <2>2 DEF TxInv, CompSame
  <2>4. RxInv(a)
    BY <2>1, QuietKeepsRx
  <2>5. a.psn > 0
    BY <2>1, TxFacts
  <2> QED BY <2>1, <2>3, <2>4, <2>5, SMTT(60) DEF RxSame
<1> HIDE DEF a
<1>5. Good(b)
  <2>1. b \in EpType /\ Quiet(a, b)
    BY <1>4, ResendStartFacts
  <2> HIDE DEF b
  <2> QED BY <2>1, <1>2, <1>4
<1> HIDE DEF b
<1>6. Good(d)
    BY <1>3, <1>5
<1> HIDE DEF d
<1>7. Good(u)
  <2>1. u \in EpType /\ Quiet(d, u)
    BY <1>6, CtlOpAddFacts DEF Ops
  <2> HIDE DEF u
  <2> QED BY <2>1, <1>2, <1>6
<1> HIDE DEF u
<1>8. Good(t)
  <2> HIDE DEF t, Good
  <2> QED BY <1>1, <1>3, <1>7
<1> QED BY <1>8

-----------------------------------------------------------------------------
(* Receiving. *)

\* The next message lengthens what was received, by either thread.
LEMMA DeliverFacts ==
    ASSUME NEW s \in EpType, RxInv(s), NEW async \in BOOLEAN,
           NEW psn \in Nat, psn = s.head_sn + 1,
           async \/ s.pending_q = << >>
    PROVE  LET t == Deliver(s, psn, async)
           IN  /\ t \in EpType /\ RxInv(t)
               /\ t.psn = s.psn /\ t.acked_psn = s.acked_psn
               /\ t.max_psn = s.max_psn /\ t.life = s.life
               /\ t.window = s.window /\ CompSame(s, t)
               /\ t.head_sn = psn
<1> DEFINE q == IF async THEN Append(s.pending_q, psn) ELSE s.pending_q
           d == IF async THEN s.delivered ELSE Append(s.delivered, psn)
           t == [s EXCEPT !.head_sn = psn, !.pending_q = q, !.delivered = d]
<1>1. Deliver(s, psn, async) = t
    BY DEF Deliver
<1>2. PICK m, k \in Nat : /\ m = Len(s.delivered) /\ k = Len(s.pending_q)
                          /\ m + k = s.head_sn - (InitialPsn - 1)
    BY RxFacts
<1>3. s.head_sn \in Nat /\ InitialPsn \in Nat /\ psn = (InitialPsn + m) + k
  <2>1. m + k = s.head_sn - (InitialPsn - 1)
    BY <1>2, Zenon
  <2>2. s.head_sn \in Nat /\ InitialPsn \in Nat
    BY EpFields, HalfFacts
  <2> QED BY <2>1, <2>2
<1>4. /\ q \in Seq(Nat) /\ d \in Seq(Nat)
      /\ Run(d, InitialPsn) /\ Run(q, InitialPsn + Len(d))
      /\ Len(d) + Len(q) = m + k + 1
  <2>1. CASE async
    <3>1. /\ s.pending_q \in Seq(Nat) /\ InitialPsn + m \in Nat
          /\ Run(s.pending_q, InitialPsn + m)
      <4>1. Run(s.pending_q, InitialPsn + m)
        BY <1>2, RxFacts, Zenon
      <4>2. InitialPsn + m \in Nat
        BY <1>3
      <4> QED BY <4>1, <4>2, EpFields
    <3>2. /\ q \in Seq(Nat) /\ Run(q, InitialPsn + m) /\ Len(q) = k + 1
        BY <2>1, <3>1, <1>2, <1>3, RunAppend, ZenonT(60)
    <3>3. d = s.delivered
        BY <2>1
    <3> HIDE DEF q, d
    <3>4. d \in Seq(Nat) /\ Run(d, InitialPsn) /\ Len(d) = m
        BY <3>3, <1>2, RxFacts, Zenon
    <3>5. m + (k + 1) = m + k + 1
        OBVIOUS
    <3> QED BY <3>2, <3>4, <3>5, ZenonT(60)
  <2>2. CASE ~async
    <3>1. q = << >> /\ k = 0
        BY <2>2, <1>2
    <3>2. psn = InitialPsn + m
        BY <3>1, <1>3
    <3>3. /\ d \in Seq(Nat) /\ Run(d, InitialPsn) /\ Len(d) = m + 1
      <4>1. Run(s.delivered, InitialPsn) /\ s.delivered \in Seq(Nat)
        BY RxFacts
      <4>2. m = Len(s.delivered)
        BY <1>2
      <4>3. /\ Append(s.delivered, psn) \in Seq(Nat)
            /\ Run(Append(s.delivered, psn), InitialPsn)
            /\ Len(Append(s.delivered, psn)) = Len(s.delivered) + 1
        BY <3>2, <4>1, <4>2, <1>3, RunAppend, SMTT(60)
      <4> QED BY <2>2, <4>2, <4>3
    <3> HIDE DEF q, d
    <3>4. q \in Seq(Nat) /\ Run(q, InitialPsn + Len(d)) /\ Len(q) = 0
      <4>1. q \in Seq(Nat) /\ Len(q) = 0
        BY <3>1
      <4>2. 1..Len(q) = {}
        BY <4>1
      <4> QED BY <4>1, <4>2 DEF Run
    <3> QED BY <3>1, <3>3, <3>4
  <2> QED BY <2>1, <2>2, Zenon
<1> HIDE DEF q, d
<1>5. t \in EpType
    BY <1>4, ZenonT(60) DEF EpType
<1>6. /\ t.psn = s.psn /\ t.acked_psn = s.acked_psn
      /\ t.max_psn = s.max_psn /\ t.life = s.life
      /\ t.window = s.window /\ CompSame(s, t) /\ t.head_sn = psn
      /\ t.rx_acked = s.rx_acked /\ t.delivered = d /\ t.pending_q = q
    BY DEF EpType, CompSame
<1> HIDE DEF t
<1>7. /\ InitialPsn - 1 <= s.rx_acked /\ s.rx_acked <= psn
      /\ m + k + 1 = psn - (InitialPsn - 1)
  <2>1. /\ InitialPsn - 1 <= s.rx_acked /\ s.rx_acked <= s.head_sn
        /\ s.rx_acked \in Nat
    BY RxFacts, Zenon
  <2>2. s.rx_acked <= psn
    BY <1>3, <2>1
  <2>3. m + k + 1 = psn - (InitialPsn - 1)
    BY <1>3, SMTT(60)
  <2> QED BY <2>1, <2>2, <2>3
<1>8. RxInv(t)
    BY <1>4, <1>6, <1>7 DEF RxInv
<1> QED BY <1>1, <1>5, <1>6, <1>8

\* The async thread's messages reach their handlers in order.
LEMMA DispatchPendingRxFacts ==
    ASSUME NEW s \in EpType, RxInv(s), NEW n \in 0..Len(s.pending_q)
    PROVE  LET t == DispatchPendingRx(s, n)
           IN  /\ t \in EpType /\ RxInv(t)
               /\ t.psn = s.psn /\ t.acked_psn = s.acked_psn
               /\ t.max_psn = s.max_psn /\ t.life = s.life
               /\ t.window = s.window /\ CompSame(s, t)
               /\ t.head_sn = s.head_sn
<1> DEFINE h == SubSeq(s.pending_q, 1, n)
           d == s.delivered \o h
           q == SubSeq(s.pending_q, n + 1, Len(s.pending_q))
           first == InitialPsn + Len(s.delivered)
           t == [s EXCEPT !.delivered = d, !.pending_q = q]
<1>1. DispatchPendingRx(s, n) = t
    BY DEF DispatchPendingRx
<1>2. PICK m, k \in Nat : /\ m = Len(s.delivered) /\ k = Len(s.pending_q)
                          /\ m + k = s.head_sn - (InitialPsn - 1)
    BY RxFacts
<1>3. /\ h \in Seq(Nat) /\ Len(h) = n /\ Run(h, first)
      /\ q \in Seq(Nat) /\ Len(q) = k - n
      /\ Run(q, first + n)
  <2>1. first \in Nat /\ s.pending_q \in Seq(Nat) /\ Run(s.pending_q, first)
    BY <1>2, RxFacts, HalfFacts
  <2> HIDE DEF first
  <2> QED BY <2>1, <1>2, RunSplit, Zenon
<1> HIDE DEF h, q
<1>4. d \in Seq(Nat) /\ Len(d) = m + n /\ Run(d, InitialPsn)
  <2>1. s.delivered \in Seq(Nat) /\ Run(s.delivered, InitialPsn)
        /\ InitialPsn \in Nat
    BY RxFacts, HalfFacts
  <2>2. d \in Seq(Nat) /\ Len(d) = Len(s.delivered) + Len(h)
        /\ Run(d, InitialPsn)
    BY <2>1, <1>3, RunConcat, Zenon
  <2> HIDE DEF d
  <2> QED BY <2>2, <1>2, <1>3
<1> HIDE DEF d
<1>5. n \in 0..k /\ first + n = InitialPsn + Len(d)
      /\ (m + n) + (k - n) = s.head_sn - (InitialPsn - 1)
  <2>1. (InitialPsn + m) + n = InitialPsn + (m + n)
        /\ (m + n) + (k - n) = m + k
    BY HalfFacts
  <2>2. n \in 0..k
    BY <1>2
  <2> QED BY <2>1, <2>2, <1>2, <1>4, ZenonT(60)
<1>6. Run(q, InitialPsn + Len(d))
    BY <1>3, <1>5
<1>7. Len(d) + Len(q) = s.head_sn - (InitialPsn - 1)
    BY <1>3, <1>4, <1>5
<1>9. t \in EpType
    BY <1>3, <1>4, ZenonT(60) DEF EpType
<1>10. /\ t.psn = s.psn /\ t.acked_psn = s.acked_psn
       /\ t.max_psn = s.max_psn /\ t.life = s.life
       /\ t.window = s.window /\ CompSame(s, t) /\ t.head_sn = s.head_sn
       /\ t.rx_acked = s.rx_acked /\ t.delivered = d /\ t.pending_q = q
    BY DEF EpType, CompSame
<1> HIDE DEF t
<1>11. RxInv(t)
    BY <1>4, <1>6, <1>7, <1>10, SMTT(60) DEF RxInv
<1> QED BY <1>1, <1>9, <1>10, <1>11

LEMMA ProcessRxFacts ==
    ASSUME NEW s \in EpType, TxInv(s), RxInv(s), NEW p \in PacketType,
           NEW async \in BOOLEAN, p.ack < s.psn, s.psn - p.ack < Half,
           p.psn - (s.head_sn + 1) < Half, (s.head_sn + 1) - p.psn < Half,
           async \/ s.pending_q = << >>
    PROVE  /\ ProcessRx(s, p, async) \in EpType
           /\ TxInv(ProcessRx(s, p, async)) /\ RxInv(ProcessRx(s, p, async))
           /\ RxStep(s, ProcessRx(s, p, async), p)
<1> DEFINE a == ProcessAck(s, p.ack, async)
           o == IF p.ackreq THEN {"ACK"} ELSE {}
           k == IF PsnLt(s.head_sn + 1, p.psn) THEN {"NACK"} ELSE {}
           ops == a.ops \cup o \cup k
           r == [a EXCEPT !.ops = ops]
           x == r.tx_nacked \/ p.nack
           n == [r EXCEPT !.tx_nacked = x]
           d == Deliver(r, p.psn, async)
           t == ProcessRx(s, p, async)
<1>0. p.ack \in Nat /\ p.psn \in Nat /\ p.nack \in BOOLEAN
    BY DEF PacketType
<1>1. t = IF ~p.am THEN n
          ELSE IF FragListInsert(r, p.psn) = "FAST" THEN d ELSE r
    BY DEF ProcessRx
<1>2. /\ a \in EpType /\ TxInv(a) /\ Settles(s, a)
      /\ a.acked_psn = IF s.acked_psn < p.ack THEN p.ack ELSE s.acked_psn
    BY <1>0, ProcessAckFacts, ZenonT(60)
<1> HIDE DEF a
<1>3. ops \in SUBSET Ops
    BY <1>2, EpFields DEF Ops
<1> HIDE DEF ops
<1>4. r \in EpType
    BY <1>2, <1>3, ZenonT(60) DEF EpType
<1>5. Quiet(a, r)
    BY <1>2, SameIdsRefl DEF EpType, Quiet, RxSame, CompSame
<1> HIDE DEF r
<1>6. x \in BOOLEAN
    OBVIOUS
<1> HIDE DEF x
<1>7. n \in EpType
    BY <1>4, <1>6, ZenonT(60) DEF EpType
<1>8. Quiet(r, n)
    BY <1>4, SameIdsRefl DEF EpType, Quiet, RxSame, CompSame
<1> HIDE DEF n
<1>9. TxInv(r) /\ TxInv(n)
    BY <1>2, <1>4, <1>5, <1>7, <1>8, QuietKeepsTx
<1>10. RxInv(r) /\ RxInv(n)
  <2>1. RxSame(s, r) /\ RxSame(s, n)
    BY <1>2, <1>5, <1>8, SMTT(60) DEF Quiet, Settles, RxSame
  <2> QED BY <2>1, QuietKeepsRx, SMTT(60)
<1>11. RxStep(s, r, p)
    BY <1>2, <1>5 DEF RxStep, Settles, Quiet, RxSame, CompSame
<1>12. RxStep(s, n, p)
    BY <1>8, <1>11, SMTT(60) DEF RxStep, Quiet, RxSame, CompSame
<1>13. CASE p.am /\ FragListInsert(r, p.psn) = "FAST"
  <2>1. r.head_sn = s.head_sn /\ r.pending_q = s.pending_q
    BY <1>2, <1>5 DEF Quiet, Settles, RxSame
  <2>2. s.head_sn \in Nat
    BY EpFields
  <2>3. PsnEq(p.psn, r.head_sn + 1)
    BY <1>13 DEF FragListInsert
  <2>4. p.psn = r.head_sn + 1
    <3>1. PsnEq(p.psn, s.head_sn + 1) <=> p.psn = s.head_sn + 1
        BY <2>2, <1>0, PsnCompare, SMTT(60)
    <3> QED BY <3>1, <2>1, <2>3
  <2>5. /\ d \in EpType /\ RxInv(d)
        /\ d.psn = r.psn /\ d.acked_psn = r.acked_psn
        /\ d.max_psn = r.max_psn /\ d.life = r.life
        /\ d.window = r.window /\ CompSame(r, d) /\ d.head_sn = p.psn
    <3>1. async \/ r.pending_q = << >>
        BY <2>1, SMTT(60)
    <3> QED BY <3>1, <2>4, <1>0, <1>4, <1>10, DeliverFacts, SMTT(60)
  <2> HIDE DEF d
  <2>6. TxInv(d)
    BY <2>5, <1>9, SMTT(60) DEF TxInv, CompSame
  <2>7. RxStep(s, d, p)
    BY <2>1, <2>4, <2>5, <1>11, <1>13, SMTT(60) DEF RxStep, CompSame
  <2>8. t = d
    BY <1>1, <1>13
  <2> QED BY <2>5, <2>6, <2>7, <2>8, SMTT(60)
<1>14. CASE ~p.am
    BY <1>1, <1>7, <1>9, <1>10, <1>12, <1>14, SMTT(60)
<1>15. CASE p.am /\ FragListInsert(r, p.psn) # "FAST"
    BY <1>1, <1>4, <1>9, <1>10, <1>11, <1>15
<1> QED BY <1>13, <1>14, <1>15

=============================================================================
