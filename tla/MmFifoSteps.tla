----------------------------- MODULE MmFifoSteps -----------------------------
(***************************************************************************)
(* The inductive invariant of the shared-memory FIFO, for any number of     *)
(* senders, messages, elements and descriptors, and the proof that the      *)
(* steps of a sender keep it.                                               *)
(***************************************************************************)
EXTENDS MmFifo, TLAPS

Calls ==
    {"idle", "try", "tail", "cas", "write", "flags", "signal", "add", "disp",
     "process", "flush_tail", "flush"}

Requests == [n : Nat, kind : {"short", "bcopy"}]

SndType ==
    [pc : Calls, req : Requests, pend : BOOLEAN, head : Nat, armed : BOOLEAN,
     cached_tail : Nat, group : Seq(Requests), next : Nat, flushed : Nat,
     lost : SUBSET Nat, purges : Nat, failures : Nat]

\* Requests that the last flush does not cover.
Late(group, flushed) ==
    \A i \in DOMAIN group : group[i] = ArbElem \/ group[i].n > flushed

\* What holds of an endpoint wherever it is in a call.
Base(s, tl) ==
    /\ s \in SndType /\ s.cached_tail <= tl
    /\ s.flushed < s.next /\ Late(s.group, s.flushed)

\* No room, as far as the endpoint knows.
Waits(s, hd) == s.group # << >> => ~AbleToSend(hd, s.cached_tail)

\* A sender's endpoint when head and tail of the FIFO are hd and tl: it sees
\* no tail ahead of the real one, and a queue of requests means no room.
SndInv(s, hd, tl) ==
    /\ Base(s, tl)
    /\ s.pc \in {"tail", "cas"} => s.head <= hd
    /\ s.pc = "cas" => AbleToSend(s.head, s.cached_tail)
    /\ s.pc \in {"tail", "flush_tail", "flush"} => s.group = << >>
    /\ s.pc \in {"disp", "process"} => s.group # << >>
    /\ s.pc \in {"idle", "disp", "process", "add", "tail", "flush_tail", "flush"}
       => ~s.pend
    /\ ~s.pend /\ s.pc \notin {"disp", "process"} => Waits(s, hd)
    /\ s.pc \in {"try", "tail", "cas", "write", "flags", "signal", "add"}
       => s.req.n > s.flushed

\* The receiver has not seen index i completed.
Unread(i) == rcv.read_index <= i /\ i < rcv.read_index + FifoSize

\* Indices of the FIFO: what is reserved, written and read.
FifoInv ==
    /\ head \in Nat /\ tail \in Nat /\ rcv.read_index \in Nat
    /\ tail <= rcv.read_index /\ rcv.read_index <= head
    /\ head <= tail + FifoSize /\ armed \in BOOLEAN
    /\ snd \in [Senders -> SndType]
    /\ \A p \in Senders :
        /\ SndInv(snd[p], head, tail)
        /\ Writing(p) => /\ rcv.read_index <= snd[p].head
                         /\ snd[p].head < head
        /\ \A q \in Senders : Writing(p) /\ Writing(q) /\ p # q
                              => snd[p].head # snd[q].head
    /\ \A i \in Nat : Unread(i) /\ elem[Elem(i)].owner = OwnerBit(i) =>
        i < head /\ \A p \in Senders : Writing(p) => snd[p].head # i

\* Places of the descriptors.
DescInv ==
    /\ DOMAIN elem = 0 .. FifoSize - 1
    /\ \A i \in 0 .. FifoSize - 1 :
        /\ {"owner", "inline", "desc", "data"} \subseteq DOMAIN elem[i]
        /\ elem[i].desc \in Descs
        /\ elem[i].desc \notin rcv.pool \cup rcv.held \cup {rcv.last_recv_desc}
        /\ \A j \in 0 .. FifoSize - 1 : elem[i].desc = elem[j].desc => i = j
    /\ rcv.last_recv_desc \in Descs \cup {NoDesc}
    /\ rcv.last_recv_desc \notin rcv.pool \cup rcv.held
    /\ rcv.pool \cap rcv.held = {}
    /\ rcv.pool \subseteq Descs /\ rcv.held \subseteq Descs
    /\ \A d \in Descs : \/ d \in rcv.pool \cup rcv.held \cup {rcv.last_recv_desc}
                        \/ \E i \in 0 .. FifoSize - 1 : elem[i].desc = d
    /\ DOMAIN mem = Descs

RcvFields ==
    {"pc", "read_index", "head", "last_recv_desc", "pool", "held", "delivered"}

\* A sender that has reserved the element the receiver waits for and has seen
\* that it must signal.
Waker(p) ==
    \/ snd[p].pc = "signal"
    \/ Writing(p) /\ snd[p].armed /\ snd[p].head = rcv.read_index

\* The element that the receiver waits for will never be completed.
Abandoned ==
    /\ rcv.read_index < head /\ ~HasNewData
    /\ \A p \in Senders : Writing(p) => snd[p].head # rcv.read_index

\* A receiver that is about to sleep will be woken by the next message.
WakeInv ==
    /\ DOMAIN rcv = RcvFields /\ signals \in Nat
    /\ rcv.pc = "arm" => rcv.head = rcv.read_index
    /\ rcv.pc \in {"socket", "sleep"} =>
        \/ signals > 0
        \/ armed /\ head = rcv.read_index
        \/ \E p \in Senders : Waker(p)
        \/ Abandoned

MmInv == FifoInv /\ DescInv /\ WakeInv

-----------------------------------------------------------------------------
(* Indices. *)

LEMMA Size == FifoSize \in Nat /\ FifoSize > 1
BY MmFifoAssumption

\* Quotient and remainder.
LEMMA Division ==
    ASSUME NEW i \in Nat
    PROVE  /\ Elem(i) \in 0 .. FifoSize - 1 /\ i \div FifoSize \in Nat
           /\ i = (i \div FifoSize) * FifoSize + Elem(i)
BY Size DEF Elem

LEMMA Apart ==
    ASSUME NEW a \in Nat, NEW b \in Nat, a < b
    PROVE  /\ a * FifoSize \in Nat /\ b * FifoSize \in Nat
           /\ a * FifoSize + FifoSize <= b * FifoSize
<1>1. PICK k \in Nat : b = a + k + 1
  <2>1. b - a - 1 \in Nat /\ b = a + (b - a - 1) + 1
    OBVIOUS
  <2> QED BY <2>1
<1>2. b * FifoSize = a * FifoSize + k * FifoSize + FifoSize
    BY <1>1, Size
<1>3. k * FifoSize \in Nat /\ a * FifoSize \in Nat
    BY Size
<1> QED BY <1>2, <1>3, Size

LEMMA DivisionUnique ==
    ASSUME NEW a \in Nat, NEW b \in Nat, NEW r \in Nat, NEW t \in Nat,
           r < FifoSize, t < FifoSize,
           a * FifoSize + r = b * FifoSize + t
    PROVE  a = b /\ r = t
<1>1. ~(a < b)
    BY Apart, Size
<1>2. ~(b < a)
    BY Apart, Size
<1>3. a = b /\ a * FifoSize \in Nat
    BY <1>1, <1>2, Size
<1> QED BY <1>3, Size

\* Indices that share an element are at least a turn apart.
LEMMA SameElem ==
    ASSUME NEW i \in Nat, NEW j \in Nat, Elem(i) = Elem(j),
           i < j + FifoSize, j < i + FifoSize
    PROVE  i = j
<1> DEFINE a == i \div FifoSize
           b == j \div FifoSize
           r == Elem(i)
<1>1. /\ a \in Nat /\ b \in Nat /\ r \in 0 .. FifoSize - 1
      /\ i = a * FifoSize + r /\ j = b * FifoSize + r
    BY Division
<1> HIDE DEF a, b, r
<1>2. ~(a < b)
    BY <1>1, Apart, Size
<1>3. ~(b < a)
    BY <1>1, Apart, Size
<1> QED BY <1>1, <1>2, <1>3

\* A turn later the element is the same and the owner bit is not.
LEMMA NextTurn ==
    ASSUME NEW i \in Nat
    PROVE  Elem(i + FifoSize) = Elem(i) /\ OwnerBit(i + FifoSize) # OwnerBit(i)
<1> DEFINE a == i \div FifoSize
           r == Elem(i)
           j == i + FifoSize
<1>1. a \in Nat /\ r \in 0 .. FifoSize - 1 /\ i = a * FifoSize + r
    BY Division
<1>2. j \in Nat
    BY Size
<1>3. /\ j \div FifoSize \in Nat /\ Elem(j) \in 0 .. FifoSize - 1
      /\ j = (j \div FifoSize) * FifoSize + Elem(j)
    BY <1>2, Division
<1>4. (a + 1) * FifoSize = a * FifoSize + FifoSize /\ a * FifoSize \in Nat
    BY <1>1, Size
<1>5. (j \div FifoSize) * FifoSize + Elem(j) = (a + 1) * FifoSize + r
  <2> HIDE DEF a, r
  <2> QED BY <1>1, <1>3, <1>4, Size
<1>6. j \div FifoSize = a + 1 /\ Elem(j) = r
  <2> HIDE DEF a, r, j
  <2> QED BY <1>1, <1>3, <1>5, DivisionUnique, Size
<1>7. (a + 1) % 2 # a % 2
  <2> HIDE DEF a
  <2> QED BY <1>1
<1> QED BY <1>6, <1>7 DEF OwnerBit

-----------------------------------------------------------------------------
(* Groups of requests. *)

LEMMA ArbElemType == ArbElem \in Requests
BY DEF ArbElem, Requests

LEMMA RequestType ==
    ASSUME NEW n \in Nat, NEW kind \in Kinds
    PROVE  Request(n, kind) \in Requests /\ Request(n, kind).n = n
BY MmFifoAssumption DEF Request, Requests

LEMMA EmptyLate ==
    ASSUME NEW f PROVE Late(<< >>, f)
BY DEF Late

LEMMA PrependLate ==
    ASSUME NEW g \in Seq(Requests), NEW f \in Nat, Late(g, f),
           NEW r \in Requests, r.n > f
    PROVE  <<r>> \o g \in Seq(Requests) /\ Late(<<r>> \o g, f)
<1> DEFINE h == <<r>> \o g
<1>1. /\ h \in Seq(Requests) /\ DOMAIN h = 1 .. Len(g) + 1
      /\ h[1] = r /\ \A i \in 2 .. Len(g) + 1 : h[i] = g[i - 1]
      /\ DOMAIN g = 1 .. Len(g) /\ Len(g) \in Nat
    OBVIOUS
<1> HIDE DEF h
<1>2. ASSUME NEW i \in DOMAIN h PROVE h[i] = ArbElem \/ h[i].n > f
  <2>1. CASE i = 1
    BY <2>1, <1>1
  <2>2. CASE i # 1
    <3>1. i \in 2 .. Len(g) + 1 /\ i - 1 \in DOMAIN g
        BY <2>2, <1>1
    <3> QED BY <3>1, <1>1 DEF Late
  <2> QED BY <2>1, <2>2
<1> QED BY <1>1, <1>2 DEF Late, h

LEMMA AppendLate ==
    ASSUME NEW g \in Seq(Requests), NEW f \in Nat, Late(g, f),
           NEW r \in Requests, r.n > f
    PROVE  /\ Append(g, r) \in Seq(Requests) /\ Late(Append(g, r), f)
           /\ Append(g, r) # << >>
<1> DEFINE h == Append(g, r)
<1>1. /\ h \in Seq(Requests) /\ DOMAIN h = 1 .. Len(g) + 1
      /\ h[Len(g) + 1] = r /\ \A i \in 1 .. Len(g) : h[i] = g[i]
      /\ DOMAIN g = 1 .. Len(g) /\ Len(g) \in Nat /\ h # << >>
    OBVIOUS
<1> HIDE DEF h
<1>2. ASSUME NEW i \in DOMAIN h PROVE h[i] = ArbElem \/ h[i].n > f
  <2>1. CASE i = Len(g) + 1
    BY <2>1, <1>1
  <2>2. CASE i # Len(g) + 1
    <3>1. i \in 1 .. Len(g) /\ i \in DOMAIN g
        BY <2>2, <1>1
    <3> QED BY <3>1, <1>1 DEF Late
  <2> QED BY <2>1, <2>2
<1> QED BY <1>1, <1>2 DEF Late, h

LEMMA HeadTailLate ==
    ASSUME NEW g \in Seq(Requests), NEW f \in Nat, Late(g, f), g # << >>
    PROVE  /\ Tail(g) \in Seq(Requests) /\ Late(Tail(g), f)
           /\ Head(g) \in Requests /\ (Head(g) = ArbElem \/ Head(g).n > f)
<1> DEFINE h == Tail(g)
<1>1. /\ h \in Seq(Requests) /\ DOMAIN h = 1 .. Len(g) - 1
      /\ \A i \in 1 .. Len(g) - 1 : h[i] = g[i + 1]
      /\ DOMAIN g = 1 .. Len(g) /\ Len(g) \in Nat /\ Len(g) > 0
      /\ Head(g) = g[1] /\ g[1] \in Requests
    OBVIOUS
<1> HIDE DEF h
<1>2. ASSUME NEW i \in DOMAIN h PROVE h[i] = ArbElem \/ h[i].n > f
  <2>1. i + 1 \in DOMAIN g /\ h[i] = g[i + 1]
    BY <1>1
  <2> QED BY <2>1 DEF Late
<1>3. Head(g) = ArbElem \/ Head(g).n > f
    BY <1>1 DEF Late
<1> QED BY <1>1, <1>2, <1>3 DEF Late, h

-----------------------------------------------------------------------------
(* What a call leaves of the endpoint. *)

LEMMA SndFields ==
    ASSUME NEW s \in SndType
    PROVE  /\ s.pc \in Calls /\ s.req \in Requests /\ s.pend \in BOOLEAN
           /\ s.head \in Nat /\ s.armed \in BOOLEAN /\ s.cached_tail \in Nat
           /\ s.group \in Seq(Requests) /\ s.next \in Nat /\ s.flushed \in Nat
           /\ s.lost \in SUBSET Nat /\ s.purges \in Nat /\ s.failures \in Nat
BY DEF SndType

\* Head and tail move on without harm.
LEMMA SndMonotone ==
    ASSUME NEW s, NEW hd \in Nat, NEW tl \in Nat, NEW hd2 \in Nat, NEW tl2 \in Nat,
           SndInv(s, hd, tl), hd <= hd2, tl <= tl2
    PROVE  SndInv(s, hd2, tl2)
<1>1. s \in SndType /\ s.head \in Nat /\ s.cached_tail \in Nat
    BY SndFields DEF SndInv, Base
<1>2. Base(s, tl2)
    BY <1>1 DEF SndInv, Base
<1>3. Waits(s, hd) => Waits(s, hd2)
    BY <1>1, Size DEF Waits, AbleToSend
<1>4. s.head <= hd => s.head <= hd2
    BY <1>1
<1> QED BY <1>2, <1>3, <1>4 DEF SndInv

\* Calls that have reserved an element.
Reserved == {"write", "flags", "signal"}

LEMMA ReturnInv ==
    ASSUME NEW s, NEW hd \in Nat, NEW tl \in Nat, Base(s, tl), Waits(s, hd)
    PROVE  SndInv(Return(s), hd, tl) /\ Return(s).pc = "idle"
<1> DEFINE t == Return(s)
<1>1. t \in SndType
    BY ArbElemType DEF Base, Return, SndType, Calls
<1>2. /\ t.pc = "idle" /\ t.pend = FALSE /\ t.cached_tail = s.cached_tail
      /\ t.group = s.group /\ t.flushed = s.flushed /\ t.next = s.next
    BY DEF Base, Return, SndType
<1> HIDE DEF t
<1> QED BY <1>1, <1>2 DEF SndInv, Base, Waits, t

LEMMA DoneInv ==
    ASSUME NEW s, NEW hd \in Nat, NEW tl \in Nat, Base(s, tl),
           ~s.pend => Waits(s, hd)
    PROVE  SndInv(Done(s), hd, tl) /\ Done(s).pc \notin Reserved
<1> DEFINE n == [s EXCEPT !.next = @ + 1]
           r == Return(s)
           d == [r EXCEPT !.pc = "disp"]
<1>1. CASE ~s.pend
  <2>1. n \in SndType
    <3>1. s \in SndType /\ s.next + 1 \in Nat
        BY SndFields DEF Base
    <3> QED BY <3>1, Zenon DEF SndType
  <2>2. /\ n.cached_tail = s.cached_tail /\ n.group = s.group
        /\ n.flushed = s.flushed /\ n.next = s.next + 1
    BY DEF Base, SndType
  <2>3. s.flushed < s.next + 1
    BY SndFields DEF Base
  <2> HIDE DEF n
  <2>4. Base(n, tl) /\ Waits(n, hd)
    BY <1>1, <2>1, <2>2, <2>3 DEF Base, Waits
  <2>5. Done(s) = Return(n)
    BY <1>1 DEF Done, n
  <2> QED BY <2>4, <2>5, ReturnInv DEF Reserved
<1>2. CASE s.pend /\ s.group = << >>
  <2>1. Waits(s, hd)
    BY <1>2 DEF Waits
  <2> QED BY <1>2, <2>1, ReturnInv DEF Done, Reserved
<1>3. CASE s.pend /\ s.group # << >>
  <2>1. d \in SndType
    BY ArbElemType DEF Base, Return, SndType, Calls
  <2>2. /\ d.pc = "disp" /\ d.pend = FALSE /\ d.cached_tail = s.cached_tail
        /\ d.group = s.group /\ d.flushed = s.flushed /\ d.next = s.next
    BY DEF Base, Return, SndType
  <2>3. Done(s) = d
    BY <1>3 DEF Done
  <2> HIDE DEF d
  <2> QED BY <1>3, <2>1, <2>2, <2>3 DEF SndInv, Base, Reserved
<1> QED BY <1>1, <1>2, <1>3

\* A request that was refused keeps its place: it goes back to the head of the
\* group, or to the user who queues it.
LEMMA RefusedInv ==
    ASSUME NEW s, NEW hd \in Nat, NEW tl \in Nat, Base(s, tl),
           s.req.n > s.flushed, ~AbleToSend(hd, s.cached_tail)
    PROVE  SndInv(Refused(s), hd, tl) /\ Refused(s).pc \notin Reserved
<1> DEFINE g == <<s.req>> \o s.group
           a == [s EXCEPT !.group = g]
           b == [s EXCEPT !.pc = "add", !.head = 0, !.armed = FALSE]
<1>1. s \in SndType /\ s.group \in Seq(Requests) /\ s.req \in Requests
      /\ s.flushed \in Nat /\ Late(s.group, s.flushed)
    BY SndFields DEF Base
<1>2. CASE s.pend
  <2>1. g \in Seq(Requests) /\ Late(g, s.flushed)
    BY <1>1, PrependLate
  <2> HIDE DEF g
  <2>2. Base(a, tl) /\ Waits(a, hd)
    BY <1>1, <2>1 DEF Base, Waits, SndType
  <2> QED BY <1>2, <2>2, ReturnInv DEF Refused, Reserved, g
<1>3. CASE ~s.pend
  <2>1. b \in SndType
    BY <1>1 DEF SndType, Calls
  <2>2. /\ b.pc = "add" /\ b.pend = s.pend /\ b.cached_tail = s.cached_tail
        /\ b.group = s.group /\ b.flushed = s.flushed /\ b.next = s.next
        /\ b.req = s.req
    BY <1>1 DEF SndType
  <2>3. Refused(s) = b
    BY <1>3 DEF Refused
  <2> HIDE DEF b
  <2> QED BY <1>3, <2>1, <2>2, <2>3 DEF SndInv, Base, Reserved, Waits
<1> QED BY <1>2, <1>3

-----------------------------------------------------------------------------
(* Steps of a sender that touch nothing but its endpoint. *)

Private(p, t) ==
    /\ snd' = [snd EXCEPT ![p] = t]
    /\ UNCHANGED <<head, armed, tail, elem, mem, signals, rcv>>
    /\ SndInv(t, head, tail)
    /\ snd[p].pc \notin Reserved /\ t.pc \notin Reserved

LEMMA Start ==
    ASSUME FifoInv, NEW p \in Senders
    PROVE  /\ head \in Nat /\ tail \in Nat /\ snd \in [Senders -> SndType]
           /\ snd[p] \in SndType /\ SndInv(snd[p], head, tail)
           /\ Base(snd[p], tail)
BY DEF FifoInv, SndInv

LEMMA StartSendPrivate ==
    ASSUME FifoInv, NEW p \in Senders, NEW kind \in Kinds, StartSend(p, kind)
    PROVE  \E t : Private(p, t)
<1> DEFINE s == snd[p]
           r == Request(s.next, kind)
           t == [s EXCEPT !.pc = "try", !.pend = FALSE, !.req = r]
<1>1. /\ s \in SndType /\ SndInv(s, head, tail) /\ snd \in [Senders -> SndType]
      /\ s.pc = "idle" /\ s.next \in Nat /\ s.flushed < s.next
    BY Start, SndFields DEF StartSend, Base
<1>2. r \in Requests /\ r.n = s.next
    BY <1>1, RequestType
<1>3. snd' = [snd EXCEPT ![p] = t]
    BY <1>1 DEF StartSend
<1> HIDE DEF r
<1>4. t \in SndType
    BY <1>1, <1>2 DEF SndType, Calls
<1>5. /\ t.pc = "try" /\ t.pend = FALSE /\ t.req = r
      /\ t.cached_tail = s.cached_tail /\ t.group = s.group
      /\ t.flushed = s.flushed /\ t.next = s.next
    BY <1>1 DEF SndType
<1>6. Waits(s, head)
    BY <1>1 DEF SndInv
<1> HIDE DEF t
<1>7. SndInv(t, head, tail)
    BY <1>1, <1>2, <1>4, <1>5, <1>6 DEF SndInv, Base, Waits
<1> QED BY <1>1, <1>3, <1>5, <1>7 DEF Private, Reserved, StartSend

LEMMA TryHeadPrivate ==
    ASSUME FifoInv, NEW p \in Senders, TryHead(p)
    PROVE  \E t : Private(p, t)
<1> DEFINE s == snd[p]
           c == [s EXCEPT !.head = head, !.armed = armed, !.pc = "cas"]
           d == [s EXCEPT !.head = head, !.armed = armed, !.pc = "tail"]
<1>1. /\ s \in SndType /\ SndInv(s, head, tail) /\ Base(s, tail)
      /\ s.pc = "try" /\ head \in Nat /\ tail \in Nat /\ armed \in BOOLEAN
      /\ s.req.n > s.flushed
    BY Start DEF TryHead, SndInv, FifoInv
<1>2. CASE AbleToSend(head, s.cached_tail)
  <2>1. snd' = [snd EXCEPT ![p] = c]
    BY <1>1, <1>2 DEF TryHead
  <2>2. c \in SndType
    BY <1>1 DEF SndType, Calls
  <2>3. /\ c.pc = "cas" /\ c.pend = s.pend /\ c.req = s.req /\ c.head = head
        /\ c.cached_tail = s.cached_tail /\ c.group = s.group
        /\ c.flushed = s.flushed /\ c.next = s.next
    BY <1>1 DEF SndType
  <2> HIDE DEF c
  <2>4. SndInv(c, head, tail)
    BY <1>1, <1>2, <2>2, <2>3 DEF SndInv, Base, Waits
  <2> QED BY <1>1, <2>1, <2>3, <2>4 DEF Private, Reserved, TryHead
<1>3. CASE ~AbleToSend(head, s.cached_tail) /\ GroupEmpty(s)
  <2>1. snd' = [snd EXCEPT ![p] = d]
    BY <1>1, <1>3 DEF TryHead
  <2>2. d \in SndType
    BY <1>1 DEF SndType, Calls
  <2>3. /\ d.pc = "tail" /\ d.pend = s.pend /\ d.req = s.req /\ d.head = head
        /\ d.cached_tail = s.cached_tail /\ d.group = s.group
        /\ d.flushed = s.flushed /\ d.next = s.next
    BY <1>1 DEF SndType
  <2> HIDE DEF d
  <2>4. SndInv(d, head, tail)
    BY <1>1, <1>3, <2>2, <2>3 DEF SndInv, Base, Waits, GroupEmpty
  <2> QED BY <1>1, <2>1, <2>3, <2>4 DEF Private, Reserved, TryHead
<1>4. CASE ~AbleToSend(head, s.cached_tail) /\ ~GroupEmpty(s)
  <2>1. snd' = [snd EXCEPT ![p] = Refused(s)]
    BY <1>4 DEF TryHead
  <2>2. SndInv(Refused(s), head, tail) /\ Refused(s).pc \notin Reserved
    BY <1>1, <1>4, RefusedInv
  <2> QED BY <1>1, <2>1, <2>2 DEF Private, Reserved, TryHead
<1> QED BY <1>2, <1>3, <1>4

LEMMA TryTailPrivate ==
    ASSUME FifoInv, NEW p \in Senders, TryTail(p)
    PROVE  \E t : Private(p, t)
<1> DEFINE o == snd[p]
           s == [o EXCEPT !.cached_tail = tail]
           c == [s EXCEPT !.pc = "cas"]
           a == [s EXCEPT !.group = <<ArbElem>>]
<1>1. /\ o \in SndType /\ SndInv(o, head, tail) /\ Base(o, tail)
      /\ head \in Nat /\ tail \in Nat
    BY Start
<1>2. s \in SndType /\ c \in SndType /\ a \in SndType
  <2>1. s \in SndType
    BY <1>1 DEF SndType
  <2>2. c \in SndType
    BY <2>1 DEF SndType, Calls
  <2>3. <<ArbElem>> \in Seq(Requests)
    BY ArbElemType
  <2>4. a \in SndType
    BY <2>1, <2>3 DEF SndType
  <2> QED BY <2>1, <2>2, <2>4
<1>3. /\ o.pc = "tail"
      /\ snd' = [snd EXCEPT ![p] = IF AbleToSend(s.head, tail) THEN c
                                   ELSE Refused(a)]
    BY <1>1 DEF TryTail, SndType
<1>4. /\ o.head <= head /\ o.group = << >> /\ ~o.pend /\ o.req.n > o.flushed
    BY <1>1, <1>3 DEF SndInv
<1>5. /\ s.head = o.head
      /\ c.pc = "cas" /\ c.pend = o.pend /\ c.req = o.req /\ c.head = o.head
      /\ c.cached_tail = tail /\ c.group = o.group
      /\ c.flushed = o.flushed /\ c.next = o.next
      /\ a.req = o.req /\ a.cached_tail = tail /\ a.group = <<ArbElem>>
      /\ a.flushed = o.flushed /\ a.next = o.next
    BY <1>1 DEF SndType
<1>6. o.head \in Nat
    BY <1>1, SndFields
<1> HIDE DEF s, c, a
<1>7. CASE AbleToSend(o.head, tail)
  <2>1. SndInv(c, head, tail)
    BY <1>1, <1>2, <1>4, <1>5, <1>7 DEF SndInv, Base, Waits
  <2>2. snd' = [snd EXCEPT ![p] = c]
    BY <1>3, <1>5, <1>7
  <2> QED BY <1>3, <1>5, <2>1, <2>2 DEF Private, Reserved, TryTail
<1>8. CASE ~AbleToSend(o.head, tail)
  <2>1. ~AbleToSend(head, tail)
    BY <1>1, <1>4, <1>6, <1>8, Size DEF AbleToSend
  <2>2. Late(<<ArbElem>>, o.flushed)
    BY DEF Late
  <2>3. Base(a, tail)
    BY <1>1, <1>2, <1>5, <2>2 DEF Base
  <2>4. SndInv(Refused(a), head, tail) /\ Refused(a).pc \notin Reserved
    BY <1>1, <1>4, <1>5, <2>1, <2>3, RefusedInv
  <2>5. snd' = [snd EXCEPT ![p] = Refused(a)]
    BY <1>3, <1>5, <1>8
  <2> QED BY <1>3, <2>4, <2>5 DEF Private, Reserved, TryTail
<1> QED BY <1>7, <1>8

LEMMA PendingAddPrivate ==
    ASSUME FifoInv, NEW p \in Senders, PendingAdd(p)
    PROVE  \E t : Private(p, t)
<1> DEFINE s == snd[p]
           c == [s EXCEPT !.pc = "try"]
           g == Append(s.group, s.req)
           a == [s EXCEPT !.next = @ + 1, !.group = g]
<1>1. /\ s \in SndType /\ SndInv(s, head, tail) /\ Base(s, tail)
      /\ s.pc = "add" /\ head \in Nat /\ tail \in Nat
      /\ s.req.n > s.flushed
    BY Start DEF PendingAdd, SndInv
<1>2. CASE AbleToSend(head, s.cached_tail)
  <2>1. snd' = [snd EXCEPT ![p] = c]
    BY <1>2 DEF PendingAdd
  <2>2. c \in SndType
    BY <1>1 DEF SndType, Calls
  <2>3. /\ c.pc = "try" /\ c.pend = s.pend /\ c.req = s.req
        /\ c.cached_tail = s.cached_tail /\ c.group = s.group
        /\ c.flushed = s.flushed /\ c.next = s.next
    BY <1>1 DEF SndType
  <2> HIDE DEF c
  <2>4. SndInv(c, head, tail)
    BY <1>1, <2>2, <2>3 DEF SndInv, Base, Waits
  <2> QED BY <1>1, <2>1, <2>3, <2>4 DEF Private, Reserved, PendingAdd
<1>3. CASE ~AbleToSend(head, s.cached_tail)
  <2>1. snd' = [snd EXCEPT ![p] = Return(a)]
    BY <1>3 DEF PendingAdd
  <2>2. /\ s.next + 1 \in Nat /\ s.flushed < s.next + 1 /\ s.flushed \in Nat
        /\ s.group \in Seq(Requests) /\ s.req \in Requests
    BY <1>1, SndFields DEF Base
  <2>3. g \in Seq(Requests) /\ Late(g, s.flushed)
    BY <1>1, <2>2, AppendLate DEF Base
  <2> HIDE DEF g
  <2>4. a \in SndType
    BY <1>1, <2>2, <2>3, Zenon DEF SndType
  <2>5. /\ a.cached_tail = s.cached_tail /\ a.group = g
        /\ a.flushed = s.flushed /\ a.next = s.next + 1
    BY <1>1 DEF SndType
  <2> HIDE DEF a
  <2>6. Base(a, tail) /\ Waits(a, head)
    BY <1>1, <1>3, <2>2, <2>3, <2>4, <2>5 DEF Base, Waits
  <2>7. SndInv(Return(a), head, tail) /\ Return(a).pc = "idle"
    BY <1>1, <2>6, ReturnInv
  <2> QED BY <1>1, <2>1, <2>7 DEF Private, Reserved, PendingAdd
<1> QED BY <1>2, <1>3

LEMMA GiveUpPrivate ==
    ASSUME FifoInv, NEW p \in Senders, GiveUp(p)
    PROVE  \E t : Private(p, t)
<1>1. /\ head \in Nat /\ tail \in Nat /\ Base(snd[p], tail)
      /\ Waits(snd[p], head) /\ snd[p].pc = "add"
    BY Start DEF GiveUp, SndInv
<1>2. SndInv(Return(snd[p]), head, tail) /\ Return(snd[p]).pc = "idle"
    BY <1>1, ReturnInv
<1> QED BY <1>1, <1>2 DEF Private, Reserved, GiveUp

LEMMA StartDispatchPrivate ==
    ASSUME FifoInv, NEW p \in Senders, StartDispatch(p)
    PROVE  \E t : Private(p, t)
<1> DEFINE s == snd[p]
           c == [s EXCEPT !.pc = "disp"]
<1>1. /\ s \in SndType /\ SndInv(s, head, tail) /\ snd \in [Senders -> SndType]
      /\ s.pc = "idle" /\ s.group # << >>
    BY Start DEF StartDispatch
<1>2. snd' = [snd EXCEPT ![p] = c]
    BY <1>1 DEF StartDispatch
<1>3. c \in SndType
    BY <1>1 DEF SndType, Calls
<1>4. /\ c.pc = "disp" /\ c.pend = s.pend
      /\ c.cached_tail = s.cached_tail /\ c.group = s.group
      /\ c.flushed = s.flushed /\ c.next = s.next
    BY <1>1 DEF SndType
<1> HIDE DEF c
<1>5. SndInv(c, head, tail)
    BY <1>1, <1>3, <1>4 DEF SndInv, Base
<1> QED BY <1>1, <1>2, <1>4, <1>5 DEF Private, Reserved, StartDispatch

\* The tail is read anew before a dispatch and before the second attempt of a
\* flush, in which no request waits.
LEMMA TailReadPrivate ==
    ASSUME FifoInv, NEW p \in Senders, ProcessPendingTail(p) \/ FlushTail(p)
    PROVE  \E t : Private(p, t)
<1> DEFINE s == snd[p]
           c(pc) == [s EXCEPT !.cached_tail = tail, !.pc = pc]
<1>1. /\ s \in SndType /\ SndInv(s, head, tail) /\ snd \in [Senders -> SndType]
      /\ tail \in Nat
    BY Start
<1>2. PICK pc \in {"process", "flush"} :
        /\ s.pc = IF pc = "process" THEN "disp" ELSE "flush_tail"
        /\ snd' = [snd EXCEPT ![p] = c(pc)]
        /\ UNCHANGED <<head, armed, tail, elem, mem, signals, rcv>>
  <2>1. CASE ProcessPendingTail(p)
    <3>1. s.pc = "disp" /\ snd' = [snd EXCEPT ![p] = c("process")]
        BY <1>1, <2>1 DEF ProcessPendingTail
    <3> QED BY <2>1, <3>1 DEF ProcessPendingTail
  <2>2. CASE FlushTail(p)
    <3>1. s.pc = "flush_tail" /\ snd' = [snd EXCEPT ![p] = c("flush")]
        BY <1>1, <2>2 DEF FlushTail
    <3> QED BY <2>2, <3>1 DEF FlushTail
  <2> QED BY <2>1, <2>2
<1> DEFINE t == c(pc)
<1>3. t \in SndType
    BY <1>1, <1>2 DEF SndType, Calls
<1>4. /\ t.pc = pc /\ t.pend = s.pend
      /\ t.cached_tail = tail /\ t.group = s.group
      /\ t.flushed = s.flushed /\ t.next = s.next
    BY <1>1 DEF SndType
<1>5. snd' = [snd EXCEPT ![p] = t]
    BY <1>2
<1> HIDE DEF t
<1>6. SndInv(t, head, tail)
    BY <1>1, <1>2, <1>3, <1>4 DEF SndInv, Base, Waits
<1> QED BY <1>2, <1>4, <1>5, <1>6 DEF Private, Reserved

LEMMA ProcessPendingPrivate ==
    ASSUME FifoInv, NEW p \in Senders, ProcessPending(p)
    PROVE  \E t : Private(p, t)
<1> DEFINE s == snd[p]
           rest == Tail(s.group)
           first == Head(s.group)
           i == [s EXCEPT !.pc = "idle"]
           d == [s EXCEPT !.group = rest, !.pend = TRUE]
           c == [s EXCEPT !.group = rest, !.pend = TRUE, !.req = first,
                          !.pc = "try"]
<1>1. /\ s \in SndType /\ SndInv(s, head, tail) /\ Base(s, tail)
      /\ s.pc = "process" /\ head \in Nat /\ tail \in Nat
      /\ s.group # << >>
    BY Start DEF ProcessPending, SndInv
<1>2. /\ rest \in Seq(Requests) /\ Late(rest, s.flushed)
      /\ first \in Requests /\ (first = ArbElem \/ first.n > s.flushed)
    BY <1>1, HeadTailLate, SndFields DEF Base
<1>3. CASE ~AbleToSend(head, s.cached_tail)
  <2>1. snd' = [snd EXCEPT ![p] = i]
    BY <1>3 DEF ProcessPending
  <2>2. i \in SndType
    BY <1>1 DEF SndType, Calls
  <2>3. /\ i.pc = "idle" /\ i.pend = s.pend
        /\ i.cached_tail = s.cached_tail /\ i.group = s.group
        /\ i.flushed = s.flushed /\ i.next = s.next
    BY <1>1 DEF SndType
  <2> HIDE DEF i
  <2>4. SndInv(i, head, tail)
    BY <1>1, <1>3, <2>2, <2>3 DEF SndInv, Base, Waits
  <2> QED BY <1>1, <2>1, <2>3, <2>4 DEF Private, Reserved, ProcessPending
<1>4. CASE AbleToSend(head, s.cached_tail) /\ first = ArbElem
  <2>1. snd' = [snd EXCEPT ![p] = Done(d)]
    BY <1>4 DEF ProcessPending
  <2> HIDE DEF rest, first
  <2>2. d \in SndType
    BY <1>1, <1>2 DEF SndType
  <2>3. /\ d.pend = TRUE /\ d.cached_tail = s.cached_tail /\ d.group = rest
        /\ d.flushed = s.flushed /\ d.next = s.next
    BY <1>1 DEF SndType
  <2> HIDE DEF d
  <2>4. Base(d, tail)
    BY <1>1, <1>2, <2>2, <2>3 DEF Base
  <2>5. SndInv(Done(d), head, tail) /\ Done(d).pc \notin Reserved
    BY <1>1, <2>3, <2>4, DoneInv
  <2> QED BY <1>1, <2>1, <2>5 DEF Private, Reserved, ProcessPending
<1>5. CASE AbleToSend(head, s.cached_tail) /\ first # ArbElem
  <2>1. snd' = [snd EXCEPT ![p] = c]
    BY <1>5 DEF ProcessPending
  <2> HIDE DEF rest, first
  <2>2. c \in SndType
    BY <1>1, <1>2 DEF SndType, Calls
  <2>3. /\ c.pc = "try" /\ c.pend = TRUE /\ c.req = first
        /\ c.cached_tail = s.cached_tail /\ c.group = rest
        /\ c.flushed = s.flushed /\ c.next = s.next
    BY <1>1 DEF SndType
  <2> HIDE DEF c
  <2>4. SndInv(c, head, tail)
    BY <1>1, <1>2, <1>5, <2>2, <2>3 DEF SndInv, Base
  <2> QED BY <1>1, <2>1, <2>3, <2>4 DEF Private, Reserved, ProcessPending
<1> QED BY <1>3, <1>4, <1>5

LEMMA FlushOkInv ==
    ASSUME NEW s, NEW hd \in Nat, NEW tl \in Nat, SndInv(s, hd, tl),
           s.pc \in {"idle", "flush"}, AbleToSend(hd, s.cached_tail)
    PROVE  SndInv(FlushOk(s), hd, tl) /\ FlushOk(s).pc = "idle"
<1> DEFINE k == s.next - 1
           t == [s EXCEPT !.pc = "idle", !.flushed = k]
<1>1. s \in SndType /\ s.group = << >> /\ ~s.pend
    BY DEF SndInv, Base, Waits
<1>2. k \in Nat /\ k < s.next
    BY <1>1, SndFields DEF SndInv, Base
<1> HIDE DEF k
<1>3. t \in SndType
    BY <1>1, <1>2 DEF SndType, Calls
<1>4. /\ t.pc = "idle" /\ t.pend = s.pend
      /\ t.cached_tail = s.cached_tail /\ t.group = s.group
      /\ t.flushed = k /\ t.next = s.next
    BY <1>1 DEF SndType
<1>5. t = FlushOk(s)
    BY DEF FlushOk, k
<1> HIDE DEF t
<1> QED BY <1>1, <1>2, <1>3, <1>4, <1>5, EmptyLate DEF SndInv, Base, Waits

LEMMA FlushPrivate ==
    ASSUME FifoInv, NEW p \in Senders, Flush(p) \/ FlushAgain(p)
    PROVE  \E t : Private(p, t)
<1> DEFINE s == snd[p]
           c(pc) == [s EXCEPT !.pc = pc]
<1>1. /\ s \in SndType /\ SndInv(s, head, tail) /\ snd \in [Senders -> SndType]
      /\ head \in Nat /\ tail \in Nat
    BY Start
<1>2. /\ s.pc \in {"idle", "flush"}
      /\ UNCHANGED <<head, armed, tail, elem, mem, signals, rcv>>
    BY DEF Flush, FlushAgain
<1>3. \/ /\ AbleToSend(head, s.cached_tail)
         /\ snd' = [snd EXCEPT ![p] = FlushOk(s)]
      \/ /\ GroupEmpty(s) /\ snd' = [snd EXCEPT ![p] = c("flush_tail")]
      \/ /\ s.pc = "flush" /\ snd' = [snd EXCEPT ![p] = c("idle")]
  <2>1. CASE Flush(p)
    BY <1>1, <2>1 DEF Flush
  <2>2. CASE FlushAgain(p)
    BY <1>1, <2>2 DEF FlushAgain
  <2> QED BY <2>1, <2>2
<1>4. CASE /\ AbleToSend(head, s.cached_tail)
           /\ snd' = [snd EXCEPT ![p] = FlushOk(s)]
  <2>1. SndInv(FlushOk(s), head, tail) /\ FlushOk(s).pc = "idle"
    BY <1>1, <1>2, <1>4, FlushOkInv
  <2> QED BY <1>2, <1>4, <2>1 DEF Private, Reserved
<1>5. ASSUME NEW pc \in {"flush_tail", "idle"}, s.group = << >>, ~s.pend,
             snd' = [snd EXCEPT ![p] = c(pc)]
      PROVE  \E t : Private(p, t)
  <2> DEFINE t == c(pc)
  <2>1. t \in SndType
    BY <1>1 DEF SndType, Calls
  <2>2. /\ t.pc = pc /\ t.pend = s.pend
        /\ t.cached_tail = s.cached_tail /\ t.group = s.group
        /\ t.flushed = s.flushed /\ t.next = s.next
    BY <1>1 DEF SndType
  <2>3. snd' = [snd EXCEPT ![p] = t]
    BY <1>5
  <2> HIDE DEF t
  <2>4. SndInv(t, head, tail)
    BY <1>1, <1>5, <2>1, <2>2 DEF SndInv, Base, Waits
  <2> QED BY <1>2, <2>2, <2>3, <2>4 DEF Private, Reserved
<1>6. s.pc = "flush" => s.group = << >> /\ ~s.pend
    BY <1>1 DEF SndInv
<1> QED BY <1>3, <1>4, <1>5, <1>6 DEF GroupEmpty

LEMMA PendingPurgePrivate ==
    ASSUME FifoInv, NEW p \in Senders, PendingPurge(p)
    PROVE  \E t : Private(p, t)
<1> DEFINE s == snd[p]
           l == s.lost \cup {s.group[i].n : i \in DOMAIN s.group}
           k == s.purges + 1
           t == [s EXCEPT !.group = << >>, !.purges = k, !.lost = l]
<1>1. /\ s \in SndType /\ SndInv(s, head, tail) /\ snd \in [Senders -> SndType]
      /\ s.pc = "idle"
    BY Start DEF PendingPurge
<1>2. snd' = [snd EXCEPT ![p] = t]
    BY <1>1 DEF PendingPurge
<1>3. k \in Nat /\ l \in SUBSET Nat
  <2>1. s.purges \in Nat /\ s.lost \in SUBSET Nat /\ s.group \in Seq(Requests)
    BY <1>1, SndFields
  <2>2. \A r \in Requests : r.n \in Nat
    BY DEF Requests
  <2> DEFINE g == s.group
  <2>3. \A i \in DOMAIN g : g[i] \in Requests
    <3> HIDE DEF g
    <3> QED BY <2>1 DEF g
  <2> QED BY <2>1, <2>2, <2>3
<1>4. << >> \in Seq(Requests)
    OBVIOUS
<1> HIDE DEF k, l
<1>5. t \in SndType
    BY <1>1, <1>3, <1>4, Zenon DEF SndType
<1>6. /\ t.pc = "idle" /\ t.pend = s.pend
      /\ t.cached_tail = s.cached_tail /\ t.group = << >>
      /\ t.flushed = s.flushed /\ t.next = s.next
    BY <1>1 DEF SndType
<1> HIDE DEF t
<1>7. SndInv(t, head, tail)
    BY <1>1, <1>5, <1>6, EmptyLate DEF SndInv, Base, Waits
<1> QED BY <1>1, <1>2, <1>6, <1>7 DEF Private, Reserved, PendingPurge

-----------------------------------------------------------------------------
(* The invariant under the steps of a sender. *)

LEMMA Others ==
    ASSUME FifoInv, NEW p \in Senders, NEW t, snd' = [snd EXCEPT ![p] = t]
    PROVE  \A q \in Senders : snd'[q] = IF q = p THEN t ELSE snd[q]
BY DEF FifoInv

\* The types and the endpoints, when one endpoint changes.
LEMMA EndpointStep ==
    ASSUME FifoInv, NEW p \in Senders, NEW t, snd' = [snd EXCEPT ![p] = t],
           head' \in Nat, tail' \in Nat, head <= head', tail <= tail',
           SndInv(t, head', tail')
    PROVE  /\ snd' \in [Senders -> SndType]
           /\ \A q \in Senders : SndInv(snd'[q], head', tail')
<1>1. t \in SndType
    BY DEF SndInv, Base
<1>2. ASSUME NEW q \in Senders PROVE SndInv(snd'[q], head', tail')
  <2>1. SndInv(snd[q], head, tail) /\ head \in Nat /\ tail \in Nat
    BY Start
  <2>2. SndInv(snd[q], head', tail')
    BY <2>1, SndMonotone
  <2> QED BY <2>2, Others
<1> QED BY <1>1, <1>2 DEF FifoInv

LEMMA PrivateStep ==
    ASSUME MmInv, NEW p \in Senders, NEW t, Private(p, t)
    PROVE  MmInv'
<1>1. /\ snd' \in [Senders -> SndType]
      /\ \A q \in Senders : SndInv(snd'[q], head', tail')
  <2>1. /\ FifoInv /\ snd' = [snd EXCEPT ![p] = t] /\ head' \in Nat /\ tail' \in Nat
        /\ head <= head' /\ tail <= tail' /\ SndInv(t, head', tail')
    BY DEF Private, MmInv, FifoInv
  <2> QED BY <2>1, EndpointStep
<1>2. \A q \in Senders : snd'[q] = IF q = p THEN t ELSE snd[q]
    BY Others DEF Private, MmInv
<1>3. \A q \in Senders :
        /\ Writing(q)' <=> Writing(q)
        /\ Waker(q)' <=> Waker(q)
        /\ Writing(q) => snd'[q] = snd[q]
    BY <1>2 DEF Private, Writing, Waker, Reserved
<1>4. FifoInv'
    BY <1>1, <1>3 DEF Private, MmInv, FifoInv, Unread, Elem, OwnerBit
<1>5. DescInv'
    BY DEF Private, MmInv, DescInv
<1>6. Abandoned => Abandoned'
    BY <1>3 DEF Private, Abandoned, HasNewData, Elem, OwnerBit
<1>7. WakeInv'
    BY <1>3, <1>6 DEF Private, MmInv, WakeInv
<1> QED BY <1>4, <1>5, <1>7 DEF MmInv

LEMMA GetRemoteElemStep ==
    ASSUME MmInv, NEW p \in Senders, GetRemoteElem(p)
    PROVE  MmInv'
<1> DEFINE s == snd[p]
           w == [s EXCEPT !.pc = "write"]
           y == [s EXCEPT !.pc = "try"]
<1>1. /\ s \in SndType /\ SndInv(s, head, tail) /\ snd \in [Senders -> SndType]
      /\ s.pc = "cas" /\ head \in Nat /\ tail \in Nat /\ FifoInv
    BY Start DEF MmInv, GetRemoteElem
<1>2. CASE ~(head = s.head /\ armed = s.armed)
  <2>1. snd' = [snd EXCEPT ![p] = y]
    BY <1>1, <1>2 DEF GetRemoteElem
  <2>2. y \in SndType
    BY <1>1 DEF SndType, Calls
  <2>3. /\ y.pc = "try" /\ y.pend = s.pend /\ y.req = s.req
        /\ y.cached_tail = s.cached_tail /\ y.group = s.group
        /\ y.flushed = s.flushed /\ y.next = s.next
    BY <1>1 DEF SndType
  <2> HIDE DEF y
  <2>4. SndInv(y, head, tail)
    BY <1>1, <2>2, <2>3 DEF SndInv, Base, Waits
  <2>5. Private(p, y)
    BY <1>1, <1>2, <2>1, <2>3, <2>4 DEF Private, Reserved, GetRemoteElem
  <2> QED BY <2>5, PrivateStep
<1>3. CASE head = s.head /\ armed = s.armed
  <2>1. /\ snd' = [snd EXCEPT ![p] = w] /\ head' = head + 1 /\ armed' = FALSE
        /\ UNCHANGED <<tail, elem, mem, signals, rcv>>
    BY <1>1, <1>3 DEF GetRemoteElem
  <2>2. w \in SndType
    BY <1>1 DEF SndType, Calls
  <2>3. /\ w.pc = "write" /\ w.pend = s.pend /\ w.req = s.req /\ w.head = head
        /\ w.cached_tail = s.cached_tail /\ w.group = s.group
        /\ w.flushed = s.flushed /\ w.next = s.next /\ w.armed = armed
    BY <1>1, <1>3 DEF SndType
  <2> HIDE DEF w
  <2>4. SndInv(s, head', tail')
    BY <1>1, <2>1, SndMonotone
  <2>5. SndInv(w, head', tail')
    BY <1>1, <2>2, <2>3, <2>4 DEF SndInv, Base, Waits
  <2>6. /\ snd' \in [Senders -> SndType]
        /\ \A q \in Senders : SndInv(snd'[q], head', tail')
    <3>1. head' \in Nat /\ tail' \in Nat /\ head <= head' /\ tail <= tail'
        BY <1>1, <2>1
    <3> QED BY <1>1, <2>1, <2>5, <3>1, EndpointStep
  <2>7. \A q \in Senders : snd'[q] = IF q = p THEN w ELSE snd[q]
    BY <1>1, <2>1, Others
  <2>8. head + 1 <= tail + FifoSize
    BY <1>1, <1>3, SndFields, Size DEF SndInv, Base, AbleToSend
  <2>9. \A q \in Senders : snd[q].head \in Nat
    BY <1>1, SndFields
  <2>10. FifoInv'
    <3>1. \A q \in Senders :
            /\ Writing(q)' <=> (q = p \/ Writing(q))
            /\ q # p /\ Writing(q)' => snd'[q].head < head
        BY <1>1, <2>3, <2>7 DEF Writing, FifoInv
    <3>2. \A q \in Senders : Writing(q)' =>
            rcv.read_index <= snd'[q].head /\ snd'[q].head < head'
        BY <1>1, <2>1, <2>3, <2>7, <2>9, <3>1 DEF FifoInv
    <3>3. \A q, r \in Senders : Writing(q)' /\ Writing(r)' /\ q # r
            => snd'[q].head # snd'[r].head
        BY <1>1, <2>3, <2>7, <3>1 DEF FifoInv
    <3>4. \A i \in Nat : Unread(i) /\ elem[Elem(i)].owner = OwnerBit(i) =>
            i < head' /\ \A q \in Senders : Writing(q)' => snd'[q].head # i
        BY <1>1, <2>1, <2>3, <2>7, <3>1 DEF FifoInv
    <3>5. /\ head' \in Nat /\ tail' \in Nat /\ rcv'.read_index \in Nat
          /\ tail' <= rcv'.read_index /\ rcv'.read_index <= head'
          /\ head' <= tail' + FifoSize /\ armed' \in BOOLEAN
      <4>1. /\ rcv.read_index \in Nat /\ tail <= rcv.read_index
            /\ rcv.read_index <= head
        BY <1>1 DEF FifoInv
      <4>2. armed' \in BOOLEAN
        BY <2>1, Zenon
      <4>3. head' = head + 1 /\ tail' = tail /\ rcv' = rcv
        BY <2>1
      <4> QED BY <1>1, <2>8, <4>1, <4>2, <4>3, Size
    <3>6. \A i \in Nat : Unread(i)' /\ (elem[Elem(i)].owner = OwnerBit(i))' =>
            i < head' /\ \A q \in Senders : Writing(q)' => snd'[q].head # i
        BY <2>1, <3>4 DEF Unread, Elem, OwnerBit
    <3> QED BY <2>1, <2>6, <3>2, <3>3, <3>5, <3>6, Zenon DEF FifoInv
  <2>11. DescInv'
    BY <2>1 DEF MmInv, DescInv
  <2>12. WakeInv'
    <3>1. armed /\ head = rcv.read_index => Waker(p)'
        BY <2>1, <2>3, <2>7 DEF Waker, Writing
    <3>2. \A q \in Senders : Waker(q) => Waker(q)'
        BY <1>1, <2>1, <2>7 DEF Waker, Writing
    <3>3. Abandoned => Abandoned'
        BY <1>1, <2>1, <2>3, <2>7
           DEF Abandoned, HasNewData, Writing, Elem, OwnerBit, FifoInv
    <3> QED BY <2>1, <3>1, <3>2, <3>3 DEF MmInv, WakeInv
  <2> QED BY <2>10, <2>11, <2>12 DEF MmInv
<1> QED BY <1>2, <1>3

\* Elements that have kept their owner bits and descriptors.
SameElems ==
    /\ DOMAIN elem' = DOMAIN elem
    /\ \A i \in DOMAIN elem : /\ DOMAIN elem'[i] = DOMAIN elem[i]
                              /\ elem'[i].owner = elem[i].owner
                              /\ elem'[i].desc = elem[i].desc

LEMMA WriteDataStep ==
    ASSUME MmInv, NEW p \in Senders, WriteData(p)
    PROVE  MmInv'
<1> DEFINE s == snd[p]
           f == [s EXCEPT !.pc = "flags"]
           i == Elem(s.head)
           m == Msg(p, s.req.n)
<1>1. /\ s \in SndType /\ SndInv(s, head, tail) /\ snd \in [Senders -> SndType]
      /\ s.pc = "write" /\ head \in Nat /\ tail \in Nat /\ FifoInv
    BY Start DEF MmInv, WriteData
<1>2. /\ snd' = [snd EXCEPT ![p] = f]
      /\ UNCHANGED <<head, armed, tail, signals, rcv>>
    BY <1>1 DEF WriteData
<1>3. f \in SndType
    BY <1>1 DEF SndType, Calls
<1>4. /\ f.pc = "flags" /\ f.pend = s.pend /\ f.req = s.req /\ f.head = s.head
      /\ f.cached_tail = s.cached_tail /\ f.group = s.group
      /\ f.flushed = s.flushed /\ f.next = s.next /\ f.armed = s.armed
    BY <1>1 DEF SndType
<1> HIDE DEF f
<1>5. SndInv(f, head, tail)
    BY <1>1, <1>3, <1>4 DEF SndInv, Base, Waits
<1>6. /\ snd' \in [Senders -> SndType]
      /\ \A q \in Senders : SndInv(snd'[q], head', tail')
  <2>1. head <= head' /\ tail <= tail'
    BY <1>1, <1>2
  <2> QED BY <1>1, <1>2, <1>5, <2>1, EndpointStep
<1>7. \A q \in Senders : snd'[q] = IF q = p THEN f ELSE snd[q]
    BY <1>1, <1>2, Others
<1>8. \A q \in Senders :
        /\ Writing(q)' <=> Writing(q)
        /\ Waker(q)' <=> Waker(q)
        /\ snd'[q].head = snd[q].head
    BY <1>1, <1>2, <1>4, <1>7 DEF Writing, Waker
<1>9. SameElems /\ DOMAIN mem' = DOMAIN mem
  <2> HIDE DEF i, m
  <2>1. CASE elem' = elem /\ mem' = [mem EXCEPT ![elem[i].desc] = m]
    BY <2>1 DEF SameElems
  <2>2. CASE elem' = [elem EXCEPT ![i].data = m] /\ mem' = mem
    <3>1. \A j \in DOMAIN elem :
            elem'[j] = IF j = i THEN [elem[j] EXCEPT !.data = m] ELSE elem[j]
        BY <2>2, Zenon
    <3>2. \A j \in DOMAIN elem : {"owner", "desc"} \subseteq DOMAIN elem[j]
        BY DEF MmInv, DescInv
    <3>3. "owner" # "data" /\ "desc" # "data"
        OBVIOUS
    <3>4. ASSUME NEW j \in DOMAIN elem
          PROVE  /\ DOMAIN elem'[j] = DOMAIN elem[j]
                 /\ elem'[j].owner = elem[j].owner
                 /\ elem'[j].desc = elem[j].desc
        BY <3>1, <3>2, <3>3, Zenon
    <3>5. DOMAIN elem' = DOMAIN elem
        BY <2>2, Zenon
    <3> QED BY <2>2, <3>4, <3>5 DEF SameElems
  <2> QED BY <2>1, <2>2 DEF WriteData, i, m
<1>10. \A j \in Nat : Elem(j) \in DOMAIN elem
    BY Division DEF MmInv, DescInv
<1>11. FifoInv'
  <2>1. \A j \in Nat : elem'[Elem(j)].owner = elem[Elem(j)].owner
    BY <1>9, <1>10 DEF SameElems
  <2> QED BY <1>1, <1>2, <1>6, <1>8, <2>1
          DEF FifoInv, Unread, Elem, OwnerBit
<1>12. DescInv'
    BY <1>2, <1>9, SMT DEF MmInv, DescInv, SameElems
<1>13. WakeInv'
  <2>1. HasNewData' <=> HasNewData
    BY <1>1, <1>2, <1>9, <1>10 DEF HasNewData, SameElems, Elem, OwnerBit, FifoInv
  <2>2. Abandoned => Abandoned'
    BY <1>2, <1>8, <2>1 DEF Abandoned
  <2> QED BY <1>2, <1>8, <2>2 DEF MmInv, WakeInv
<1> QED BY <1>11, <1>12, <1>13 DEF MmInv

\* A sender leaves its element, if it has one.
LEMMA StopWriting ==
    ASSUME FifoInv, NEW p \in Senders, NEW t, snd' = [snd EXCEPT ![p] = t],
           SndInv(t, head, tail), t.pc \notin {"write", "flags"},
           UNCHANGED <<head, armed, tail, rcv>>,
           \A i \in Nat : Unread(i) /\ elem'[Elem(i)].owner = OwnerBit(i) =>
                i < head /\ \A q \in Senders \ {p} : Writing(q) => snd[q].head # i
    PROVE  /\ FifoInv'
           /\ \A q \in Senders : /\ Writing(q)' <=> q # p /\ Writing(q)
                                 /\ snd'[q] = IF q = p THEN t ELSE snd[q]
<1>1. /\ head' = head /\ armed' = armed /\ tail' = tail /\ rcv' = rcv
      /\ head \in Nat /\ tail \in Nat /\ head <= head' /\ tail <= tail'
    BY DEF FifoInv
<1>2. /\ snd' \in [Senders -> SndType]
      /\ \A q \in Senders : SndInv(snd'[q], head', tail')
    BY <1>1, EndpointStep
<1>3. \A q \in Senders : snd'[q] = IF q = p THEN t ELSE snd[q]
    BY DEF FifoInv
<1>4. \A q \in Senders : Writing(q)' <=> q # p /\ Writing(q)
    BY <1>3 DEF Writing
<1>5. \A i \in Nat : Unread(i)' /\ (elem[Elem(i)].owner = OwnerBit(i))' =>
        i < head' /\ \A q \in Senders : Writing(q)' => snd'[q].head # i
    BY <1>1, <1>3, <1>4 DEF Unread, Elem, OwnerBit
<1>6. \A q \in Senders :
        /\ Writing(q)' => /\ rcv'.read_index <= snd'[q].head
                          /\ snd'[q].head < head'
        /\ \A r \in Senders : Writing(q)' /\ Writing(r)' /\ q # r
                              => snd'[q].head # snd'[r].head
    BY <1>1, <1>3, <1>4 DEF FifoInv
<1>7. /\ head' \in Nat /\ tail' \in Nat /\ rcv'.read_index \in Nat
      /\ tail' <= rcv'.read_index /\ rcv'.read_index <= head'
      /\ head' <= tail' + FifoSize /\ armed' \in BOOLEAN
    BY <1>1, Zenon DEF FifoInv
<1>8. FifoInv'
    BY <1>2, <1>5, <1>6, <1>7, Zenon DEF FifoInv
<1> QED BY <1>3, <1>4, <1>8

\* What Done needs of a sender that has reserved an element.
LEMMA ReservedDone ==
    ASSUME FifoInv, NEW p \in Senders, snd[p].pc \in Reserved
    PROVE  SndInv(Done(snd[p]), head, tail) /\ Done(snd[p]).pc \notin Reserved
<1>1. /\ head \in Nat /\ tail \in Nat /\ Base(snd[p], tail)
      /\ ~snd[p].pend => Waits(snd[p], head)
    BY Start DEF SndInv, Reserved
<1> QED BY <1>1, DoneInv

LEMMA AttachFailsStep ==
    ASSUME MmInv, NEW p \in Senders, AttachFails(p)
    PROVE  MmInv'
<1> DEFINE s == snd[p]
           k == s.failures + 1
           l == s.lost \cup {s.req.n}
           x == [s EXCEPT !.failures = k, !.lost = l]
           t == Done(x)
<1>1. /\ s \in SndType /\ SndInv(s, head, tail) /\ snd \in [Senders -> SndType]
      /\ s.pc = "write" /\ head \in Nat /\ tail \in Nat /\ FifoInv
    BY Start DEF MmInv, AttachFails
<1>2. /\ snd' = [snd EXCEPT ![p] = t]
      /\ UNCHANGED <<head, armed, tail, elem, mem, signals, rcv>>
    BY DEF AttachFails
<1>3. k \in Nat /\ l \in SUBSET Nat
  <2>1. s.failures \in Nat /\ s.lost \in SUBSET Nat /\ s.req \in Requests
    BY <1>1, SndFields
  <2> QED BY <2>1 DEF Requests
<1>4. SndInv(t, head, tail) /\ t.pc \notin Reserved
  <2> HIDE DEF k, l
  <2>1. x \in SndType
    BY <1>1, <1>3 DEF SndType
  <2>2. /\ x.pend = s.pend /\ x.cached_tail = s.cached_tail
        /\ x.group = s.group /\ x.flushed = s.flushed /\ x.next = s.next
    BY <1>1 DEF SndType
  <2> HIDE DEF x
  <2>3. Base(x, tail) /\ (~x.pend => Waits(x, head))
    BY <1>1, <2>1, <2>2 DEF SndInv, Base, Waits
  <2> QED BY <1>1, <2>3, DoneInv
<1> HIDE DEF t
<1>5. \A i \in Nat : Unread(i) /\ elem'[Elem(i)].owner = OwnerBit(i) =>
        i < head /\ \A q \in Senders \ {p} : Writing(q) => snd[q].head # i
    BY <1>1, <1>2 DEF FifoInv
<1>6. /\ FifoInv'
      /\ \A q \in Senders : /\ Writing(q)' <=> q # p /\ Writing(q)
                            /\ snd'[q] = IF q = p THEN t ELSE snd[q]
    BY <1>1, <1>2, <1>4, <1>5, StopWriting DEF Reserved
<1>7. DescInv'
    BY <1>2 DEF MmInv, DescInv
<1>8. WakeInv'
  <2>1. HasNewData' <=> HasNewData
    BY <1>2 DEF HasNewData, Elem, OwnerBit
  <2>2. Abandoned => Abandoned'
    BY <1>2, <1>6, <2>1 DEF Abandoned
  <2>3. \A q \in Senders \ {p} : Waker(q) => Waker(q)'
    BY <1>2, <1>6 DEF Waker
  <2>4. ASSUME Waker(p) PROVE Abandoned'
    <3>1. Writing(p) /\ s.head = rcv.read_index
        BY <1>1, <2>4 DEF Waker, Writing
    <3>2. rcv.read_index < head /\ rcv.read_index \in Nat
        BY <1>1, <3>1 DEF FifoInv
    <3>3. Unread(rcv.read_index)
        BY <3>2, Size DEF Unread
    <3>4. ~HasNewData
        BY <1>1, <3>1, <3>2, <3>3 DEF FifoInv, HasNewData
    <3>5. \A q \in Senders \ {p} : Writing(q) => snd[q].head # rcv.read_index
        BY <1>1, <3>1 DEF FifoInv
    <3> QED BY <1>2, <1>6, <2>1, <3>2, <3>4, <3>5 DEF Abandoned
  <2> QED BY <1>2, <2>2, <2>3, <2>4 DEF MmInv, WakeInv
<1> QED BY <1>6, <1>7, <1>8 DEF MmInv

LEMMA SignalRemoteStep ==
    ASSUME MmInv, NEW p \in Senders, SignalRemote(p)
    PROVE  MmInv'
<1> DEFINE t == Done(snd[p])
<1>1. /\ snd[p].pc = "signal" /\ snd' = [snd EXCEPT ![p] = t]
      /\ UNCHANGED <<head, armed, tail, elem, mem, rcv>>
      /\ signals' = IF signals < SignalCap THEN signals + 1 ELSE signals
    BY DEF SignalRemote
<1>2. FifoInv /\ SndInv(t, head, tail) /\ t.pc \notin Reserved
    BY <1>1, ReservedDone DEF MmInv, Reserved
<1> HIDE DEF t
<1>3. \A i \in Nat : Unread(i) /\ elem'[Elem(i)].owner = OwnerBit(i) =>
        i < head /\ \A q \in Senders \ {p} : Writing(q) => snd[q].head # i
    BY <1>1, <1>2 DEF FifoInv
<1>4. FifoInv'
    BY <1>1, <1>2, <1>3, StopWriting DEF Reserved
<1>5. DescInv'
    BY <1>1 DEF MmInv, DescInv
<1>6. signals' \in Nat /\ signals' > 0
    BY <1>1, MmFifoAssumption DEF MmInv, WakeInv
<1>7. WakeInv'
    BY <1>1, <1>6 DEF MmInv, WakeInv
<1> QED BY <1>4, <1>5, <1>7 DEF MmInv

LEMMA SetFlagsStep ==
    ASSUME MmInv, NEW p \in Senders, SetFlags(p)
    PROVE  MmInv'
<1> DEFINE s == snd[p]
           g == [s EXCEPT !.pc = "signal"]
           t == IF s.armed THEN g ELSE Done(s)
           i == Elem(s.head)
           b == OwnerBit(s.head)
           n == (s.req.kind = "short")
<1>1. /\ s \in SndType /\ SndInv(s, head, tail) /\ snd \in [Senders -> SndType]
      /\ s.pc = "flags" /\ head \in Nat /\ tail \in Nat /\ FifoInv
      /\ s.head \in Nat /\ Writing(p)
    BY Start, SndFields DEF MmInv, SetFlags, Writing
<1>2. /\ snd' = [snd EXCEPT ![p] = t]
      /\ elem' = [elem EXCEPT ![i].owner = b, ![i].inline = n]
      /\ UNCHANGED <<head, armed, tail, mem, signals, rcv>>
    BY DEF SetFlags
<1>3. /\ SndInv(t, head, tail) /\ t.pc \notin {"write", "flags"}
      /\ s.armed => t.pc = "signal"
  <2>1. CASE s.armed
    <3>1. g \in SndType
        BY <1>1 DEF SndType, Calls
    <3>2. /\ g.pc = "signal" /\ g.pend = s.pend /\ g.req = s.req
          /\ g.cached_tail = s.cached_tail /\ g.group = s.group
          /\ g.flushed = s.flushed /\ g.next = s.next
        BY <1>1 DEF SndType
    <3> HIDE DEF g
    <3>3. SndInv(g, head, tail)
        BY <1>1, <3>1, <3>2 DEF SndInv, Base, Waits
    <3> QED BY <2>1, <3>2, <3>3
  <2>2. CASE ~s.armed
    BY <1>1, <2>2, ReservedDone DEF Reserved
  <2> QED BY <2>1, <2>2
<1> HIDE DEF t, i, b, n
<1>4. i \in DOMAIN elem /\ \A j \in Nat : Elem(j) \in DOMAIN elem
    BY <1>1, Division DEF MmInv, DescInv, i
<1>5. /\ DOMAIN elem' = DOMAIN elem
      /\ \A j \in DOMAIN elem : /\ DOMAIN elem'[j] = DOMAIN elem[j]
                                /\ elem'[j].desc = elem[j].desc
                                /\ j # i => elem'[j] = elem[j]
      /\ elem'[i].owner = b
  <2>1. DOMAIN elem' = DOMAIN elem /\ \A j \in DOMAIN elem : elem'[j] =
            IF j = i THEN [elem[j] EXCEPT !.owner = b, !.inline = n] ELSE elem[j]
    BY <1>2, Zenon
  <2>2. \A j \in DOMAIN elem : {"owner", "inline", "desc"} \subseteq DOMAIN elem[j]
    BY DEF MmInv, DescInv
  <2>3. "owner" # "desc" /\ "inline" # "desc" /\ "owner" # "inline"
    OBVIOUS
  <2> QED BY <1>4, <2>1, <2>2, <2>3, Zenon
<1>6. rcv.read_index <= s.head /\ s.head < head /\ rcv.read_index \in Nat
      /\ head <= rcv.read_index + FifoSize
    BY <1>1, Size DEF FifoInv
<1>7. \A j \in Nat : Unread(j) /\ j # s.head => Elem(j) # i
  <2>1. ASSUME NEW j \in Nat, Unread(j), Elem(j) = Elem(s.head) PROVE j = s.head
    <3>1. j < s.head + FifoSize /\ s.head < j + FifoSize
        BY <1>1, <1>6, <2>1, Size DEF Unread
    <3> QED BY <1>1, <2>1, <3>1, SameElem
  <2> QED BY <2>1 DEF i
<1>8. \A j \in Nat : Unread(j) /\ elem'[Elem(j)].owner = OwnerBit(j) =>
        j < head /\ \A q \in Senders \ {p} : Writing(q) => snd[q].head # j
  <2>1. ASSUME NEW j \in Nat, Unread(j), elem'[Elem(j)].owner = OwnerBit(j)
        PROVE  j < head /\ \A q \in Senders \ {p} : Writing(q) => snd[q].head # j
    <3>1. CASE j = s.head
        BY <1>1, <1>6, <3>1 DEF FifoInv
    <3>2. CASE j # s.head
      <4>1. elem'[Elem(j)] = elem[Elem(j)]
        BY <1>4, <1>5, <1>7, <2>1, <3>2
      <4> QED BY <1>1, <2>1, <4>1 DEF FifoInv
    <3> QED BY <3>1, <3>2
  <2> QED BY <2>1
<1>9. /\ FifoInv'
      /\ \A q \in Senders : /\ Writing(q)' <=> q # p /\ Writing(q)
                            /\ snd'[q] = IF q = p THEN t ELSE snd[q]
    BY <1>1, <1>2, <1>3, <1>8, StopWriting
<1>10. DescInv'
    BY <1>2, <1>5 DEF MmInv, DescInv
<1>11. WakeInv'
  <2>1. ASSUME Abandoned PROVE Abandoned'
    <3>1. s.head # rcv.read_index
        BY <1>1, <2>1 DEF Abandoned
    <3>2. elem'[Elem(rcv.read_index)] = elem[Elem(rcv.read_index)]
        BY <1>4, <1>5, <1>6, <1>7, <3>1, Size DEF Unread
    <3>3. HasNewData' <=> HasNewData
        BY <1>2, <3>2 DEF HasNewData, Elem, OwnerBit
    <3> QED BY <1>2, <1>9, <2>1, <3>3 DEF Abandoned
  <2>2. \A q \in Senders : Waker(q) => Waker(q)'
    BY <1>1, <1>2, <1>3, <1>9 DEF Waker
  <2> QED BY <1>2, <2>1, <2>2 DEF MmInv, WakeInv
<1> QED BY <1>9, <1>10, <1>11 DEF MmInv

=============================================================================
