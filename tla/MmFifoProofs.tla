---------------------------- MODULE MmFifoProofs ----------------------------
(***************************************************************************)
(* Safety of the shared-memory FIFO, for any number of senders, messages,   *)
(* elements and descriptors: the steps of the receiver keep the invariant   *)
(* of MmFifoSteps, and what follows from it.                                *)
(***************************************************************************)
EXTENDS MmFifoSteps, FiniteSetTheorems

-----------------------------------------------------------------------------
(* The invariant under the steps of the receiver. *)

LEMMA Names ==
    /\ "pc" # "read_index" /\ "pc" # "head" /\ "pc" # "last_recv_desc"
    /\ "pc" # "pool" /\ "pc" # "held" /\ "pc" # "delivered"
    /\ "read_index" # "head" /\ "read_index" # "last_recv_desc"
    /\ "read_index" # "pool" /\ "read_index" # "held"
    /\ "read_index" # "delivered" /\ "head" # "last_recv_desc"
    /\ "head" # "pool" /\ "head" # "held" /\ "head" # "delivered"
    /\ "last_recv_desc" # "pool" /\ "last_recv_desc" # "held"
    /\ "last_recv_desc" # "delivered" /\ "pool" # "held"
    /\ "pool" # "delivered" /\ "held" # "delivered"
OBVIOUS

LEMMA SetPc ==
    ASSUME NEW r, DOMAIN r = RcvFields, NEW pc, NEW n, n = [r EXCEPT !.pc = pc]
    PROVE  /\ DOMAIN n = RcvFields /\ n.pc = pc /\ n.head = r.head
           /\ n.read_index = r.read_index /\ n.last_recv_desc = r.last_recv_desc
           /\ n.pool = r.pool /\ n.held = r.held
BY Names, Zenon DEF RcvFields

\* A step that reads nothing; the tail is left alone or brought up to date.
LEMMA NothingRead ==
    ASSUME FifoInv, UNCHANGED <<head, snd, elem>>, armed' \in BOOLEAN,
           rcv'.read_index = rcv.read_index, tail' \in {tail, rcv.read_index}
    PROVE  FifoInv'
<1>1. /\ head' = head /\ snd' = snd /\ elem' = elem
      /\ head \in Nat /\ tail \in Nat /\ rcv.read_index \in Nat
      /\ tail <= rcv.read_index /\ rcv.read_index <= head
      /\ head <= tail + FifoSize
    BY DEF FifoInv
<1>2. /\ tail' \in Nat /\ tail <= tail' /\ tail' <= rcv'.read_index
      /\ head' <= tail' + FifoSize
  <2>1. CASE tail' = tail
    BY <1>1, <2>1
  <2>2. CASE tail' = rcv.read_index
    BY <1>1, <2>2, Size
  <2> QED BY <2>1, <2>2
<1>3. \A p \in Senders : SndInv(snd'[p], head', tail') /\ (Writing(p)' <=> Writing(p))
  <2>1. ASSUME NEW p \in Senders PROVE SndInv(snd'[p], head', tail')
    <3>1. SndInv(snd[p], head, tail) /\ head <= head' /\ head' \in Nat
        BY <1>1, Start
    <3>2. SndInv(snd[p], head', tail')
        BY <1>1, <1>2, <3>1, SndMonotone
    <3> QED BY <1>1, <3>2
  <2> QED BY <1>1, <2>1 DEF Writing
<1>4. \A i \in Nat : Unread(i)' /\ (elem[Elem(i)].owner = OwnerBit(i))' =>
        i < head' /\ \A q \in Senders : Writing(q)' => snd'[q].head # i
    BY <1>1, <1>3 DEF FifoInv, Unread, Elem, OwnerBit
<1>5. \A p \in Senders :
        /\ Writing(p)' => /\ rcv'.read_index <= snd'[p].head
                          /\ snd'[p].head < head'
        /\ \A q \in Senders : Writing(p)' /\ Writing(q)' /\ p # q
                              => snd'[p].head # snd'[q].head
    BY <1>1, <1>3 DEF FifoInv
<1>6. /\ rcv'.read_index \in Nat /\ rcv'.read_index <= head' /\ head' \in Nat
      /\ snd' \in [Senders -> SndType]
    BY <1>1 DEF FifoInv
<1> QED BY <1>2, <1>3, <1>4, <1>5, <1>6, Zenon DEF FifoInv

\* The receiver takes the element of read_index: the element of the next turn
\* enters its view, with the owner bit of this turn.
LEMMA ElementRead ==
    ASSUME FifoInv, HasNewData, UNCHANGED <<head, armed, tail, snd>>,
           \A j \in Nat : elem'[Elem(j)].owner = elem[Elem(j)].owner,
           rcv'.read_index = rcv.read_index + 1
    PROVE  FifoInv'
<1> DEFINE k == rcv.read_index
<1>1. /\ head' = head /\ snd' = snd /\ tail' = tail /\ armed' = armed
      /\ head \in Nat /\ tail \in Nat /\ k \in Nat
      /\ tail <= k /\ k <= head /\ head <= tail + FifoSize
    BY DEF FifoInv
<1>2. elem[Elem(k)].owner = OwnerBit(k) /\ Unread(k)
    BY <1>1, Size DEF HasNewData, Unread
<1>3. k < head /\ \A p \in Senders : Writing(p) => snd[p].head # k
    BY <1>1, <1>2 DEF FifoInv
<1>4. \A p \in Senders : snd[p].head \in Nat /\ (Writing(p)' <=> Writing(p))
    BY <1>1, Start, SndFields DEF Writing
<1>5. \A i \in Nat : Unread(i)' /\ (elem[Elem(i)].owner = OwnerBit(i))' =>
        i < head' /\ \A q \in Senders : Writing(q)' => snd'[q].head # i
  <2>1. ASSUME NEW i \in Nat, Unread(i)', elem[Elem(i)].owner = OwnerBit(i)
        PROVE  i < head /\ \A q \in Senders : Writing(q) => snd[q].head # i
    <3>1. k + 1 <= i /\ i < k + 1 + FifoSize
        BY <1>1, <2>1 DEF Unread
    <3>2. i # k + FifoSize
        BY <1>1, <1>2, <2>1, NextTurn
    <3>3. Unread(i)
        BY <1>1, <3>1, <3>2, Size DEF Unread
    <3> QED BY <2>1, <3>3 DEF FifoInv
  <2>2. \A i \in Nat : (elem[Elem(i)].owner = OwnerBit(i))'
                       <=> elem[Elem(i)].owner = OwnerBit(i)
    BY DEF Elem, OwnerBit
  <2> QED BY <1>1, <1>4, <2>1, <2>2
<1>6. \A p \in Senders :
        /\ Writing(p)' => /\ rcv'.read_index <= snd'[p].head
                          /\ snd'[p].head < head'
        /\ \A q \in Senders : Writing(p)' /\ Writing(q)' /\ p # q
                              => snd'[p].head # snd'[q].head
  <2>1. \A p \in Senders : Writing(p) => k + 1 <= snd[p].head /\ snd[p].head < head
    BY <1>1, <1>3, <1>4 DEF FifoInv
  <2> QED BY <1>1, <1>4, <2>1 DEF FifoInv
<1>7. /\ rcv'.read_index \in Nat /\ tail' <= rcv'.read_index
      /\ rcv'.read_index <= head'
    BY <1>1, <1>3
<1>8. /\ head' \in Nat /\ tail' \in Nat /\ head' <= tail' + FifoSize
      /\ armed' \in BOOLEAN /\ snd' \in [Senders -> SndType]
      /\ \A p \in Senders : SndInv(snd'[p], head', tail')
    BY <1>1, Zenon DEF FifoInv
<1> QED BY <1>5, <1>6, <1>7, <1>8, Zenon DEF FifoInv

LEMMA ProgressFifoTailStep ==
    ASSUME MmInv, ProgressFifoTail
    PROVE  MmInv'
<1>1. DOMAIN rcv = RcvFields /\ rcv' = [rcv EXCEPT !.pc = "run"]
    BY DEF MmInv, WakeInv, ProgressFifoTail
<1>2. /\ DOMAIN rcv' = RcvFields /\ rcv'.pc = "run"
      /\ rcv'.read_index = rcv.read_index
      /\ rcv'.last_recv_desc = rcv.last_recv_desc
      /\ rcv'.pool = rcv.pool /\ rcv'.held = rcv.held
    BY <1>1, SetPc
<1>3. FifoInv /\ armed' \in BOOLEAN
    BY DEF MmInv, FifoInv, ProgressFifoTail
<1>4. FifoInv'
    BY <1>2, <1>3, NothingRead DEF ProgressFifoTail
<1>5. DescInv'
    BY <1>2 DEF MmInv, DescInv, ProgressFifoTail
<1>6. WakeInv'
    BY <1>2 DEF MmInv, WakeInv, ProgressFifoTail
<1> QED BY <1>4, <1>5, <1>6 DEF MmInv

LEMMA ReleaseDescStep ==
    ASSUME MmInv, NEW d, ReleaseDesc(d)
    PROVE  MmInv'
<1>1. /\ DOMAIN rcv = RcvFields /\ d \in rcv.held /\ rcv.pc = "run"
      /\ rcv' = [rcv EXCEPT !.held = @ \ {d}, !.pool = @ \cup {d}]
    BY DEF MmInv, WakeInv, ReleaseDesc
<1>2. /\ DOMAIN rcv' = RcvFields /\ rcv'.pc = "run"
      /\ rcv'.read_index = rcv.read_index
      /\ rcv'.last_recv_desc = rcv.last_recv_desc
      /\ rcv'.pool = rcv.pool \cup {d} /\ rcv'.held = rcv.held \ {d}
    BY <1>1, Names, Zenon DEF RcvFields
<1>3. FifoInv /\ armed' \in BOOLEAN
    BY DEF MmInv, FifoInv, ReleaseDesc
<1>4. FifoInv'
    BY <1>2, <1>3, NothingRead DEF ReleaseDesc
<1>5. DescInv'
    BY <1>1, <1>2 DEF MmInv, DescInv, ReleaseDesc
<1>6. WakeInv'
    BY <1>2 DEF MmInv, WakeInv, ReleaseDesc
<1> QED BY <1>4, <1>5, <1>6 DEF MmInv

LEMMA EventFdArmStep ==
    ASSUME MmInv, EventFdArm
    PROVE  MmInv'
<1>1. /\ DOMAIN rcv = RcvFields
      /\ rcv' = IF armed THEN [rcv EXCEPT !.pc = "socket"]
                ELSE [rcv EXCEPT !.pc = "arm", !.head = head]
    BY DEF MmInv, WakeInv, EventFdArm
<1>2. /\ DOMAIN rcv' = RcvFields /\ rcv'.read_index = rcv.read_index
      /\ rcv'.last_recv_desc = rcv.last_recv_desc
      /\ rcv'.pool = rcv.pool /\ rcv'.held = rcv.held
      /\ IF armed THEN rcv'.pc = "socket" ELSE rcv'.pc = "arm" /\ rcv'.head = head
  <2>1. CASE armed
    <3>1. rcv' = [rcv EXCEPT !.pc = "socket"]
        BY <1>1, <2>1
    <3> QED BY <1>1, <2>1, <3>1, SetPc
  <2>2. CASE ~armed
    <3>1. rcv' = [rcv EXCEPT !.pc = "arm", !.head = head]
        BY <1>1, <2>2
    <3> QED BY <1>1, <2>2, <3>1, Names, Zenon DEF RcvFields
  <2> QED BY <2>1, <2>2
<1>3. FifoInv /\ armed' \in BOOLEAN /\ head = rcv.read_index
    BY DEF MmInv, FifoInv, EventFdArm
<1>4. FifoInv'
    BY <1>2, <1>3, NothingRead DEF EventFdArm
<1>5. DescInv'
    BY <1>2 DEF MmInv, DescInv, EventFdArm
<1>6. WakeInv'
    BY <1>2, <1>3 DEF MmInv, WakeInv, EventFdArm
<1> QED BY <1>4, <1>5, <1>6 DEF MmInv

LEMMA ArmHeadStep ==
    ASSUME MmInv, ArmHead
    PROVE  MmInv'
<1>1. /\ DOMAIN rcv = RcvFields /\ rcv.head = rcv.read_index
      /\ \/ /\ head = rcv.head /\ armed' = TRUE
            /\ rcv' = [rcv EXCEPT !.pc = "socket", !.head = 0]
         \/ /\ armed' = armed
            /\ rcv' = [rcv EXCEPT !.pc = "run", !.head = 0]
    BY DEF MmInv, WakeInv, ArmHead
<1>2. /\ DOMAIN rcv' = RcvFields /\ rcv'.read_index = rcv.read_index
      /\ rcv'.last_recv_desc = rcv.last_recv_desc
      /\ rcv'.pool = rcv.pool /\ rcv'.held = rcv.held
      /\ \/ rcv'.pc = "socket" /\ armed' /\ head = rcv.read_index
         \/ rcv'.pc = "run"
  <2>1. CASE rcv' = [rcv EXCEPT !.pc = "socket", !.head = 0] /\ head = rcv.head
             /\ armed' = TRUE
    BY <1>1, <2>1, Names, Zenon DEF RcvFields
  <2>2. CASE rcv' = [rcv EXCEPT !.pc = "run", !.head = 0]
    BY <1>1, <2>2, Names, Zenon DEF RcvFields
  <2> QED BY <1>1, <2>1, <2>2
<1>3. FifoInv /\ armed' \in BOOLEAN
  <2>1. FifoInv /\ armed \in BOOLEAN
    BY DEF MmInv, FifoInv
  <2> QED BY <1>1, <2>1, Zenon
<1>4. FifoInv'
    BY <1>2, <1>3, NothingRead DEF ArmHead
<1>5. DescInv'
    BY <1>2 DEF MmInv, DescInv, ArmHead
<1>6. WakeInv'
    BY <1>2 DEF MmInv, WakeInv, ArmHead
<1> QED BY <1>4, <1>5, <1>6 DEF MmInv

LEMMA SocketStep ==
    ASSUME MmInv, CheckSocket \/ Wake
    PROVE  MmInv'
<1>1. /\ DOMAIN rcv = RcvFields /\ signals \in Nat /\ signals' \in Nat
      /\ rcv.pc \in {"socket", "sleep"}
      /\ UNCHANGED <<head, armed, tail, elem, mem, snd>>
      /\ \/ rcv' = [rcv EXCEPT !.pc = "run"]
         \/ rcv' = [rcv EXCEPT !.pc = "sleep"] /\ signals' = signals
    BY DEF MmInv, WakeInv, CheckSocket, Wake
<1>2. /\ DOMAIN rcv' = RcvFields /\ rcv'.read_index = rcv.read_index
      /\ rcv'.last_recv_desc = rcv.last_recv_desc
      /\ rcv'.pool = rcv.pool /\ rcv'.held = rcv.held
      /\ \/ rcv'.pc = "run"
         \/ rcv'.pc = "sleep" /\ signals' = signals
    BY <1>1, SetPc
<1>3. FifoInv /\ armed' \in BOOLEAN
    BY <1>1, Zenon DEF MmInv, FifoInv
<1>4. FifoInv'
    BY <1>1, <1>2, <1>3, NothingRead
<1>5. DescInv'
    BY <1>1, <1>2 DEF MmInv, DescInv
<1>6. \A p \in Senders : Waker(p)' <=> Waker(p)
    BY <1>1, <1>2 DEF Waker, Writing
<1>7. Abandoned' <=> Abandoned
    BY <1>1, <1>2 DEF Abandoned, HasNewData, Writing, Elem, OwnerBit
<1>8. WakeInv'
    BY <1>1, <1>2, <1>6, <1>7 DEF MmInv, WakeInv
<1> QED BY <1>4, <1>5, <1>8 DEF MmInv

LEMMA NextElemFields ==
    ASSUME NEW r, DOMAIN r = RcvFields
    PROVE  /\ DOMAIN NextElem(r) = RcvFields
           /\ NextElem(r).read_index = r.read_index + 1
           /\ NextElem(r).pc \in {"tail", "run"}
           /\ NextElem(r).last_recv_desc = r.last_recv_desc
           /\ NextElem(r).pool = r.pool /\ NextElem(r).held = r.held
<1> DEFINE pc == IF (r.read_index + 1) % Release = 0 THEN "tail" ELSE "run"
<1>1. NextElem(r) = [r EXCEPT !.read_index = @ + 1, !.pc = pc]
    BY DEF NextElem
<1>2. pc \in {"tail", "run"}
    OBVIOUS
<1> HIDE DEF pc
<1> QED BY <1>1, <1>2, Names, Zenon DEF RcvFields

LEMMA DeliverFields ==
    ASSUME NEW r, DOMAIN r = RcvFields, NEW m
    PROVE  /\ DOMAIN Deliver(r, m) = RcvFields
           /\ Deliver(r, m).read_index = r.read_index
           /\ Deliver(r, m).last_recv_desc = r.last_recv_desc
           /\ Deliver(r, m).pool = r.pool /\ Deliver(r, m).held = r.held
BY Names, Zenon DEF RcvFields, Deliver

LEMMA PollShortStep ==
    ASSUME MmInv, PollShort
    PROVE  MmInv'
<1> DEFINE m == elem[Elem(rcv.read_index)].data
           r == Deliver(rcv, m)
<1>1. /\ DOMAIN rcv = RcvFields /\ HasNewData /\ rcv' = NextElem(r)
      /\ UNCHANGED <<head, armed, tail, elem, mem, signals, snd>>
    BY DEF MmInv, WakeInv, PollShort
<1>2. /\ DOMAIN r = RcvFields /\ r.read_index = rcv.read_index
      /\ r.last_recv_desc = rcv.last_recv_desc
      /\ r.pool = rcv.pool /\ r.held = rcv.held
    BY <1>1, DeliverFields
<1> HIDE DEF r
<1>3. /\ DOMAIN rcv' = RcvFields /\ rcv'.read_index = rcv.read_index + 1
      /\ rcv'.pc \in {"tail", "run"}
      /\ rcv'.last_recv_desc = rcv.last_recv_desc
      /\ rcv'.pool = rcv.pool /\ rcv'.held = rcv.held
    BY <1>1, <1>2, NextElemFields
<1>4. FifoInv'
    BY <1>1, <1>3, ElementRead DEF MmInv
<1>5. DescInv'
    BY <1>1, <1>3 DEF MmInv, DescInv
<1>6. WakeInv'
    BY <1>1, <1>3 DEF MmInv, WakeInv
<1> QED BY <1>4, <1>5, <1>6 DEF MmInv

\* A handler keeps the descriptor of the element: the spare one takes its
\* place and a new one, if there is any, becomes last_recv_desc.
LEMMA PollBcopyStep ==
    ASSUME MmInv, NEW keep, PollBcopy(keep)
    PROVE  MmInv'
<1> DEFINE i == Elem(rcv.read_index)
           d == elem[i].desc
           r == Deliver(rcv, mem[d])
           last == rcv.last_recv_desc
           got(spare) == [r EXCEPT !.pool = rcv.pool \ {spare},
                                   !.last_recv_desc = spare]
           kept(spare, new) == [got(spare) EXCEPT !.held = @ \cup {d},
                                                  !.last_recv_desc = new,
                                                  !.pool = @ \ {new}]
<1>1. /\ DOMAIN rcv = RcvFields /\ HasNewData
      /\ UNCHANGED <<head, armed, tail, mem, signals, snd>>
    BY DEF MmInv, WakeInv, PollBcopy
<1>2. PICK spare \in Spares :
        \/ rcv' = NextElem(rcv) /\ elem' = elem
        \/ HasSpare(spare) /\ rcv' = NextElem(got(spare)) /\ elem' = elem
        \/ /\ HasSpare(spare) /\ elem' = AssignDesc(i, spare)
           /\ \E new \in RenewLast(spare, rcv.pool \ {spare}) :
                rcv' = NextElem(kept(spare, new))
    BY DEF PollBcopy
<1>3. /\ DOMAIN r = RcvFields /\ r.read_index = rcv.read_index
      /\ r.last_recv_desc = last /\ r.pool = rcv.pool /\ r.held = rcv.held
    BY <1>1, DeliverFields
<1> HIDE DEF r
<1> DEFINE g == got(spare)
<1>4. /\ DOMAIN g = RcvFields /\ g.read_index = rcv.read_index
      /\ g.last_recv_desc = spare /\ g.pool = rcv.pool \ {spare}
      /\ g.held = rcv.held
    BY <1>3, Names, Zenon DEF RcvFields
<1>5. i \in DOMAIN elem /\ \A j \in Nat : Elem(j) \in DOMAIN elem
    BY Division DEF MmInv, DescInv, FifoInv
<1>6. HasSpare(spare) =>
        /\ spare \in Descs /\ spare # d
        /\ spare \in rcv.pool \cup {last}
        /\ spare \notin rcv.held
        /\ last \in {spare, NoDesc}
  <2>1. /\ d \notin rcv.pool \cup {last} /\ last \in Descs \cup {NoDesc}
        /\ rcv.pool \subseteq Descs /\ rcv.pool \cap rcv.held = {}
        /\ last \notin rcv.held
    BY <1>5 DEF MmInv, DescInv
  <2>2. CASE last # NoDesc
    BY <1>2, <2>1, <2>2 DEF Spares
  <2>3. CASE last = NoDesc
    <3>1. HasSpare(spare) => spare \in rcv.pool
        BY <1>2, <2>3 DEF HasSpare, Spares, MpoolGet
    <3> QED BY <2>1, <2>3, <3>1
  <2> QED BY <2>2, <2>3
<1>7. ASSUME NEW n, DOMAIN n = RcvFields, n.read_index = rcv.read_index,
             rcv' = NextElem(n),
             \A j \in Nat : elem'[Elem(j)].owner = elem[Elem(j)].owner
      PROVE  /\ FifoInv' /\ WakeInv' /\ rcv'.last_recv_desc = n.last_recv_desc
             /\ rcv'.pool = n.pool /\ rcv'.held = n.held
  <2>1. /\ DOMAIN rcv' = RcvFields /\ rcv'.read_index = rcv.read_index + 1
        /\ rcv'.pc \in {"tail", "run"} /\ rcv'.pool = n.pool
        /\ rcv'.last_recv_desc = n.last_recv_desc /\ rcv'.held = n.held
    BY <1>7, NextElemFields
  <2>2. FifoInv'
    BY <1>1, <1>7, <2>1, ElementRead DEF MmInv
  <2>3. WakeInv'
    BY <1>1, <2>1 DEF MmInv, WakeInv
  <2> QED BY <2>1, <2>2, <2>3
<1>8. CASE rcv' = NextElem(rcv) /\ elem' = elem
  <2>1. /\ FifoInv' /\ WakeInv' /\ rcv'.last_recv_desc = last
        /\ rcv'.pool = rcv.pool /\ rcv'.held = rcv.held
    BY <1>1, <1>7, <1>8
  <2>2. DescInv'
    BY <1>1, <1>8, <2>1 DEF MmInv, DescInv
  <2> QED BY <2>1, <2>2 DEF MmInv
<1>9. CASE HasSpare(spare) /\ rcv' = NextElem(g) /\ elem' = elem
  <2> HIDE DEF g
  <2>1. /\ FifoInv' /\ WakeInv' /\ rcv'.last_recv_desc = spare
        /\ rcv'.pool = rcv.pool \ {spare} /\ rcv'.held = rcv.held
    BY <1>4, <1>7, <1>9
  <2>2. \A j \in 0 .. FifoSize - 1 : elem[j].desc # spare
    BY <1>6, <1>9 DEF MmInv, DescInv
  <2>3. DescInv'
    <3> DEFINE D == 0 .. FifoSize - 1
    <3>1. /\ DOMAIN elem' = D /\ DOMAIN mem' = Descs /\ elem' = elem
          /\ last \notin rcv.pool \cup rcv.held
          /\ rcv.pool \cap rcv.held = {}
          /\ rcv.pool \subseteq Descs /\ rcv.held \subseteq Descs
          /\ NoDesc \notin Descs
        BY <1>1, <1>9, MmFifoAssumption DEF MmInv, DescInv
    <3>2. \A j \in D :
            /\ {"owner", "inline", "desc", "data"} \subseteq DOMAIN elem[j]
            /\ elem[j].desc \in Descs
            /\ elem[j].desc \notin rcv'.pool \cup rcv'.held \cup {spare}
            /\ \A k \in D : elem[j].desc = elem[k].desc => j = k
        BY <2>1, <2>2 DEF MmInv, DescInv
    <3>3. /\ spare \in Descs \cup {NoDesc} /\ spare \notin rcv'.pool \cup rcv'.held
          /\ rcv'.pool \cap rcv'.held = {}
          /\ rcv'.pool \subseteq Descs /\ rcv'.held \subseteq Descs
        BY <1>6, <1>9, <2>1, <3>1
    <3>4. \A c \in Descs : \/ c \in rcv.pool \cup rcv.held \cup {last}
                           \/ \E j \in D : elem[j].desc = c
        BY DEF MmInv, DescInv
    <3> HIDE DEF D, last
    <3>5. \A c \in Descs : \/ c \in rcv'.pool \cup rcv'.held \cup {spare}
                           \/ \E j \in D : elem[j].desc = c
        BY <1>6, <1>9, <2>1, <3>1, <3>4
    <3> QED BY <2>1, <3>1, <3>2, <3>3, <3>5 DEF DescInv, D
  <2> QED BY <2>1, <2>3 DEF MmInv
<1>10. ASSUME HasSpare(spare), elem' = AssignDesc(i, spare),
              NEW new \in RenewLast(spare, rcv.pool \ {spare}),
              rcv' = NextElem(kept(spare, new))
       PROVE  MmInv'
  <2> DEFINE n == kept(spare, new)
  <2>1. /\ DOMAIN n = RcvFields /\ n.read_index = rcv.read_index
        /\ n.last_recv_desc = new /\ n.pool = (rcv.pool \ {spare}) \ {new}
        /\ n.held = rcv.held \cup {d}
    <3>1. n = [g EXCEPT !.held = @ \cup {d}, !.last_recv_desc = new,
                        !.pool = @ \ {new}]
        OBVIOUS
    <3> HIDE DEF g, n, d
    <3> QED BY <1>4, <3>1, Names, Zenon DEF RcvFields
  <2>2. rcv' = NextElem(n)
    BY <1>10
  <2> HIDE DEF n
  <2>3. /\ DOMAIN elem' = DOMAIN elem
        /\ \A j \in DOMAIN elem :
            /\ DOMAIN elem'[j] = DOMAIN elem[j]
            /\ elem'[j].owner = elem[j].owner
            /\ elem'[j].desc = IF j = i THEN spare ELSE elem[j].desc
    <3>1. DOMAIN elem' = DOMAIN elem /\ \A j \in DOMAIN elem : elem'[j] =
            IF j = i THEN [elem[j] EXCEPT !.desc = spare] ELSE elem[j]
        BY <1>10, Zenon DEF AssignDesc
    <3>2. \A j \in DOMAIN elem : {"owner", "desc"} \subseteq DOMAIN elem[j]
        BY DEF MmInv, DescInv
    <3>3. "owner" # "desc"
        OBVIOUS
    <3> HIDE DEF i
    <3> QED BY <3>1, <3>2, <3>3, Zenon
  <2>4. /\ FifoInv' /\ WakeInv' /\ rcv'.last_recv_desc = new
        /\ rcv'.pool = (rcv.pool \ {spare}) \ {new}
        /\ rcv'.held = rcv.held \cup {d}
    BY <1>5, <1>7, <2>1, <2>2, <2>3
  <2>5. /\ new \in Descs \cup {NoDesc} /\ new # spare
        /\ new \in rcv.pool \/ (new = NoDesc /\ rcv.pool \ {spare} = {})
    BY <1>6, <1>10, MmFifoAssumption DEF RenewLast, MpoolGet, MmInv, DescInv
  <2>6. DescInv'
    <3> DEFINE D == 0 .. FifoSize - 1
    <3>1. /\ DOMAIN elem = D /\ i \in D /\ DOMAIN mem = Descs
          /\ last \in Descs \cup {NoDesc}
          /\ last \notin rcv.pool \cup rcv.held
          /\ rcv.pool \cap rcv.held = {}
          /\ rcv.pool \subseteq Descs /\ rcv.held \subseteq Descs
          /\ NoDesc \notin Descs
        BY <1>5, MmFifoAssumption DEF MmInv, DescInv
    <3>2. \A j \in D :
            /\ {"owner", "inline", "desc", "data"} \subseteq DOMAIN elem[j]
            /\ elem[j].desc \in Descs
            /\ elem[j].desc \notin rcv.pool \cup rcv.held \cup {last}
            /\ elem[j].desc = d => j = i
        BY <3>1 DEF MmInv, DescInv
    <3>3. \A j, k \in D : elem[j].desc = elem[k].desc => j = k
        BY DEF MmInv, DescInv
    <3>4. d \in Descs /\ d \notin rcv.pool \cup rcv.held \cup {last}
        BY <3>1, <3>2
    <3>5. \A c \in Descs : \/ c \in rcv.pool \cup rcv.held \cup {last}
                           \/ \E j \in D : elem[j].desc = c
        BY DEF MmInv, DescInv
    <3>6. \A j \in D : /\ DOMAIN elem'[j] = DOMAIN elem[j]
                       /\ elem'[j].desc = IF j = i THEN spare ELSE elem[j].desc
        BY <2>3, <3>1
    <3>7. DOMAIN elem' = D /\ DOMAIN mem' = Descs
        BY <1>1, <2>3, <3>1
    <3> HIDE DEF D, i, d, last
    <3>8. \A j \in D :
            /\ elem'[j].desc \in Descs
            /\ elem'[j].desc \notin rcv'.pool \cup rcv'.held \cup {new}
        BY <1>6, <1>10, <2>4, <2>5, <3>1, <3>2, <3>4, <3>6
    <3>9. \A j, k \in D : elem'[j].desc = elem'[k].desc => j = k
        BY <1>6, <1>10, <3>2, <3>3, <3>6
    <3>10. /\ new \notin rcv'.pool \cup rcv'.held /\ rcv'.pool \cap rcv'.held = {}
           /\ rcv'.pool \subseteq Descs /\ rcv'.held \subseteq Descs
        BY <2>4, <2>5, <3>1, <3>4
    <3>11. ASSUME NEW c \in Descs
           PROVE  \/ c \in rcv'.pool \cup rcv'.held \cup {new}
                  \/ \E j \in D : elem'[j].desc = c
      <4>1. CASE c = spare
        BY <3>1, <3>6, <4>1
      <4>2. CASE c # spare /\ \E j \in D : elem[j].desc = c
        BY <2>4, <3>6, <4>2 DEF d
      <4>3. CASE c # spare /\ c \in rcv.pool \cup rcv.held \cup {last}
        BY <1>6, <1>10, <2>4, <3>1, <4>3
      <4> QED BY <3>5, <4>1, <4>2, <4>3
    <3> QED BY <2>4, <2>5, <3>2, <3>6, <3>7, <3>8, <3>9, <3>10, <3>11
            DEF DescInv, D
  <2> QED BY <2>4, <2>6 DEF MmInv
<1> QED BY <1>2, <1>8, <1>9, <1>10

-----------------------------------------------------------------------------
(* The invariant holds. *)

\* There are descriptors enough for every element and last_recv_desc.
LEMMA InitDescProperty ==
    /\ InitDesc \in [0 .. FifoSize -> Descs]
    /\ \A i, j \in 0 .. FifoSize : InitDesc[i] = InitDesc[j] => i = j
<1> DEFINE c == Cardinality(Descs)
<1>1. c \in Nat /\ c > FifoSize /\ ExistsBijection(1 .. c, Descs)
    BY MmFifoAssumption, FS_CardinalityType
<1> HIDE DEF c
<1>2. PICK f \in [1 .. c -> Descs] : \A a, b \in 1 .. c : f[a] = f[b] => a = b
    BY <1>1 DEF ExistsBijection, Bijection, Injection, IsInjective
<1> DEFINE h == [i \in 0 .. FifoSize |-> f[i + 1]]
<1>3. \A i \in 0 .. FifoSize : i + 1 \in 1 .. c
    BY <1>1, Size
<1>4. h \in [0 .. FifoSize -> Descs]
    BY <1>2, <1>3
<1>5. \A i, j \in 0 .. FifoSize : h[i] = h[j] => i = j
  <2>1. ASSUME NEW i \in 0 .. FifoSize, NEW j \in 0 .. FifoSize, h[i] = h[j]
        PROVE  i = j
    <3>1. f[i + 1] = f[j + 1] /\ i + 1 \in 1 .. c /\ j + 1 \in 1 .. c
        BY <1>3, <2>1
    <3>2. i + 1 = j + 1
        BY <1>2, <3>1
    <3> QED BY <3>2
  <2> QED BY <2>1
<1> HIDE DEF h
<1>6. \E desc \in [0 .. FifoSize -> Descs] :
        \A i, j \in 0 .. FifoSize : desc[i] = desc[j] => i = j
    BY <1>4, <1>5
<1> QED BY <1>6, Zenon DEF InitDesc

LEMMA InitMm == Init => MmInv
<1> SUFFICES ASSUME Init PROVE MmInv
    OBVIOUS
<1> DEFINE s0 == [pc |-> "idle", req |-> ArbElem, pend |-> FALSE, head |-> 0,
                  armed |-> FALSE, cached_tail |-> 0, group |-> << >>,
                  next |-> 1, flushed |-> 0, lost |-> {}, purges |-> 0,
                  failures |-> 0]
<1>1. /\ head = 0 /\ armed = FALSE /\ tail = 0 /\ signals = 0
      /\ rcv.pc = "run" /\ rcv.read_index = 0 /\ rcv.held = {}
      /\ rcv.last_recv_desc = InitDesc[FifoSize]
      /\ rcv.pool = Descs \ {InitDesc[i] : i \in 0 .. FifoSize}
      /\ DOMAIN rcv = RcvFields /\ DOMAIN mem = Descs
      /\ snd = [p \in Senders |-> s0]
    BY DEF Init, RcvFields
<1>2. /\ DOMAIN elem = 0 .. FifoSize - 1
      /\ \A i \in 0 .. FifoSize - 1 :
            /\ elem[i].owner = 1 /\ elem[i].desc = InitDesc[i]
            /\ {"owner", "inline", "desc", "data"} \subseteq DOMAIN elem[i]
    BY DEF Init
<1>3. SndInv(s0, 0, 0) /\ s0 \in SndType /\ s0.pc = "idle"
  <2>1. s0 \in SndType
    BY ArbElemType DEF SndType, Calls
  <2>2. /\ s0.pc = "idle" /\ s0.pend = FALSE /\ s0.cached_tail = 0
        /\ s0.group = << >> /\ s0.flushed = 0 /\ s0.next = 1
    OBVIOUS
  <2> HIDE DEF s0
  <2>3. Base(s0, 0) /\ Waits(s0, 0)
    BY <2>1, <2>2, EmptyLate DEF Base, Waits
  <2> QED BY <2>1, <2>2, <2>3 DEF SndInv
<1> HIDE DEF s0
<1>4. \A i \in Nat : Unread(i) => elem[Elem(i)].owner # OwnerBit(i)
  <2>1. ASSUME NEW i \in Nat, Unread(i) PROVE elem[Elem(i)].owner # OwnerBit(i)
    <3>1. i < FifoSize
        BY <1>1, <2>1, Size DEF Unread
    <3>2. i \div FifoSize = 0
        BY <3>1, Size
    <3>3. OwnerBit(i) = 0
        BY <3>2 DEF OwnerBit
    <3> QED BY <1>2, <3>3, Division
  <2> QED BY <2>1
<1>5. FifoInv
  <2>1. \A p \in Senders : snd[p] = s0 /\ ~Writing(p)
    BY <1>1, <1>3 DEF Writing
  <2>2. armed \in BOOLEAN /\ snd \in [Senders -> SndType]
    BY <1>1, <1>3, Zenon
  <2>3. \A p \in Senders : SndInv(snd[p], head, tail)
    BY <1>1, <1>3, <2>1
  <2> QED BY <1>1, <1>4, <2>1, <2>2, <2>3, Size DEF FifoInv
<1>6. DescInv
  <2>1. /\ 0 .. FifoSize - 1 \subseteq 0 .. FifoSize /\ FifoSize \in 0 .. FifoSize
        /\ FifoSize \notin 0 .. FifoSize - 1
        /\ \A i \in 0 .. FifoSize : i = FifoSize \/ i \in 0 .. FifoSize - 1
    BY Size
  <2>2. \A i \in 0 .. FifoSize - 1 :
            /\ elem[i].desc \in Descs
            /\ elem[i].desc \notin rcv.pool \cup rcv.held \cup {rcv.last_recv_desc}
            /\ \A j \in 0 .. FifoSize - 1 : elem[i].desc = elem[j].desc => i = j
    BY <1>1, <1>2, <2>1, InitDescProperty
  <2>3. \A d \in Descs : \/ d \in rcv.pool \cup rcv.held \cup {rcv.last_recv_desc}
                         \/ \E i \in 0 .. FifoSize - 1 : elem[i].desc = d
    BY <1>1, <1>2, <2>1
  <2>4. /\ rcv.last_recv_desc \in Descs \cup {NoDesc}
        /\ rcv.last_recv_desc \notin rcv.pool \cup rcv.held
        /\ rcv.pool \cap rcv.held = {}
        /\ rcv.pool \subseteq Descs /\ rcv.held \subseteq Descs
    BY <1>1, <2>1, InitDescProperty
  <2> QED BY <1>1, <1>2, <2>2, <2>3, <2>4 DEF DescInv
<1>7. WakeInv
    BY <1>1 DEF WakeInv
<1> QED BY <1>5, <1>6, <1>7 DEF MmInv

LEMMA NextMm == MmInv /\ [Next]_vars => MmInv'
<1> SUFFICES ASSUME MmInv, [Next]_vars PROVE MmInv'
    OBVIOUS
<1>1. ASSUME NEW p \in Senders, SenderStep(p) \/ UserStep(p)
      PROVE  MmInv'
  <2> USE DEF MmInv
  <2>1. CASE GetRemoteElem(p) BY <2>1, GetRemoteElemStep
  <2>2. CASE WriteData(p) BY <2>2, WriteDataStep
  <2>3. CASE SetFlags(p) BY <2>3, SetFlagsStep
  <2>4. CASE SignalRemote(p) BY <2>4, SignalRemoteStep
  <2>5. CASE AttachFails(p) BY <2>5, AttachFailsStep
  <2>6. CASE TryHead(p) BY <2>6, TryHeadPrivate, PrivateStep
  <2>7. CASE TryTail(p) BY <2>7, TryTailPrivate, PrivateStep
  <2>8. CASE PendingAdd(p) BY <2>8, PendingAddPrivate, PrivateStep
  <2>9. CASE StartDispatch(p) BY <2>9, StartDispatchPrivate, PrivateStep
  <2>10. CASE ProcessPendingTail(p) \/ FlushTail(p)
    BY <2>10, TailReadPrivate, PrivateStep
  <2>11. CASE ProcessPending(p) BY <2>11, ProcessPendingPrivate, PrivateStep
  <2>12. CASE Flush(p) \/ FlushAgain(p) BY <2>12, FlushPrivate, PrivateStep
  <2>13. CASE GiveUp(p) BY <2>13, GiveUpPrivate, PrivateStep
  <2>14. CASE PendingPurge(p) BY <2>14, PendingPurgePrivate, PrivateStep
  <2>15. CASE \E kind \in Kinds : StartSend(p, kind)
    BY <2>15, StartSendPrivate, PrivateStep
  <2> QED BY <1>1, <2>1, <2>2, <2>3, <2>4, <2>5, <2>6, <2>7, <2>8, <2>9,
             <2>10, <2>11, <2>12, <2>13, <2>14, <2>15 DEF SenderStep, UserStep
<1>2. CASE Poll
    BY <1>2, PollShortStep, PollBcopyStep DEF Poll
<1>3. CASE ProgressFifoTail BY <1>3, ProgressFifoTailStep
<1>4. CASE \E d \in rcv.held : ReleaseDesc(d) BY <1>4, ReleaseDescStep
<1>5. CASE EventFdArm BY <1>5, EventFdArmStep
<1>6. CASE ArmHead BY <1>6, ArmHeadStep
<1>7. CASE CheckSocket \/ Wake BY <1>7, SocketStep
<1>8. CASE UNCHANGED vars
  <2>1. /\ head' = head /\ armed' = armed /\ tail' = tail /\ elem' = elem
        /\ mem' = mem /\ signals' = signals /\ snd' = snd /\ rcv' = rcv
    BY <1>8 DEF vars
  <2> QED BY <2>1, Zenon DEF MmInv, FifoInv, DescInv, WakeInv, Unread, Writing,
                             Waker, Abandoned, HasNewData, Elem, OwnerBit
<1> QED BY <1>1, <1>2, <1>3, <1>4, <1>5, <1>6, <1>7, <1>8 DEF Next

LEMMA MmInvariant == Spec => []MmInv
BY InitMm, NextMm, PTL DEF Spec

-----------------------------------------------------------------------------
(* Theorems. *)

\* Whatever the number of senders and the size of the FIFO, no two senders
\* write the same element and none writes an element the receiver has yet to
\* read: the check of the cached tail and the compare and swap on the head
\* (uct_mm_ep_get_remote_elem) are enough.
THEOREM SlotsAreExclusive == Spec => []SlotExclusive
<1>1. ASSUME FifoInv, NEW p \in Senders, NEW q \in Senders \ {p}, Writing(p), Writing(q)
      PROVE  Elem(snd[p].head) # Elem(snd[q].head)
  <2>1. /\ snd[p].head \in Nat /\ snd[q].head \in Nat
    BY <1>1, Start, SndFields
  <2>2. /\ rcv.read_index <= snd[p].head /\ rcv.read_index <= snd[q].head
        /\ snd[p].head < head /\ snd[q].head < head
        /\ snd[p].head # snd[q].head
    BY <1>1 DEF FifoInv
  <2>3. /\ rcv.read_index \in Nat /\ head \in Nat /\ tail \in Nat
        /\ tail <= rcv.read_index /\ head <= tail + FifoSize
    BY <1>1 DEF FifoInv
  <2>4. snd[p].head < snd[q].head + FifoSize /\ snd[q].head < snd[p].head + FifoSize
    BY <2>1, <2>2, <2>3, Size
  <2> QED BY <2>1, <2>2, <2>4, SameElem
<1>2. ASSUME FifoInv, NEW p \in Senders, Writing(p)
      PROVE  rcv.read_index <= snd[p].head /\ snd[p].head < tail + FifoSize
  <2>1. /\ snd[p].head \in Nat /\ head \in Nat /\ tail \in Nat
        /\ rcv.read_index <= snd[p].head /\ snd[p].head < head
        /\ head <= tail + FifoSize
    BY <1>2, Start, SndFields DEF FifoInv
  <2> QED BY <2>1, Size
<1>3. MmInv => SlotExclusive
    BY <1>1, <1>2 DEF MmInv, SlotExclusive
<1> QED BY <1>3, MmInvariant, PTL

\* While requests wait in the pending group, the endpoint's view of the tail
\* leaves no room for a new message (the assertion of uct_mm_ep_pending_add).
THEOREM PendingMeansNoRoom == Spec => []NoRoomWhilePending
<1>1. MmInv => NoRoomWhilePending
    BY DEF MmInv, FifoInv, SndInv, Waits, NoRoomWhilePending
<1> QED BY <1>1, MmInvariant, PTL

\* When uct_mm_ep_flush has returned UCS_OK, nothing submitted before it is
\* left in the pending group.
THEOREM FlushCoversPending == Spec => []FlushCovers
<1>1. MmInv => FlushCovers
    BY DEF MmInv, FifoInv, SndInv, Base, Late, FlushCovers
<1> QED BY <1>1, MmInvariant, PTL

\* A receiver that has armed its FIFO and gone to sleep with a message to read
\* has a signal in its socket, or a sender that is about to send one: marking
\* the head with a compare and swap (uct_mm_iface_event_fd_arm) leaves no gap.
THEOREM WakeupIsNotLost == Spec => []NoLostWakeup
<1>1. ASSUME MmInv, rcv.pc = "sleep", HasNewData, ~(signals > 0)
      PROVE  \E p \in Senders : snd[p].pc = "signal"
  <2>1. rcv.read_index \in Nat /\ head \in Nat
    BY <1>1 DEF MmInv, FifoInv
  <2>2. Unread(rcv.read_index)
    BY <2>1, Size DEF Unread
  <2>3. /\ rcv.read_index < head
        /\ \A p \in Senders : Writing(p) => snd[p].head # rcv.read_index
    BY <1>1, <2>1, <2>2 DEF MmInv, FifoInv, HasNewData
  <2>4. /\ ~(armed /\ head = rcv.read_index) /\ ~Abandoned
    BY <1>1, <2>1, <2>3 DEF Abandoned
  <2>5. \E p \in Senders : Waker(p)
    BY <1>1, <2>4 DEF MmInv, WakeInv
  <2> QED BY <2>3, <2>5 DEF Waker
<1>2. MmInv => NoLostWakeup
    BY <1>1 DEF NoLostWakeup
<1> QED BY <1>2, MmInvariant, PTL

\* Every receive descriptor is in exactly one place, an element, last_recv_desc,
\* the pool or the hands of a handler, also when the pool runs out.
THEOREM DescriptorsAreOwned == Spec => []DescOwnership
<1>1. ASSUME MmInv
      PROVE  Cardinality({elem[i].desc : i \in 0 .. FifoSize - 1}) = FifoSize
  <2> DEFINE D == 0 .. FifoSize - 1
             S == {elem[i].desc : i \in D}
             f == [i \in D |-> elem[i].desc]
  <2>1. \A i, j \in D : elem[i].desc = elem[j].desc => i = j
    BY <1>1 DEF MmInv, DescInv
  <2>2. IsFiniteSet(D) /\ Cardinality(D) = FifoSize
    <3>1. /\ IsFiniteSet(D)
          /\ Cardinality(D) = IF 0 > FifoSize - 1 THEN 0 ELSE FifoSize - 1 - 0 + 1
        BY Size, FS_Interval
    <3> QED BY <3>1, Size
  <2> HIDE DEF D
  <2>3. f \in Bijection(D, S)
    BY <2>1 DEF Bijection, Injection, IsInjective, Surjection
  <2>4. ExistsBijection(D, S)
    BY <2>3 DEF ExistsBijection
  <2> HIDE DEF S
  <2>5. Cardinality(S) = FifoSize
    BY <2>2, <2>4, FS_Bijection
  <2> QED BY <2>5 DEF S, D
<1>2. MmInv => DescOwnership
    BY <1>1, MmFifoAssumption DEF MmInv, DescInv, DescOwnership
<1> QED BY <1>2, MmInvariant, PTL

\* What a handler has kept (UCS_INPROGRESS) is not overwritten by a sender
\* until it is released.
THEOREM HeldDataIsStable == Spec => HeldDataStable
<1> DEFINE Stable == \A d \in rcv.held : mem'[d] = mem[d]
<1>1. ASSUME MmInv, NEW p \in Senders, WriteData(p) PROVE Stable
  <2> DEFINE i == Elem(snd[p].head)
             m == Msg(p, snd[p].req.n)
  <2>1. snd[p].head \in Nat
    BY <1>1, Start, SndFields DEF MmInv
  <2>2. i \in 0 .. FifoSize - 1
    BY <2>1, Division
  <2>3. elem[i].desc \notin rcv.held /\ rcv.held \subseteq DOMAIN mem
    BY <1>1, <2>2 DEF MmInv, DescInv
  <2>4. mem' = mem \/ mem' = [mem EXCEPT ![elem[i].desc] = m]
    BY <1>1 DEF WriteData
  <2> HIDE DEF i, m
  <2> QED BY <2>3, <2>4, Zenon
<1>2. ASSUME NEW p \in Senders, SenderStep(p) \/ UserStep(p), ~WriteData(p)
      PROVE  mem' = mem
    BY <1>2 DEF SenderStep, UserStep, TryHead, TryTail, GetRemoteElem, SetFlags,
        SignalRemote, PendingAdd, StartDispatch, ProcessPendingTail,
        ProcessPending, FlushTail, FlushAgain, StartSend, GiveUp, Flush,
        PendingPurge, AttachFails
<1>3. ASSUME \/ Poll \/ ProgressFifoTail \/ \E d \in rcv.held : ReleaseDesc(d)
             \/ EventFdArm \/ ArmHead \/ CheckSocket \/ Wake
      PROVE  mem' = mem
    BY <1>3 DEF Poll, PollShort, PollBcopy, ProgressFifoTail, ReleaseDesc,
        EventFdArm, ArmHead, CheckSocket, Wake
<1>4. MmInv /\ [Next]_vars => [Stable]_vars
    BY <1>1, <1>2, <1>3 DEF Next, vars
<1> QED BY <1>4, MmInvariant, PTL DEF Spec, HeldDataStable

=============================================================================
