-------------------------- MODULE StatusRamProofs --------------------------
(***************************************************************************)
(* The status RAM for any number of slots, any lengths of the rows of      *)
(* registers and any paces of the walk and of tx_timeout.  First the       *)
(* shape of the state: cursors in order, queues within their slices, no    *)
(* write about a packet that was not accepted (StatusTypeOK).  Then that   *)
(* no answer and no clear is put on a packet of a later round              *)
(* (NewestStays): a write that waits at tx_dev_mem_management is overtaken *)
(* by two writers only, and both are slower than the walk needs to go      *)
(* round the ring.  Last the read path, apart from the writers: the status *)
(* taken is the one the slot held at the read (ReadIsCurrent).             *)
(***************************************************************************)
EXTENDS StatusRam, StatusRead, SequenceTheorems, TLAPS

\* The writes about accepted packets.
Entries == [psn : 0 .. writePSN - 1, status : Status]

Cell == [psn : {p \in Int : p < writePSN}, status : Status]

\* A row of registers: values that never fall, the newest last.
Rising(row) == \A i, j \in 1 .. Len(row) : i <= j => row[i] <= row[j]

IsRow(row, n) == row \in Seq(Nat) /\ Len(row) = n /\ Rising(row)

Views == AnswerDelay + ViewDelay

CursorsOK ==
    /\ writePSN \in Nat /\ readPSN \in Nat /\ phase \in {0, 1} /\ inPayload \in BOOLEAN
    /\ IsRow(announced, AnnounceDelay) /\ announced[AnnounceDelay] <= writePSN
    /\ IsRow(views, Views) /\ views[Views] <= readPSN
    /\ readPSN <= announced[1]

\* The read under way is the one at the cursor, about an announced packet.
FetchOK ==
    fetch = <<>> \/
    /\ Head(fetch).psn = readPSN /\ readPSN < announced[1]
    /\ Head(fetch).now.status \in Status

\* A packet is handed over after tx_checkcurrent_data is done with the one before.
HandingOK ==
    /\ phase = 1 => copying = 0
    /\ handing = <<>> \/ (phase = 1 /\ readPSN >= 1 /\ handing = <<Entry(readPSN - 1, Acked)>>)

IsQueue(queue) == queue \in Seq(Entries) /\ Len(queue) <= QueueCap

QueuesOK == IsQueue(marks) /\ IsQueue(answers) /\ IsQueue(clears) /\ IsQueue(lates)

\* No write about a packet that was not accepted is anywhere on the way.
WritesOK ==
    /\ delayed = <<>> \/ \E e \in Entries : delayed = <<e>>
    /\ ram \in [0 .. N - 1 -> Cell]
    /\ timer = <<>> \/ \E p \in 0 .. writePSN - 1 : timer = <<p>>

StatusInv == CursorsOK /\ FetchOK /\ HandingOK /\ QueuesOK /\ WritesOK

-----------------------------------------------------------------------------
LEMMA Sizes ==
    /\ N \in Nat \ {0} /\ AnnounceDelay \in Nat \ {0} /\ ViewDelay \in Nat \ {0}
    /\ AnswerDelay \in Nat \ {0} /\ HandTime \in Nat \ {0} /\ TimerTime \in Nat \ {0}
    /\ Slack \in Nat \ {0} /\ QueueCap \in Nat \ {0} /\ MaxPSN \in Nat
    /\ Views \in Nat \ {0} /\ Views >= 2 /\ AnswerDelay + 1 \in 1 .. Views
    /\ 1 \in 1 .. Views /\ Views \in 1 .. Views
<1>1. /\ N \in Nat \ {0} /\ AnnounceDelay \in Nat \ {0} /\ ViewDelay \in Nat \ {0}
      /\ AnswerDelay \in Nat \ {0} /\ HandTime \in Nat \ {0} /\ TimerTime \in Nat \ {0}
      /\ Slack \in Nat \ {0} /\ QueueCap \in Nat \ {0} /\ MaxPSN \in Nat
  BY StatusRamAssumption
<1> QED
  BY <1>1 DEF Views

LEMMA SlotTypes == ASSUME NEW p \in Nat PROVE Slot(p) \in 0 .. N - 1
  BY Sizes DEF Slot

LEMMA StatusTypes == Status = {0, 1, 2, 3} /\ {Acked, Refused, TimedOut, Sent} \subseteq Status
  BY DEF Status, Acked, Refused, TimedOut, Sent

LEMMA BelowGrows ==
    ASSUME NEW m \in Nat, NEW n \in Nat, m <= n, NEW p \in Nat, p < m
    PROVE  p \in 0 .. n - 1
  OBVIOUS

\* The row `next' is `row' a register further, with v at its end.
Shifted(next, row, n, v) ==
    /\ IsRow(next, n) /\ next[n] = v
    /\ \A i \in 1 .. n - 1 : next[i] = row[i + 1]
    /\ \A i \in 1 .. n : next[i] >= row[i]

\* A row moves on by one register.
LEMMA RowShift ==
    ASSUME NEW n \in Nat \ {0}, NEW row, IsRow(row, n), NEW v \in Nat, row[n] <= v
    PROVE  Shifted(Append(Tail(row), v), row, n, v)
<1>1. row \in Seq(Nat) /\ Len(row) = n /\ row # <<>> /\ Rising(row)
  BY DEF IsRow
<1> DEFINE t == Tail(row)
           next == Append(t, v)
<1>2. t \in Seq(Nat) /\ Len(t) = n - 1 /\ \A i \in 1 .. n - 1 : t[i] = row[i + 1]
  BY <1>1, HeadTailProperties
<1> HIDE DEF t
<1>3. /\ next \in Seq(Nat) /\ Len(next) = n /\ next[n] = v
      /\ \A i \in 1 .. n - 1 : next[i] = t[i]
  <2>1. Len(t) + 1 = n
    BY <1>2
  <2> QED
    BY <1>2, <2>1, AppendProperties
<1> HIDE DEF next
<1>4. \A i \in 1 .. n - 1 : next[i] = row[i + 1]
  BY <1>2, <1>3
<1>5. \A i \in 1 .. n : row[i] \in Nat /\ row[i] <= v
  <2> SUFFICES ASSUME NEW i \in 1 .. n PROVE row[i] \in Nat /\ row[i] <= v
    OBVIOUS
  <2>1. row[i] \in Nat /\ row[n] \in Nat /\ n \in 1 .. n
    BY <1>1, ElementOfSeq
  <2>2. row[i] <= row[n]
    BY <1>1, <2>1 DEF Rising
  <2> QED
    BY <2>1, <2>2
<1>6. Rising(next)
  <2> SUFFICES ASSUME NEW i \in 1 .. n, NEW j \in 1 .. n, i <= j PROVE next[i] <= next[j]
    BY <1>3 DEF Rising
  <2>1. CASE j = n
    <3>1. next[j] = v
      BY <1>3, <2>1
    <3>2. CASE i = n
      BY <1>3, <3>1, <3>2
    <3>3. CASE i # n
      <4>1. i \in 1 .. n - 1 /\ i + 1 \in 1 .. n
        BY <3>3
      <4>2. next[i] = row[i + 1] /\ row[i + 1] <= v
        BY <1>4, <1>5, <4>1
      <4> QED
        BY <3>1, <4>2
    <3> QED
      BY <3>2, <3>3
  <2>2. CASE j # n
    <3>1. i \in 1 .. n - 1 /\ j \in 1 .. n - 1 /\ i + 1 \in 1 .. n /\ j + 1 \in 1 .. n
          /\ i + 1 <= j + 1
      BY <2>2
    <3>2. row[i + 1] <= row[j + 1]
      BY <1>1, <3>1 DEF Rising
    <3>3. next[i] = row[i + 1] /\ next[j] = row[j + 1]
      BY <1>4, <3>1
    <3> QED
      BY <3>2, <3>3
  <2> QED
    BY <2>1, <2>2
<1>7. \A i \in 1 .. n : next[i] >= row[i]
  <2> SUFFICES ASSUME NEW i \in 1 .. n PROVE next[i] >= row[i]
    OBVIOUS
  <2>1. CASE i = n
    BY <1>3, <1>5, <2>1
  <2>2. CASE i # n
    <3>1. i \in 1 .. n - 1 /\ i + 1 \in 1 .. n /\ i <= i + 1
      BY <2>2
    <3> QED
      BY <1>1, <1>4, <1>5, <3>1 DEF Rising
  <2> QED
    BY <2>1, <2>2
<1> QED
  <2>1. IsRow(next, n)
    BY <1>3, <1>6 DEF IsRow
  <2>2. Shifted(next, row, n, v)
    BY <1>3, <1>4, <1>7, <2>1 DEF Shifted
  <2> QED
    BY <2>2 DEF next, t

\* A queue that is served, and one that gets an entry.
LEMMA QueueServed ==
    ASSUME NEW S, NEW name, NEW queue \in Seq(S), Len(queue) <= QueueCap,
           Served = name => queue # <<>>
    PROVE  Left(name, queue) \in Seq(S) /\ Len(Left(name, queue)) <= Len(queue)
           /\ Len(Left(name, queue)) \in Nat
<1>1. CASE Served = name
  <2>1. Tail(queue) \in Seq(S) /\ Len(Tail(queue)) = Len(queue) - 1
    BY <1>1, HeadTailProperties
  <2>2. Len(queue) \in Nat /\ Len(Tail(queue)) \in Nat
    BY <2>1, LenProperties
  <2> QED
    BY <1>1, <2>1, <2>2 DEF Left
<1>2. CASE Served # name
  BY <1>2, LenProperties DEF Left
<1> QED
  BY <1>1, <1>2

LEMMA QueueFilled ==
    ASSUME NEW S, NEW name, NEW queue \in Seq(S), HasSpace(queue), NEW e \in S,
           Served = name => queue # <<>>
    PROVE  /\ Append(Left(name, queue), e) \in Seq(S)
           /\ Len(Append(Left(name, queue), e)) <= QueueCap
<1>1. Len(queue) \in Nat /\ Len(queue) + 1 <= QueueCap /\ QueueCap \in Nat
  BY LenProperties, Sizes DEF HasSpace
<1>2. /\ Left(name, queue) \in Seq(S) /\ Len(Left(name, queue)) <= Len(queue)
      /\ Len(Left(name, queue)) \in Nat
  BY <1>1, QueueServed
<1>3. /\ Append(Left(name, queue), e) \in Seq(S)
      /\ Len(Append(Left(name, queue), e)) = Len(Left(name, queue)) + 1
  BY <1>2, AppendProperties
<1> QED
  BY <1>1, <1>2, <1>3

LEMMA ServedNotEmpty ==
    /\ Served = "lates" => lates # <<>>
    /\ Served = "clears" => clears # <<>>
    /\ Served = "answers" => answers # <<>>
    /\ Served = "marks" => marks # <<>>
  BY DEF Served

-----------------------------------------------------------------------------
LEMMA StatusInvInit == StatusInit => StatusInv
<1> SUFFICES ASSUME StatusInit PROVE StatusInv
  OBVIOUS
<1>1. ASSUME NEW n \in Nat \ {0} PROVE IsRow(Row(n, 0), n) /\ \A i \in 1 .. n : Row(n, 0)[i] = 0
  <2>1. Row(n, 0) \in [1 .. n -> Nat] /\ \A i \in 1 .. n : Row(n, 0)[i] = 0
    BY DEF Row
  <2>2. Row(n, 0) \in Seq(Nat) /\ Len(Row(n, 0)) = n
    BY <2>1
  <2>3. Rising(Row(n, 0))
    BY <2>1, <2>2 DEF Rising
  <2> QED
    BY <2>1, <2>2, <2>3 DEF IsRow
<1>2. /\ announced = Row(AnnounceDelay, 0) /\ views = Row(Views, 0)
      /\ writePSN = 0 /\ readPSN = 0 /\ phase = 0 /\ inPayload = FALSE /\ fetch = <<>>
      /\ handing = <<>> /\ timer = <<>> /\ delayed = <<>>
      /\ marks = <<>> /\ answers = <<>> /\ clears = <<>> /\ lates = <<>>
      /\ ram = [s \in 0 .. N - 1 |-> Entry(-1, Acked)]
  BY DEF StatusInit, Views
<1>3. CursorsOK
  <2>1. /\ IsRow(announced, AnnounceDelay) /\ \A i \in 1 .. AnnounceDelay : announced[i] = 0
        /\ 1 \in 1 .. AnnounceDelay /\ AnnounceDelay \in 1 .. AnnounceDelay
    BY <1>1, <1>2, Sizes
  <2> DEFINE n == Views
  <2>2. n \in Nat \ {0} /\ views = Row(n, 0)
    BY <1>2, Sizes
  <2> HIDE DEF n
  <2>3. IsRow(views, n) /\ views[n] = 0
    <3>1. n \in 1 .. n
      BY <2>2
    <3> QED
      BY <1>1, <2>2, <3>1
  <2>4. writePSN \in Nat /\ readPSN \in Nat /\ phase \in {0, 1} /\ inPayload \in BOOLEAN
    BY <1>2
  <2>5. announced[AnnounceDelay] = 0 /\ announced[1] = 0
    BY <2>1
  <2>6. announced[AnnounceDelay] <= writePSN /\ readPSN <= announced[1]
    BY <1>2, <2>5
  <2> QED
    BY <1>2, <2>1, <2>3, <2>4, <2>6 DEF CursorsOK, n
<1>4. QueuesOK
  BY <1>2, EmptySeq, Sizes DEF QueuesOK, IsQueue
<1>5. WritesOK
  BY <1>2, StatusTypes DEF WritesOK, Cell, Entry
<1> QED
  BY <1>2, <1>3, <1>4, <1>5 DEF StatusInv, FetchOK, HandingOK

\* What tx_write does to its cursor and to what is announced.
LEMMA WriteMoves ==
    ASSUME CursorsOK, NEW last \in BOOLEAN, TxWrite(last)
    PROVE  /\ writePSN' \in {writePSN, writePSN + 1} /\ writePSN' \in Nat
           /\ inPayload' \in BOOLEAN
           /\ IsRow(announced', AnnounceDelay) /\ announced'[AnnounceDelay] <= writePSN'
           /\ announced'[1] >= announced[1] /\ announced[1] \in Nat /\ announced'[1] \in Nat
           /\ SeenWrite = announced[1] /\ SeenWrite' = announced'[1]
           /\ announced[1] <= writePSN
<1>1. /\ writePSN \in Nat /\ inPayload \in BOOLEAN /\ IsRow(announced, AnnounceDelay)
      /\ announced[AnnounceDelay] <= writePSN
  BY DEF CursorsOK
<1>2. writePSN' \in {writePSN, writePSN + 1} /\ inPayload' \in BOOLEAN
  BY <1>1 DEF TxWrite, Accept, NoAccept
<1>3. /\ Len(announced) = AnnounceDelay /\ AnnounceDelay \in 1 .. AnnounceDelay
      /\ announced[AnnounceDelay] \in Nat /\ announced[1] \in Nat
      /\ announced[1] <= announced[AnnounceDelay]
  <2>1. /\ announced \in Seq(Nat) /\ Len(announced) = AnnounceDelay /\ Rising(announced)
        /\ AnnounceDelay \in 1 .. AnnounceDelay /\ 1 \in 1 .. AnnounceDelay
    BY <1>1, Sizes DEF IsRow
  <2>2. announced[AnnounceDelay] \in Nat /\ announced[1] \in Nat
    BY <2>1, ElementOfSeq
  <2> QED
    BY <2>1, <2>2 DEF Rising
<1>4. Published \in Nat /\ announced[AnnounceDelay] <= Published /\ Published <= writePSN'
  BY <1>1, <1>2, <1>3 DEF Published
<1>5. announced' = Append(Tail(announced), Published)
  BY DEF TxWrite
<1>6. /\ IsRow(announced', AnnounceDelay) /\ announced'[AnnounceDelay] = Published
      /\ \A i \in 1 .. AnnounceDelay : announced'[i] >= announced[i]
  <2>1. AnnounceDelay \in Nat \ {0}
    BY Sizes
  <2>2. announced[AnnounceDelay] <= Published /\ Published \in Nat
    BY <1>4
  <2>3. Shifted(Append(Tail(announced), Published), announced, AnnounceDelay, Published)
    BY ONLY <2>1, <2>2, <1>1, RowShift
  <2> QED
    BY <1>5, <2>3 DEF Shifted
<1>7. announced'[1] >= announced[1] /\ announced'[1] \in Nat
  <2>1. 1 \in 1 .. AnnounceDelay /\ announced' \in Seq(Nat) /\ Len(announced') = AnnounceDelay
    BY <1>6, Sizes DEF IsRow
  <2> QED
    BY <1>6, <2>1, ElementOfSeq
<1>8. SeenWrite = announced[1] /\ SeenWrite' = announced'[1]
  BY DEF SeenWrite
<1> QED
  BY <1>1, <1>2, <1>3, <1>4, <1>6, <1>7, <1>8

\* The RAM after the write of a clock.
LEMMA RamMoves ==
    ASSUME WritesOK, writePSN \in Nat, RamWrite
    PROVE  ram' \in [0 .. N - 1 -> Cell]
<1>1. ram \in [0 .. N - 1 -> Cell]
  BY DEF WritesOK
<1>2. CASE delayed = <<>>
  BY <1>1, <1>2 DEF RamWrite
<1>3. CASE delayed # <<>>
  <2>1. PICK e \in Entries : delayed = <<e>>
    BY <1>3 DEF WritesOK
  <2>2. Head(delayed) = e /\ e \in [psn : 0 .. writePSN - 1, status : Status]
    BY <2>1 DEF Entries
  <2> DEFINE w == Slot(e.psn)
             put == Put(ram[w], e)
  <2>3. w \in 0 .. N - 1
    BY <2>2, SlotTypes
  <2>4. put \in Cell
    <3>1. ram[w] \in Cell
      BY <1>1, <2>3
    <3>2. ram[w].psn \in Int /\ ram[w].psn < writePSN /\ e.psn \in Int /\ e.psn < writePSN
      BY <2>2, <3>1 DEF Cell
    <3>3. (IF e.psn > ram[w].psn THEN e.psn ELSE ram[w].psn) \in {q \in Int : q < writePSN}
      BY <3>2
    <3> QED
      BY <2>2, <3>3 DEF Put, Cell
  <2>5. ram' = [ram EXCEPT ![w] = put]
    BY <1>3, <2>2 DEF RamWrite
  <2> HIDE DEF put
  <2> QED
    BY <1>1, <2>3, <2>4, <2>5
<1> QED
  BY <1>2, <1>3

\* The walk: it never passes what is announced, and reads what is in the RAM.
LEMMA NextReadTypes ==
    ASSUME CursorsOK, FetchOK
    PROVE  /\ NextRead(Known) \in {readPSN, readPSN + 1} /\ NextRead(Known) \in Nat
           /\ NextRead(Known) <= announced[1]
           /\ fetch = <<>> => NextRead(Known) = readPSN
<1>1. readPSN \in Nat /\ readPSN <= announced[1] /\ announced[1] \in Nat
  <2>1. 1 \in 1 .. AnnounceDelay
    BY Sizes
  <2> QED
    BY <2>1, ElementOfSeq DEF CursorsOK, IsRow
<1> QED
  BY <1>1 DEF NextRead, FetchOK

\* What is published, and the row of views a clock later.
LEMMA ViewsShift ==
    ASSUME NEW taken \in BOOLEAN, Walk(taken, Known), readPSN \in Nat,
           IsRow(views, Views), views[Views] <= readPSN
    PROVE  /\ IsRow(views', Views)
           /\ views'[Views] <= readPSN
           /\ \A i \in 1 .. Views - 1 : views'[i] = views[i + 1]
           /\ \A i \in 1 .. Views : views'[i] >= views[i]
           /\ \/ Decide(Known) /\ views'[Views] = readPSN
              \/ /\ HandOver \/ Stall(taken)
                 /\ views'[Views] = views[Views]
<1>1. Views \in Nat \ {0} /\ Views \in 1 .. Views
  BY Sizes
<1>2. Len(views) = Views /\ views \in Seq(Nat)
  BY DEF IsRow
<1>3. views[Views] \in Nat
  BY <1>1, <1>2, ElementOfSeq
<1>4. CASE Decide(Known)
  <2>1. views' = Append(Tail(views), readPSN)
    BY <1>4 DEF Decide
  <2>2. Views \in Nat \ {0} /\ IsRow(views, Views) /\ views[Views] <= readPSN /\ readPSN \in Nat
    BY <1>1
  <2>3. Shifted(Append(Tail(views), readPSN), views, Views, readPSN)
    BY ONLY <2>2, RowShift
  <2>4. readPSN <= readPSN
    OBVIOUS
  <2> QED
    BY <1>4, <2>1, <2>3, <2>4 DEF Shifted
<1>5. CASE HandOver \/ Stall(taken)
  <2> DEFINE v == views[Views]
  <2>1. views' = Append(Tail(views), v)
    BY <1>2, <1>5 DEF HandOver, Stall, Keep
  <2>2. Views \in Nat \ {0} /\ IsRow(views, Views) /\ views[Views] <= v /\ v \in Nat /\ v <= readPSN
    BY <1>1, <1>3
  <2> HIDE DEF v
  <2>3. Shifted(Append(Tail(views), v), views, Views, v)
    BY ONLY <2>2, RowShift
  <2> QED
    BY <1>5, <2>1, <2>2, <2>3 DEF v, Shifted
<1> QED
  BY <1>4, <1>5 DEF Walk

LEMMA WalkMoves ==
    ASSUME StatusInv, NEW last \in BOOLEAN, NEW taken \in BOOLEAN,
           RamWrite, Walk(taken, Known), TxWrite(last)
    PROVE  CursorsOK' /\ FetchOK' /\ HandingOK'
<1>1. CursorsOK /\ FetchOK /\ HandingOK /\ WritesOK
  BY DEF StatusInv
<1>2. /\ writePSN' \in Nat /\ inPayload' \in BOOLEAN
      /\ IsRow(announced', AnnounceDelay) /\ announced'[AnnounceDelay] <= writePSN'
      /\ announced'[1] >= announced[1] /\ announced[1] \in Nat /\ announced'[1] \in Nat
      /\ SeenWrite = announced[1]
  BY <1>1, WriteMoves
<1>3. /\ readPSN \in Nat /\ readPSN <= announced[1] /\ phase \in {0, 1}
      /\ IsRow(views, Views) /\ views[Views] <= readPSN
      /\ writePSN \in Nat
  BY <1>1 DEF CursorsOK
<1>4. /\ NextRead(Known) \in {readPSN, readPSN + 1} /\ NextRead(Known) \in Nat
      /\ NextRead(Known) <= announced[1]
      /\ fetch = <<>> => NextRead(Known) = readPSN
  BY <1>1, NextReadTypes
<1>5. /\ readPSN' \in Nat /\ readPSN' \in {readPSN, readPSN + 1} /\ readPSN' <= announced[1]
      /\ phase' \in {0, 1} /\ FetchOK' /\ HandingOK'
  <2>1. CASE Decide(Known)
    <3>1. readPSN' = NextRead(Known) /\ phase' = 1
      BY <2>1 DEF Decide
    <3>2. FetchOK'
      <4>1. CASE NextRead(Known) = SeenWrite
        BY <2>1, <4>1 DEF Decide, Read, FetchOK
      <4>2. CASE NextRead(Known) # SeenWrite
        <5>1. fetch' = << [psn |-> NextRead(Known), now |-> ram'[Slot(NextRead(Known))]] >>
          BY <2>1, <4>2 DEF Decide, Read
        <5>2. Slot(NextRead(Known)) \in 0 .. N - 1
          BY <1>4, SlotTypes
        <5>3. ram'[Slot(NextRead(Known))].status \in Status
          <6>1. ram' \in [0 .. N - 1 -> Cell]
            BY <1>1, <1>3, RamMoves
          <6> QED
            BY <5>2, <6>1 DEF Cell
        <5>4. /\ Head(fetch').psn = NextRead(Known)
              /\ Head(fetch').now = ram'[Slot(NextRead(Known))]
          BY <5>1
        <5>5. NextRead(Known) < announced'[1]
          BY <1>2, <1>4, <4>2
        <5> QED
          BY <3>1, <5>3, <5>4, <5>5 DEF FetchOK
      <4> QED
        BY <4>1, <4>2
    <3>3. HandingOK'
      <4>0. copying' = 0
        BY <2>1 DEF Decide
      <4>1. CASE fetch # <<>> /\ Known \in {Refused, TimedOut}
        <5>1. handing' = << Entry(readPSN, Acked) >>
          BY <2>1, <4>1 DEF Decide
        <5>2. NextRead(Known) = readPSN + 1
          BY <4>1 DEF NextRead, Refused, TimedOut, Sent
        <5>3. (readPSN + 1) - 1 = readPSN /\ readPSN + 1 >= 1
          BY <1>3
        <5> QED
          BY <3>1, <4>0, <5>1, <5>2, <5>3 DEF HandingOK
      <4>2. CASE ~ (fetch # <<>> /\ Known \in {Refused, TimedOut})
        BY <2>1, <4>0, <4>2 DEF Decide, HandingOK
      <4> QED
        BY <4>1, <4>2
    <3> QED
      BY <1>4, <3>1, <3>2, <3>3
  <2>2. CASE HandOver
    <3>1. readPSN' = readPSN /\ fetch' = fetch /\ handing' = <<>> /\ phase' = 0
      BY <2>2 DEF HandOver
    <3>2. FetchOK'
      BY <1>1, <1>2, <1>3, <3>1 DEF FetchOK
    <3> QED
      BY <1>3, <3>1, <3>2 DEF HandingOK
  <2>3. CASE Stall(taken)
    <3>1. readPSN' = readPSN /\ fetch' = fetch /\ handing' = handing /\ phase' = phase
      BY <2>3 DEF Stall
    <3>2. FetchOK'
      BY <1>1, <1>2, <1>3, <3>1 DEF FetchOK
    <3>3. HandingOK'
      BY <1>1, <2>3, <3>1 DEF HandingOK, Stall
    <3> QED
      BY <1>3, <3>1, <3>2, <3>3
  <2> QED
    BY <2>1, <2>2, <2>3 DEF Walk
<1>6. IsRow(views', Views) /\ views'[Views] <= readPSN'
  <2>1. readPSN <= readPSN'
    BY <1>3, <1>5
  <2>2. /\ IsRow(views', Views)
        /\ views'[Views] <= readPSN
        /\ views'[Views] \in Nat
    <3>1. Views \in 1 .. Views
      BY Sizes
    <3>2. /\ IsRow(views', Views)
          /\ views'[Views] <= readPSN
      BY <1>3, ViewsShift
    <3> QED
      BY <3>1, <3>2, ElementOfSeq DEF IsRow
  <2> QED
    BY <1>3, <1>5, <2>1, <2>2
<1>7. readPSN' <= announced'[1]
  BY <1>2, <1>5
<1> QED
  BY <1>2, <1>5, <1>6, <1>7 DEF CursorsOK

-----------------------------------------------------------------------------
\* The views of readPSN, in the order of their age.
LEMMA ViewsOrdered ==
    ASSUME CursorsOK
    PROVE  /\ SeenRead \in Nat /\ TestedRead \in Nat /\ SeenWrite \in Nat
           /\ TestedRead <= SeenRead /\ SeenRead <= readPSN /\ readPSN <= SeenWrite
           /\ SeenWrite <= writePSN
<1> DEFINE n == Views
<1>1. /\ n \in Nat \ {0} /\ AnswerDelay + 1 \in 1 .. n /\ 1 \in 1 .. n /\ n \in 1 .. n
      /\ 1 <= AnswerDelay + 1 /\ AnswerDelay + 1 <= n
  BY Sizes
<1>2. views \in Seq(Nat) /\ Len(views) = n /\ Rising(views) /\ views[n] <= readPSN
        /\ readPSN \in Nat
  BY DEF CursorsOK, IsRow
<1> HIDE DEF n
<1>3. /\ views[1] \in Nat /\ views[AnswerDelay + 1] \in Nat
      /\ views[1] <= views[AnswerDelay + 1] /\ views[AnswerDelay + 1] <= views[n]
      /\ views[n] \in Nat
  BY <1>1, <1>2, ElementOfSeq DEF Rising
<1>4. 1 \in 1 .. AnnounceDelay /\ AnnounceDelay \in 1 .. AnnounceDelay /\ 1 <= AnnounceDelay
  BY Sizes
<1>5. announced[1] \in Nat /\ announced[1] <= announced[AnnounceDelay]
      /\ announced[AnnounceDelay] \in Nat
  BY <1>4, ElementOfSeq DEF CursorsOK, IsRow, Rising
<1>6. SeenRead = views[AnswerDelay + 1] /\ TestedRead = views[1] /\ SeenWrite = announced[1]
  BY DEF SeenRead, TestedRead, SeenWrite
<1> QED
  BY <1>2, <1>3, <1>5, <1>6 DEF CursorsOK

\* One more entry.
LEMMA ConcatOne ==
    ASSUME NEW S, NEW s \in Seq(S), NEW e \in S
    PROVE  s \o <<e>> = Append(s, e)
<1>1. <<e>> \in Seq(S) /\ Len(<<e>>) = 1 /\ <<e>>[1] = e /\ Len(s) \in Nat
  BY LenProperties
<1>2. /\ s \o <<e>> \in Seq(S) /\ Len(s \o <<e>>) = Len(s) + 1
      /\ \A i \in 1 .. Len(s) + 1 : (s \o <<e>>)[i] = IF i <= Len(s) THEN s[i] ELSE e
  BY <1>1, ConcatProperties
<1>3. /\ Append(s, e) \in Seq(S) /\ Len(Append(s, e)) = Len(s) + 1
      /\ \A i \in 1 .. Len(s) : Append(s, e)[i] = s[i]
      /\ Append(s, e)[Len(s) + 1] = e
  BY AppendProperties
<1>4. \A i \in 1 .. Len(s) + 1 : (s \o <<e>>)[i] = Append(s, e)[i]
  BY <1>1, <1>2, <1>3
<1> QED
  BY <1>2, <1>3, <1>4, SeqEqual

\* What enters a queue is about an accepted packet, and there is room for it.
LEMMA QueuesMove ==
    ASSUME StatusInv, NEW last \in BOOLEAN, NEW taken \in BOOLEAN, Clock(last, taken)
    PROVE  QueuesOK'
<1>1. CursorsOK /\ HandingOK /\ QueuesOK /\ WritesOK
  BY DEF StatusInv
<1>2. /\ Walk(taken, Known) /\ TxWrite(last) /\ Respond /\ (TimerStart \/ TimerMark \/ TimerRest)
  BY DEF Clock
<1>3. writePSN \in Nat /\ writePSN' \in Nat /\ writePSN <= writePSN'
  BY <1>1, <1>2, WriteMoves DEF CursorsOK
<1>a. \A p \in Nat : p < writePSN => p \in 0 .. writePSN' - 1
  BY <1>3, BelowGrows
<1>4. Entries \subseteq Entries'
  BY <1>3 DEF Entries
<1>5. /\ \A q \in {marks, answers, clears, lates} : q \in Seq(Entries) /\ q \in Seq(Entries')
                                                    /\ Len(q) <= QueueCap
  BY <1>1, <1>4, SeqMonotonic DEF QueuesOK, IsQueue
<1>6. \A p \in 0 .. writePSN' - 1, st \in Status : Entry(p, st) \in Entries'
  BY DEF Entry, Entries
<1>7. /\ SeenRead \in Nat /\ SeenRead <= readPSN /\ readPSN <= SeenWrite /\ SeenWrite <= writePSN
      /\ SeenWrite \in Nat /\ readPSN \in Nat
  BY <1>1, ViewsOrdered DEF CursorsOK
<1>8. IsQueue(marks)'
  <2>1. CASE Accept
    <3>1. /\ HasSpace(marks) /\ writePSN' = writePSN + 1
          /\ marks' = Append(Left("marks", marks), Entry(writePSN, Sent))
      BY <2>1 DEF Accept
    <3>2. Entry(writePSN, Sent) \in Entries'
      BY <1>3, <1>6, <3>1, StatusTypes
    <3> QED
      BY <1>5, <3>1, <3>2, QueueFilled, ServedNotEmpty DEF IsQueue
  <2>2. CASE NoAccept(last)
    <3>1. marks' = Left("marks", marks)
      BY <2>2 DEF NoAccept
    <3> QED
      BY <1>5, <3>1, QueueServed, ServedNotEmpty, LenProperties, Sizes DEF IsQueue
  <2> QED
    BY <1>2, <2>1, <2>2 DEF TxWrite
<1>9. IsQueue(answers)'
  <2>1. ASSUME NEW p \in 0 .. MaxPSN, NEW st \in {Acked, Refused}, Answer(p, st)
        PROVE  IsQueue(answers)'
    <3>1. /\ HasSpace(answers) /\ p < writePSN
          /\ answers' = Append(Left("answers", answers), Entry(p, st))
      BY <2>1 DEF Answer
    <3>2. Entry(p, st) \in Entries'
      <4>1. p \in Nat /\ p < writePSN
        <5>1. p \in Nat
          BY Sizes
        <5> QED
          BY ONLY <1>3, <1>7, <3>1, <5>1
      <4> QED
        BY <1>a, <1>6, <2>1, <4>1, StatusTypes
    <3> QED
      BY <1>5, <3>1, <3>2, QueueFilled, ServedNotEmpty DEF IsQueue
  <2>2. CASE NoAnswer
    <3>1. answers' = Left("answers", answers)
      BY <2>2 DEF NoAnswer
    <3> QED
      BY <1>5, <3>1, QueueServed, ServedNotEmpty, LenProperties, Sizes DEF IsQueue
  <2> QED
    BY <1>2, <2>1, <2>2 DEF Respond
<1>10. IsQueue(clears)'
  <2>1. Left("clears", clears) \in Seq(Entries') /\ Len(Left("clears", clears)) <= QueueCap
    BY <1>5, QueueServed, ServedNotEmpty, LenProperties, Sizes
  <2>2. CASE Decide(Known) \/ Stall(taken)
    BY <2>1, <2>2 DEF Decide, Stall, IsQueue
  <2>3. CASE HandOver
    <3>1. clears' = Left("clears", clears) \o handing
      BY <2>3 DEF HandOver
    <3>2. CASE handing = <<>>
      BY <2>1, <3>1, <3>2, ConcatEmptySeq DEF IsQueue
    <3>3. CASE handing # <<>>
      <4>1. HasSpace(clears)
        BY <2>3, <3>3 DEF HandOver
      <4>2. PICK e \in Entries' : handing = <<e>>
        <5>1. readPSN >= 1 /\ handing = <<Entry(readPSN - 1, Acked)>>
          BY <1>1, <3>3 DEF HandingOK
        <5>2. readPSN - 1 \in Nat /\ readPSN - 1 < writePSN
          BY ONLY <1>3, <1>7, <5>1
        <5> QED
          BY <1>a, <1>6, <5>1, <5>2, StatusTypes
      <4>3. clears' = Append(Left("clears", clears), e)
        BY <2>1, <3>1, <4>2, ConcatOne
      <4> QED
        BY <1>5, <4>1, <4>3, QueueFilled, ServedNotEmpty DEF IsQueue
    <3> QED
      BY <3>2, <3>3
  <2> QED
    BY <1>2, <2>2, <2>3 DEF Walk
<1>11. IsQueue(lates)'
  <2>1. CASE TimerMark
    <3>1. /\ HasSpace(lates) /\ timer # <<>>
          /\ lates' = Append(Left("lates", lates), Entry(Head(timer), TimedOut))
      BY <2>1 DEF TimerMark
    <3>2. Entry(Head(timer), TimedOut) \in Entries'
      <4>1. PICK p \in 0 .. writePSN - 1 : timer = <<p>>
        BY <1>1, <3>1 DEF WritesOK
      <4>2. Head(timer) = p /\ p \in Nat /\ p < writePSN
        BY <1>3, <4>1
      <4> QED
        BY <1>a, <1>6, <4>2, StatusTypes
    <3> QED
      BY <1>5, <3>1, <3>2, QueueFilled, ServedNotEmpty DEF IsQueue
  <2>2. CASE TimerStart \/ TimerRest
    <3>1. lates' = Left("lates", lates)
      BY <2>2 DEF TimerStart, TimerRest
    <3> QED
      BY <1>5, <3>1, QueueServed, ServedNotEmpty, LenProperties, Sizes DEF IsQueue
  <2> QED
    BY <1>2, <2>1, <2>2
<1> QED
  BY <1>8, <1>9, <1>10, <1>11 DEF QueuesOK

LEMMA WritesMove ==
    ASSUME StatusInv, NEW last \in BOOLEAN, NEW taken \in BOOLEAN, Clock(last, taken)
    PROVE  WritesOK'
<1>1. CursorsOK /\ QueuesOK /\ WritesOK
  BY DEF StatusInv
<1>2. /\ Serve /\ RamWrite /\ TxWrite(last) /\ (TimerStart \/ TimerMark \/ TimerRest)
  BY DEF Clock
<1>3. writePSN \in Nat /\ writePSN' \in Nat /\ writePSN <= writePSN'
  BY <1>1, <1>2, WriteMoves DEF CursorsOK
<1>a. \A p \in Nat : p < writePSN => p \in 0 .. writePSN' - 1
  BY <1>3, BelowGrows
<1>4. Entries \subseteq Entries' /\ Cell \subseteq Cell'
  BY <1>3 DEF Entries, Cell
<1>5. delayed' = <<>> \/ \E e \in Entries' : delayed' = <<e>>
  <2>1. CASE Served = "none"
    BY <1>2, <2>1 DEF Serve
  <2>2. ASSUME NEW queue \in {marks, answers, clears, lates}, queue # <<>>,
               delayed' = <<Head(queue)>>
        PROVE  \E e \in Entries' : delayed' = <<e>>
    <3>1. Head(queue) \in Entries
      BY <1>1, <2>2, HeadTailProperties DEF QueuesOK, IsQueue
    <3> QED
      BY <1>4, <2>2, <3>1
  <2>3. CASE Served # "none"
    <3>1. \E queue \in {marks, answers, clears, lates} :
             queue # <<>> /\ delayed' = <<Head(queue)>>
      BY <1>2, <2>3 DEF Serve, Served
    <3> QED
      BY <2>2, <3>1
  <2> QED
    BY <2>1, <2>3
<1>6. ram' \in [0 .. N - 1 -> Cell']
  BY <1>1, <1>2, <1>3, <1>4, RamMoves
<1>7. timer' = <<>> \/ \E p \in 0 .. writePSN' - 1 : timer' = <<p>>
  <2>1. CASE TimerStart
    <3>1. timer' = <<SeenRead>> /\ SeenRead < SeenWrite
      BY <2>1 DEF TimerStart
    <3>2. SeenRead \in Nat /\ SeenRead < writePSN
      BY <1>1, <1>3, <3>1, ViewsOrdered
    <3> QED
      BY <1>a, <3>1, <3>2
  <2>2. CASE TimerMark \/ TimerRest
    <3>1. timer' = <<>> \/ timer' = timer
      BY <2>2 DEF TimerMark, TimerRest
    <3>2. ASSUME NEW p \in 0 .. writePSN - 1 PROVE p \in 0 .. writePSN' - 1
      <4>1. p \in Nat /\ p < writePSN
        BY <1>3
      <4> QED
        BY <1>a, <4>1
    <3> QED
      BY <1>1, <3>1, <3>2 DEF WritesOK
  <2> QED
    BY <1>2, <2>1, <2>2
<1> QED
  BY <1>5, <1>6, <1>7 DEF WritesOK

LEMMA StatusInvStep == StatusInv /\ [StatusNext]_statusVars => StatusInv'
<1>1. ASSUME StatusInv, NEW last \in BOOLEAN, NEW taken \in BOOLEAN, Clock(last, taken)
      PROVE  StatusInv'
  <2>1. CursorsOK' /\ FetchOK' /\ HandingOK'
    BY <1>1, WalkMoves DEF Clock
  <2>2. QueuesOK' /\ WritesOK'
    BY <1>1, QueuesMove, WritesMove
  <2> QED
    BY <2>1, <2>2 DEF StatusInv
<1>2. ASSUME StatusInv, UNCHANGED statusVars PROVE StatusInv'
  BY <1>2 DEF statusVars, txVars, walkVars, timerVars, StatusInv, CursorsOK, FetchOK, HandingOK,
              QueuesOK, WritesOK, IsQueue, Entries, Cell
<1> QED
  BY <1>1, <1>2 DEF StatusNext

LEMMA StatusInvHolds == StatusSpec => []StatusInv
  BY StatusInvInit, StatusInvStep, PTL DEF StatusSpec

\* The cursors stay in the order tx_timeout, the walk and tx_write rely on, no write
\* is dropped at a full queue, and no status is about a packet never accepted.
THEOREM StatusTyped == StatusSpec => []StatusTypeOK
<1>1. StatusInv => StatusTypeOK
  <2> SUFFICES ASSUME StatusInv PROVE StatusTypeOK
    OBVIOUS
  <2>1. SeenRead <= readPSN /\ readPSN <= SeenWrite /\ SeenWrite <= writePSN
    BY ViewsOrdered DEF StatusInv
  <2>2. \A q \in {marks, answers, clears, lates} : Len(q) <= QueueCap
    BY DEF StatusInv, QueuesOK, IsQueue
  <2>3. \A s \in 0 .. N - 1 : ram[s].status \in Status /\ ram[s].psn < writePSN
    BY DEF StatusInv, WritesOK, Cell
  <2> QED
    BY <2>1, <2>2, <2>3 DEF StatusTypeOK
<1> QED
  BY <1>1, StatusInvHolds, PTL

-----------------------------------------------------------------------------
(* No clear and no answer overtakes the mark of a packet a round later.  What     *)
(* waits at tx_dev_mem_management is served before the walk has gone once round   *)
(* the ring: all it may wait for are the two writers with a higher priority, and  *)
(* each of those has a pace.                                                      *)

\* What the argument asks of the parameters: paces of at least four clocks, a slack
\* that covers the views' age at the window test, and a ring that is long enough for
\* its queues.  The design has 22 and 18 clocks and 2^20 slots.
Paced ==
    /\ HandTime >= 4 /\ TimerTime >= 4
    /\ AnswerDelay <= 2 * Slack + 1
    /\ 6 * QueueCap + Views + 6 <= 2 * N

\* Clocks a block has to go, out of the last four.
Due(clocks) == IF clocks < 4 THEN 4 - clocks ELSE 0
Owed == Due(copying) + Due(resting)

\* Half steps of the walk: a packet takes two clocks.
Walked == 2 * readPSN - phase

Allowance == 12 * QueueCap + 12 + 2 * Views

PaceOK == copying \in Nat /\ resting \in Nat

\* The walk takes two clocks for a packet, and what it publishes is one packet old.
RateOK ==
    /\ \A i, j \in 1 .. Views : i <= j => 2 * (views[j] - views[i]) <= (j - i) + 1
    /\ \A i \in 1 .. Views : Walked - 2 * views[i] <= Views - i + 2
    /\ phase = 1 => Walked - 2 * views[Views] <= 1

RoomOK == writePSN < SeenRead + N /\ writePSN <= TestedRead + N

\* Marks are about the newest packets, late marks about packets the walk has reached.
MarksOK == \A i \in 1 .. Len(marks) : marks[i].psn = writePSN - Len(marks) + i - 1

LatesOK ==
    /\ \A i \in 1 .. Len(lates) : lates[i].psn <= readPSN /\ lates[i].status = TimedOut
    /\ timer # <<>> => Head(timer) <= readPSN

CellsOK == \A s \in 0 .. N - 1 : ram[s].psn = -1 \/ (ram[s].psn \in Nat /\ Slot(ram[s].psn) = s)

\* Nothing about a later packet than q is in its slot of the RAM r or, in d, on the
\* way to it.
NoneAfter(q, r, d) ==
    /\ r[Slot(q)].psn <= q
    /\ d # <<>> /\ Slot(Head(d).psn) = Slot(q) => Head(d).psn <= q

\* With `work' writes to go the write about q is made before the walk is a round
\* further: four units for a write, two taken off each clock, one step of the walk
\* every second clock.
InTime(q, work) == 4 * work + Owed + 2 * Walked <= 4 * q + Allowance

AnswersOK ==
    /\ \A i \in 1 .. Len(answers) :
          /\ NoneAfter(answers[i].psn, ram, delayed)
          /\ InTime(answers[i].psn, Len(lates) + Len(clears) + i)
    /\ \A i, j \in 1 .. Len(answers) : i < j => answers[i].psn < answers[j].psn + N

ClearsOK ==
    \A i \in 1 .. Len(clears) :
        /\ NoneAfter(clears[i].psn, ram, delayed)
        /\ clears[i].psn < readPSN
        /\ InTime(clears[i].psn, Len(lates) + i)

NewestInv ==
    /\ PaceOK /\ RateOK /\ RoomOK /\ MarksOK /\ LatesOK /\ CellsOK /\ AnswersOK /\ ClearsOK
    /\ NewestStays

-----------------------------------------------------------------------------
\* Two packets of one slot are a round apart.
LEMMA SameSlot ==
    ASSUME NEW p \in Nat, NEW q \in Nat, Slot(p) = Slot(q), p < q + N
    PROVE  p <= q
<1> DEFINE a == p \div N
           b == q \div N
           s == p % N
<1>1. N \in Nat \ {0}
  BY Sizes
<1>2. /\ a \in Nat /\ b \in Nat /\ s \in 0 .. N - 1
      /\ p = a * N + s /\ q = b * N + s
  BY <1>1 DEF Slot
<1> HIDE DEF a, b, s
<1>3. SUFFICES ASSUME a > b PROVE FALSE
  BY <1>1, <1>2
<1>4. PICK k \in Nat : a = b + 1 + k
  <2>1. a - b - 1 \in Nat /\ a = b + 1 + (a - b - 1)
    BY <1>2, <1>3
  <2> QED
    BY <2>1
<1>5. a * N = b * N + N + k * N /\ k * N \in Nat
  BY <1>1, <1>2, <1>4
<1> QED
  BY <1>1, <1>2, <1>5

Gone(name) == IF Served = name THEN 1 ELSE 0

LEMMA OneServed ==
    /\ \A name : Gone(name) \in {0, 1}
    /\ answers # <<>> => Gone("lates") + Gone("clears") + Gone("answers") = 1
    /\ clears # <<>> => Gone("lates") + Gone("clears") = 1
<1>1. \A name : Gone(name) \in {0, 1}
  BY DEF Gone
<1>2. ASSUME answers # <<>> PROVE Gone("lates") + Gone("clears") + Gone("answers") = 1
  <2>1. CASE Served = "lates"
    BY <2>1 DEF Gone
  <2>2. CASE Served = "clears"
    BY <2>2 DEF Gone
  <2>3. CASE Served = "answers"
    BY <2>3 DEF Gone
  <2>4. Served \in {"lates", "clears", "answers"}
    BY <1>2 DEF Served
  <2> QED
    BY <2>1, <2>2, <2>3, <2>4
<1>3. ASSUME clears # <<>> PROVE Gone("lates") + Gone("clears") = 1
  <2>1. CASE Served = "lates"
    BY <2>1 DEF Gone
  <2>2. CASE Served = "clears"
    BY <2>2 DEF Gone
  <2>4. Served \in {"lates", "clears"}
    BY <1>3 DEF Served
  <2> QED
    BY <2>1, <2>2, <2>4
<1> QED
  BY <1>1, <1>2, <1>3

\* Where the entries of a queue stand a clock later.
LEMMA LeftEntries ==
    ASSUME NEW S, NEW name, NEW queue \in Seq(S), Served = name => queue # <<>>
    PROVE  /\ Left(name, queue) \in Seq(S)
           /\ Len(Left(name, queue)) = Len(queue) - Gone(name) /\ Len(Left(name, queue)) \in Nat
           /\ \A i \in 1 .. Len(queue) - Gone(name) :
                 i + Gone(name) \in 1 .. Len(queue) /\ Left(name, queue)[i] = queue[i + Gone(name)]
<1>0. Len(queue) \in Nat
  BY LenProperties
<1>1. CASE Served = name
  <2>1. /\ Tail(queue) \in Seq(S) /\ Len(Tail(queue)) = Len(queue) - 1
        /\ \A i \in 1 .. Len(Tail(queue)) : Tail(queue)[i] = queue[i + 1]
    BY <1>1, HeadTailProperties
  <2>2. Gone(name) = 1 /\ Left(name, queue) = Tail(queue)
    BY <1>1 DEF Gone, Left
  <2>3. Len(Tail(queue)) \in Nat
    BY <2>1, LenProperties
  <2> QED
    BY <1>0, <2>1, <2>2, <2>3
<1>2. CASE Served # name
  <2>1. Gone(name) = 0 /\ Left(name, queue) = queue
    BY <1>2 DEF Gone, Left
  <2> QED
    BY <1>0, <2>1
<1> QED
  BY <1>1, <1>2

LEMMA EntryTypes ==
    ASSUME StatusInv, NEW queue \in {marks, answers, clears, lates}
    PROVE  /\ queue \in Seq(Entries) /\ Len(queue) \in Nat /\ Len(queue) <= QueueCap
           /\ \A i \in 1 .. Len(queue) : /\ queue[i] \in Entries /\ queue[i].psn \in Nat
                                         /\ queue[i].psn < writePSN
<1>1. queue \in Seq(Entries) /\ Len(queue) \in Nat /\ Len(queue) <= QueueCap
  BY LenProperties DEF StatusInv, QueuesOK, IsQueue
<1>2. writePSN \in Nat
  BY DEF StatusInv, CursorsOK
<1>3. ASSUME NEW i \in 1 .. Len(queue)
      PROVE  queue[i] \in Entries /\ queue[i].psn \in Nat /\ queue[i].psn < writePSN
  <2>1. queue[i] \in Entries
    BY <1>1, ElementOfSeq
  <2> QED
    BY <1>2, <2>1 DEF Entries
<1> QED
  BY <1>1, <1>3

LEMMA EntryIn ==
    ASSUME writePSN \in Nat, NEW p \in Nat, p < writePSN, NEW st \in Status
    PROVE  Entry(p, st) \in Entries /\ Entry(p, st).psn = p /\ Entry(p, st).status = st
  BY DEF Entry, Entries

\* A clock takes one off what a block still has to go.
LEMMA DuePasses ==
    ASSUME NEW c \in Nat
    PROVE  /\ Sooner(c) \in Nat /\ Due(c) \in 0 .. 4 /\ Due(Sooner(c)) <= Due(c) + 1
           /\ Due(c) <= Due(c) + 1
           /\ \A t \in Nat : c = 0 /\ t >= 4 => t - 1 \in Nat /\ Due(t - 1) + 3 <= Due(c)
  BY DEF Sooner, Due

LEMMA ClearsMove ==
    ASSUME StatusInv, PaceOK, Paced, NEW taken \in BOOLEAN, Walk(taken, Known)
    PROVE  /\ copying' \in Nat
           /\ \/ clears' = Left("clears", clears) /\ Due(copying') <= Due(copying) + 1
              \/ /\ handing = <<Entry(readPSN - 1, Acked)>> /\ readPSN >= 1
                 /\ readPSN' = readPSN /\ phase' = 0 /\ HasSpace(clears)
                 /\ clears' = Append(Left("clears", clears), Entry(readPSN - 1, Acked))
                 /\ Due(copying') + 3 <= Due(copying)
<1>1. copying \in Nat /\ HandTime \in Nat /\ HandTime >= 4
  BY Sizes DEF PaceOK, Paced
<1>2. CASE Decide(Known) \/ Stall(taken)
  <2>1. clears' = Left("clears", clears) /\ copying' \in {copying, Sooner(copying)}
    <3>1. CASE Decide(Known)
      BY <3>1 DEF Decide
    <3>2. CASE Stall(taken)
      BY <1>1, <3>2 DEF Stall, Sooner
    <3> QED
      BY <1>2, <3>1, <3>2
  <2> QED
    BY <1>1, <2>1, DuePasses
<1>3. CASE HandOver
  <2>1. clears' = Left("clears", clears) \o handing /\ readPSN' = readPSN /\ phase' = 0
    BY <1>3 DEF HandOver
  <2>2. clears \in Seq(Entries) /\ Left("clears", clears) \in Seq(Entries)
    BY EntryTypes, LeftEntries, ServedNotEmpty
  <2>3. CASE handing = <<>>
    <3>1. copying' = copying
      BY <1>3, <2>3 DEF HandOver
    <3>2. clears' = Left("clears", clears)
      BY <2>1, <2>2, <2>3, ConcatEmptySeq
    <3> QED
      BY <1>1, <3>1, <3>2, DuePasses
  <2>4. CASE handing # <<>>
    <3>1. copying = 0 /\ HasSpace(clears) /\ copying' = HandTime - 1
      BY <1>3, <2>4 DEF HandOver, StatusInv, HandingOK
    <3>2. handing = <<Entry(readPSN - 1, Acked)>> /\ readPSN >= 1
      BY <2>4 DEF StatusInv, HandingOK
    <3>3. Entry(readPSN - 1, Acked) \in Entries
      <4>1. readPSN \in Nat /\ readPSN <= writePSN /\ writePSN \in Nat
        <5>1. readPSN \in Nat /\ writePSN \in Nat /\ SeenWrite \in Nat
              /\ readPSN <= SeenWrite /\ SeenWrite <= writePSN
          BY ViewsOrdered DEF StatusInv, CursorsOK
        <5> QED
          BY <5>1
      <4>2. readPSN - 1 \in Nat /\ readPSN - 1 < writePSN
        BY <3>2, <4>1
      <4> QED
        BY <4>1, <4>2, EntryIn, StatusTypes
    <3>4. clears' = Append(Left("clears", clears), Entry(readPSN - 1, Acked))
      BY <2>1, <2>2, <3>2, <3>3, ConcatOne
    <3>5. copying' \in Nat /\ Due(copying') + 3 <= Due(copying)
      <4>1. HandTime - 1 \in Nat /\ Due(HandTime - 1) + 3 <= Due(copying)
        BY <1>1, <3>1, DuePasses
      <4> QED
        BY <3>1, <4>1
    <3> QED
      BY <2>1, <3>1, <3>2, <3>4, <3>5
  <2> QED
    BY <2>3, <2>4
<1> QED
  BY <1>2, <1>3 DEF Walk

LEMMA LatesMove ==
    ASSUME StatusInv, PaceOK, Paced, TimerStart \/ TimerMark \/ TimerRest
    PROVE  /\ resting' \in Nat
           /\ \/ lates' = Left("lates", lates) /\ Due(resting') <= Due(resting) + 1
              \/ /\ timer # <<>> /\ HasSpace(lates) /\ Due(resting') + 3 <= Due(resting)
                 /\ Entry(Head(timer), TimedOut) \in Entries
                 /\ lates' = Append(Left("lates", lates), Entry(Head(timer), TimedOut))
<1>1. resting \in Nat /\ TimerTime \in Nat /\ TimerTime >= 4
  BY Sizes DEF PaceOK, Paced
<1>2. CASE TimerStart \/ TimerRest
  <2>1. lates' = Left("lates", lates) /\ resting' = Sooner(resting)
    BY <1>2 DEF TimerStart, TimerRest
  <2> QED
    BY <1>1, <2>1, DuePasses
<1>3. CASE TimerMark
  <2>1. /\ timer # <<>> /\ HasSpace(lates) /\ resting = 0 /\ resting' = TimerTime - 1
        /\ lates' = Append(Left("lates", lates), Entry(Head(timer), TimedOut))
    BY <1>3 DEF TimerMark
  <2>2. Entry(Head(timer), TimedOut) \in Entries
    <3>1. PICK p \in 0 .. writePSN - 1 : timer = <<p>>
      BY <2>1 DEF StatusInv, WritesOK
    <3>2. writePSN \in Nat /\ Head(timer) = p
      BY <3>1 DEF StatusInv, CursorsOK
    <3>3. p \in Nat /\ p < writePSN
      BY <3>2
    <3> QED
      BY <3>2, <3>3, EntryIn, StatusTypes
  <2>3. TimerTime - 1 \in Nat /\ Due(TimerTime - 1) + 3 <= Due(resting)
    BY <1>1, <2>1, DuePasses
  <2> QED
    BY <2>1, <2>2, <2>3
<1> QED
  BY <1>2, <1>3

LEMMA AnswersMove ==
    ASSUME StatusInv, Respond
    PROVE  \/ answers' = Left("answers", answers)
           \/ \E p \in Nat, st \in Status :
                 /\ HasSpace(answers) /\ TestedRead <= p /\ p < writePSN
                 /\ Entry(p, st) \in Entries
                 /\ answers' = Append(Left("answers", answers), Entry(p, st))
<1>1. CASE NoAnswer
  BY <1>1 DEF NoAnswer
<1>2. ASSUME NEW p \in 0 .. MaxPSN, NEW st \in {Acked, Refused}, Answer(p, st)
      PROVE  \E q \in Nat, s \in Status :
                 /\ HasSpace(answers) /\ TestedRead <= q /\ q < writePSN
                 /\ Entry(q, s) \in Entries
                 /\ answers' = Append(Left("answers", answers), Entry(q, s))
  <2>1. /\ HasSpace(answers) /\ InWindow(p) /\ p < writePSN
        /\ answers' = Append(Left("answers", answers), Entry(p, st))
    BY <1>2 DEF Answer
  <2>2. p \in Nat /\ st \in Status
    BY Sizes, StatusTypes
  <2>3. TestedRead \in Nat /\ writePSN \in Nat
    BY ViewsOrdered DEF StatusInv, CursorsOK
  <2>4. TestedRead <= p
    BY <2>1, <2>3 DEF InWindow
  <2> QED
    BY <2>1, <2>2, <2>3, <2>4, EntryIn
<1> QED
  BY <1>1, <1>2 DEF Respond

LEMMA MarksMove ==
    ASSUME StatusInv, NEW last \in BOOLEAN, TxWrite(last)
    PROVE  \/ marks' = Left("marks", marks) /\ writePSN' = writePSN
           \/ /\ RingHasRoom /\ HasSpace(marks) /\ writePSN' = writePSN + 1
              /\ marks' = Append(Left("marks", marks), Entry(writePSN, Sent))
  BY DEF TxWrite, Accept, NoAccept

LEMMA WalkPaces ==
    ASSUME StatusInv, NEW taken \in BOOLEAN, Walk(taken, Known)
    PROVE  /\ readPSN \in Nat /\ readPSN' \in Nat
           /\ readPSN <= readPSN' /\ readPSN' <= readPSN + 1
           /\ Walked \in Int /\ Walked' \in Int /\ Walked' <= Walked + 1
           /\ Walked' <= 2 * readPSN' /\ 2 * readPSN' <= Walked' + 1
<1>1. /\ readPSN \in Nat /\ phase \in {0, 1}
      /\ NextRead(Known) \in Nat /\ readPSN <= NextRead(Known) /\ NextRead(Known) <= readPSN + 1
  BY NextReadTypes DEF StatusInv, CursorsOK
<1>2. CASE Decide(Known)
  <2>1. readPSN' = NextRead(Known) /\ phase' = 1 /\ phase = 0
    BY <1>2 DEF Decide
  <2>2. Walked' = 2 * NextRead(Known) - 1 /\ Walked = 2 * readPSN - 0
    BY <2>1 DEF Walked
  <2> QED
    BY <1>1, <2>1, <2>2
<1>3. CASE HandOver
  <2>1. readPSN' = readPSN /\ phase' = 0 /\ phase = 1
    BY <1>3 DEF HandOver
  <2>2. Walked' = 2 * readPSN - 0 /\ Walked = 2 * readPSN - 1
    BY <2>1 DEF Walked
  <2> QED
    BY <1>1, <2>1, <2>2
<1>4. CASE Stall(taken)
  <2>1. readPSN' = readPSN /\ phase' = phase
    BY <1>4 DEF Stall
  <2>2. Walked' = Walked /\ Walked = 2 * readPSN - phase
    BY <2>1 DEF Walked
  <2> QED
    BY <1>1, <2>1, <2>2
<1> QED
  BY <1>2, <1>3, <1>4 DEF Walk

\* What is written next, by the order of the queues.
LEMMA DelayedNext ==
    ASSUME StatusInv, Serve
    PROVE  \/ delayed' = <<>>
           \/ lates # <<>> /\ delayed' = <<lates[1]>>
           \/ clears # <<>> /\ delayed' = <<clears[1]>>
           \/ clears = <<>> /\ answers # <<>> /\ Served = "answers" /\ delayed' = <<answers[1]>>
           \/ clears = <<>> /\ answers = <<>> /\ marks # <<>> /\ delayed' = <<marks[1]>>
<1>1. \A queue \in {marks, answers, clears, lates} : queue # <<>> => Head(queue) = queue[1]
  OBVIOUS
<1>2. CASE Served = "none"
  BY <1>2 DEF Serve
<1>3. CASE Served = "lates"
  BY <1>1, <1>3, ServedNotEmpty DEF Serve
<1>4. CASE Served = "clears"
  BY <1>1, <1>4, ServedNotEmpty DEF Serve
<1>5. CASE Served = "answers"
  <2>1. clears = <<>>
    BY <1>5 DEF Served
  <2> QED
    BY <1>1, <1>5, <2>1, ServedNotEmpty DEF Serve
<1>6. CASE Served = "marks"
  <2>1. clears = <<>> /\ answers = <<>>
    BY <1>6 DEF Served
  <2> QED
    BY <1>1, <1>6, <2>1, ServedNotEmpty DEF Serve
<1> QED
  BY <1>2, <1>3, <1>4, <1>5, <1>6 DEF Served

\* A cell after the write of a clock: as it was, or the write.
LEMMA RamAt ==
    ASSUME StatusInv, CellsOK, RamWrite, NEW s \in 0 .. N - 1
    PROVE  /\ \/ ram'[s].psn = ram[s].psn
              \/ /\ delayed # <<>> /\ Slot(Head(delayed).psn) = s
                 /\ ram'[s].psn = Head(delayed).psn
           /\ ram'[s].psn = -1 \/ (ram'[s].psn \in Nat /\ Slot(ram'[s].psn) = s)
           /\ ram'[s].psn < writePSN
<1>1. /\ ram \in [0 .. N - 1 -> Cell] /\ writePSN \in Nat
      /\ delayed = <<>> \/ \E e \in Entries : delayed = <<e>>
  BY DEF StatusInv, WritesOK, CursorsOK
<1>2. /\ ram[s].psn \in Int /\ ram[s].psn < writePSN
      /\ ram[s].psn = -1 \/ (ram[s].psn \in Nat /\ Slot(ram[s].psn) = s)
  BY <1>1 DEF CellsOK, Cell
<1>3. CASE delayed = <<>>
  BY <1>2, <1>3 DEF RamWrite
<1>4. CASE delayed # <<>>
  <2>1. PICK e \in Entries : delayed = <<e>>
    BY <1>1, <1>4
  <2>2. Head(delayed) = e /\ e.psn \in Nat /\ e.psn < writePSN
    BY <1>1, <2>1 DEF Entries
  <2>3. ram' = [ram EXCEPT ![Slot(e.psn)] = Put(ram[Slot(e.psn)], e)]
    BY <1>4, <2>2 DEF RamWrite
  <2>4. CASE Slot(e.psn) = s
    <3>1. ram'[s] = Put(ram[s], e)
      BY <1>1, <2>3, <2>4
    <3>2. e \in [psn : 0 .. writePSN - 1, status : Status]
      BY DEF Entries
    <3>3. ram'[s].psn = IF e.psn > ram[s].psn THEN e.psn ELSE ram[s].psn
      BY <3>1, <3>2 DEF Put
    <3> QED
      BY <1>2, <1>4, <2>2, <2>4, <3>3
  <2>5. CASE Slot(e.psn) # s
    <3>1. ram'[s] = ram[s]
      BY <1>1, <2>3, <2>5
    <3> QED
      BY <1>2, <3>1
  <2> QED
    BY <2>4, <2>5
<1> QED
  BY <1>3, <1>4

\* As long as the ring is not full behind it a packet is the newest of its slot.
LEMMA NoneAfterFar ==
    ASSUME StatusInv, CellsOK, RamWrite, Serve, NEW q \in Nat, writePSN <= q + N
    PROVE  NoneAfter(q, ram, delayed) /\ NoneAfter(q, ram', delayed')
<1>1. writePSN \in Nat /\ N \in Nat /\ Slot(q) \in 0 .. N - 1
  BY Sizes, SlotTypes DEF StatusInv, CursorsOK
<1>2. ASSUME NEW p \in Nat, p < writePSN, Slot(p) = Slot(q) PROVE p <= q
  BY <1>1, <1>2, SameSlot
<1>3. ram[Slot(q)].psn <= q
  <2>1. /\ ram[Slot(q)].psn < writePSN
        /\ ram[Slot(q)].psn = -1 \/ (ram[Slot(q)].psn \in Nat /\ Slot(ram[Slot(q)].psn) = Slot(q))
    BY <1>1 DEF StatusInv, WritesOK, Cell, CellsOK
  <2> QED
    BY <1>2, <2>1
<1>4. ram'[Slot(q)].psn <= q
  BY <1>1, <1>2, RamAt
<1>5. ASSUME NEW e \in Entries PROVE Slot(e.psn) = Slot(q) => e.psn <= q
  <2>1. e.psn \in Nat /\ e.psn < writePSN
    BY <1>1 DEF Entries
  <2> QED
    BY <1>2, <2>1
<1>6. ASSUME NEW d, d = <<>> \/ \E e \in Entries : d = <<e>>
      PROVE  d # <<>> /\ Slot(Head(d).psn) = Slot(q) => Head(d).psn <= q
  <2> SUFFICES ASSUME NEW e \in Entries, d = <<e>>
               PROVE  Slot(Head(d).psn) = Slot(q) => Head(d).psn <= q
    BY <1>6
  <2>1. Head(d) = e
    OBVIOUS
  <2> QED
    BY <1>5, <2>1
<1>7. delayed = <<>> \/ \E e \in Entries : delayed = <<e>>
  BY DEF StatusInv, WritesOK
<1>8. delayed' = <<>> \/ \E e \in Entries : delayed' = <<e>>
  <2>1. ASSUME NEW queue \in {marks, answers, clears, lates}, queue # <<>>
        PROVE  queue[1] \in Entries
    <3>1. queue \in Seq(Entries) /\ Len(queue) \in Nat
      BY EntryTypes
    <3>2. 1 \in 1 .. Len(queue)
      BY <2>1, <3>1, EmptySeq
    <3> QED
      BY <3>1, <3>2, ElementOfSeq
  <2> QED
    BY <2>1, DelayedNext
<1> QED
  BY <1>3, <1>4, <1>6, <1>7, <1>8 DEF NoneAfter

LEMMA NoneAfterStays ==
    ASSUME StatusInv, CellsOK, RamWrite, NEW q \in Nat, NoneAfter(q, ram, delayed), NEW d,
           d # <<>> /\ Slot(Head(d).psn) = Slot(q) => Head(d).psn <= q
    PROVE  NoneAfter(q, ram', d)
<1>1. Slot(q) \in 0 .. N - 1
  BY SlotTypes
<1>2. ram'[Slot(q)].psn <= q
  BY <1>1, RamAt DEF NoneAfter
<1> QED
  BY <1>2 DEF NoneAfter

\* The lengths of the queues of the prior writers and what they owe.
LEMMA WaitsShrink ==
    ASSUME StatusInv, PaceOK, Paced, NEW taken \in BOOLEAN, Walk(taken, Known),
           TimerStart \/ TimerMark \/ TimerRest
    PROVE  /\ Owed' \in 0 .. 8 /\ Owed \in 0 .. 8
           /\ Len(lates') \in 0 .. QueueCap /\ Len(clears') \in 0 .. QueueCap
           /\ answers # <<>> =>
                 4 * (Len(lates') + Len(clears')) + Owed' + 2 * Walked'
                    <= 4 * (Len(lates) + Len(clears)) + Owed + 2 * Walked
                       + 4 * Gone("answers")
           /\ clears # <<>> =>
                 4 * Len(lates') + Owed' + 2 * Walked'
                    <= 4 * Len(lates) + Owed + 2 * Walked + 4 * Gone("clears")
<1> DEFINE gl == Gone("lates")
           gc == Gone("clears")
           ga == Gone("answers")
<1>1. gl \in {0, 1} /\ gc \in {0, 1} /\ ga \in {0, 1}
  BY OneServed
<1>2. QueueCap \in Nat /\ copying \in Nat /\ resting \in Nat
  BY Sizes DEF PaceOK
<1>3. /\ clears \in Seq(Entries) /\ Len(clears) \in Nat /\ Len(clears) <= QueueCap
      /\ lates \in Seq(Entries) /\ Len(lates) \in Nat /\ Len(lates) <= QueueCap
  BY EntryTypes
<1>4. /\ Len(Left("clears", clears)) = Len(clears) - gc /\ Len(clears) - gc \in Nat
      /\ Len(Left("lates", lates)) = Len(lates) - gl /\ Len(lates) - gl \in Nat
  BY <1>3, LeftEntries, ServedNotEmpty
<1>5. copying' \in Nat /\ resting' \in Nat
  BY ClearsMove, LatesMove
<1>6. /\ Due(copying) \in 0 .. 4 /\ Due(resting) \in 0 .. 4
      /\ Due(copying') \in 0 .. 4 /\ Due(resting') \in 0 .. 4
      /\ Owed = Due(copying) + Due(resting) /\ Owed' = Due(copying') + Due(resting')
  BY <1>2, <1>5, DuePasses DEF Owed
<1>7. \E k \in {0, 1} : /\ Len(clears') = Len(clears) - gc + k /\ Len(clears') \in 0 .. QueueCap
                        /\ Due(copying') + 4 * k <= Due(copying) + 1
  <2>1. CASE clears' = Left("clears", clears) /\ Due(copying') <= Due(copying) + 1
    <3>1. Len(clears') = Len(clears) - gc + 0 /\ Len(clears') \in 0 .. QueueCap
      BY <1>1, <1>2, <1>3, <1>4, <2>1
    <3>2. Due(copying') + 4 * 0 <= Due(copying) + 1
      BY <1>6, <2>1
    <3> QED
      BY <3>1, <3>2
  <2>2. CASE /\ HasSpace(clears) /\ Due(copying') + 3 <= Due(copying)
             /\ handing = <<Entry(readPSN - 1, Acked)>> /\ readPSN >= 1
             /\ clears' = Append(Left("clears", clears), Entry(readPSN - 1, Acked))
    <3>1. Len(clears) + 1 <= QueueCap
      BY <1>2, <1>3, <2>2 DEF HasSpace
    <3>2. Left("clears", clears) \in Seq(Entries)
      BY <1>3, LeftEntries, ServedNotEmpty
    <3>3. Len(clears') = Len(clears) - gc + 1
      BY <1>4, <2>2, <3>2, AppendProperties
    <3>4. Len(clears') \in 0 .. QueueCap
      BY <1>1, <1>2, <1>3, <1>4, <3>1, <3>3
    <3>5. Due(copying') + 4 * 1 <= Due(copying) + 1
      BY <1>6, <2>2
    <3> QED
      BY <3>3, <3>4, <3>5
  <2> QED
    BY <2>1, <2>2, ClearsMove
<1>8. \E k \in {0, 1} : /\ Len(lates') = Len(lates) - gl + k /\ Len(lates') \in 0 .. QueueCap
                        /\ Due(resting') + 4 * k <= Due(resting) + 1
  <2>1. CASE lates' = Left("lates", lates) /\ Due(resting') <= Due(resting) + 1
    <3>1. Len(lates') = Len(lates) - gl + 0 /\ Len(lates') \in 0 .. QueueCap
      BY <1>1, <1>2, <1>3, <1>4, <2>1
    <3>2. Due(resting') + 4 * 0 <= Due(resting) + 1
      BY <1>6, <2>1
    <3> QED
      BY <3>1, <3>2
  <2>2. CASE /\ HasSpace(lates) /\ Due(resting') + 3 <= Due(resting)
             /\ lates' = Append(Left("lates", lates), Entry(Head(timer), TimedOut))
    <3>1. Len(lates) + 1 <= QueueCap
      BY <1>2, <1>3, <2>2 DEF HasSpace
    <3>2. Left("lates", lates) \in Seq(Entries)
      BY <1>3, LeftEntries, ServedNotEmpty
    <3>3. Len(lates') = Len(lates) - gl + 1
      BY <1>4, <2>2, <3>2, AppendProperties
    <3>4. Len(lates') \in 0 .. QueueCap
      BY <1>1, <1>2, <1>3, <1>4, <3>1, <3>3
    <3>5. Due(resting') + 4 * 1 <= Due(resting) + 1
      BY <1>6, <2>2
    <3> QED
      BY <3>3, <3>4, <3>5
  <2> QED
    BY <2>1, <2>2, LatesMove
<1>9. Walked \in Int /\ Walked' \in Int /\ Walked' <= Walked + 1
  BY WalkPaces
<1>10. /\ answers # <<>> => gl + gc + ga = 1
       /\ clears # <<>> => gl + gc = 1
  BY OneServed
<1> DEFINE dc == Due(copying)
           dr == Due(resting)
           dc1 == Due(copying')
           dr1 == Due(resting')
           lc == Len(clears)
           ll == Len(lates)
           lc1 == Len(clears')
           ll1 == Len(lates')
           w == Walked
           w1 == Walked'
<1>11. PICK kc \in {0, 1} : lc1 = lc - gc + kc /\ lc1 \in 0 .. QueueCap /\ dc1 + 4 * kc <= dc + 1
  BY <1>7
<1>12. PICK kl \in {0, 1} : ll1 = ll - gl + kl /\ ll1 \in 0 .. QueueCap /\ dr1 + 4 * kl <= dr + 1
  BY <1>8
<1>13. lc \in Nat /\ ll \in Nat /\ lc1 \in Nat /\ ll1 \in Nat
  BY <1>2, <1>3, <1>11, <1>12
<1>14. /\ dc \in 0 .. 4 /\ dr \in 0 .. 4 /\ dc1 \in 0 .. 4 /\ dr1 \in 0 .. 4
       /\ Owed = dc + dr /\ Owed' = dc1 + dr1
  BY <1>6
<1>15. w \in Int /\ w1 \in Int /\ w1 <= w + 1
  BY <1>9
<1> HIDE DEF gl, gc, ga, dc, dr, dc1, dr1, lc, ll, lc1, ll1, w, w1
<1>16. (dc1 + dr1) + 4 * kc + 4 * kl <= (dc + dr) + 2
  BY <1>11, <1>12, <1>14
<1>17. /\ gl + gc + ga = 1 =>
             4 * (ll1 + lc1) + (dc1 + dr1) + 2 * w1 <= 4 * (ll + lc) + (dc + dr) + 2 * w + 4 * ga
       /\ gl + gc = 1 => 4 * ll1 + (dc1 + dr1) + 2 * w1 <= 4 * ll + (dc + dr) + 2 * w + 4 * gc
  BY <1>1, <1>11, <1>12, <1>13, <1>14, <1>15, <1>16
<1>18. Owed \in 0 .. 8 /\ Owed' \in 0 .. 8
  BY <1>14
<1> QED
  BY <1>10, <1>11, <1>12, <1>14, <1>17, <1>18 DEF ga, gc, lc, ll, lc1, ll1, w, w1

\* The row of views a clock later.
LEMMA ViewsMove ==
    ASSUME StatusInv, NEW taken \in BOOLEAN, Walk(taken, Known)
    PROVE  /\ Views \in Nat /\ Views >= 2 /\ AnswerDelay + 1 \in 1 .. Views /\ AnswerDelay >= 1
           /\ \A i \in 1 .. Views : views[i] \in Nat /\ views'[i] \in Nat /\ views[i] <= views'[i]
           /\ \A i \in 1 .. Views - 1 : views'[i] = views[i + 1]
           /\ \/ Decide(Known) /\ views'[Views] = readPSN
              \/ (HandOver \/ Stall(taken)) /\ views'[Views] = views[Views]
           /\ SeenRead = views[AnswerDelay + 1] /\ SeenRead' = views'[AnswerDelay + 1]
           /\ TestedRead = views[1] /\ TestedRead' = views'[1]
<1>1. /\ Views \in Nat /\ Views >= 2 /\ AnswerDelay + 1 \in 1 .. Views /\ AnswerDelay >= 1
  BY Sizes
<1>2. IsRow(views, Views) /\ views[Views] <= readPSN /\ readPSN \in Nat
  BY DEF StatusInv, CursorsOK
<1>3. /\ IsRow(views', Views)
      /\ \A i \in 1 .. Views - 1 : views'[i] = views[i + 1]
      /\ \A i \in 1 .. Views : views'[i] >= views[i]
      /\ \/ Decide(Known) /\ views'[Views] = readPSN
         \/ (HandOver \/ Stall(taken)) /\ views'[Views] = views[Views]
  BY <1>2, ViewsShift
<1>4. ASSUME NEW i \in 1 .. Views
      PROVE  views[i] \in Nat /\ views'[i] \in Nat /\ views[i] <= views'[i]
  <2>1. views[i] \in Nat /\ views'[i] \in Nat
    BY <1>2, <1>3, ElementOfSeq DEF IsRow
  <2>2. views'[i] >= views[i]
    BY <1>3
  <2> QED
    BY <2>1, <2>2
<1>5. /\ SeenRead = views[AnswerDelay + 1] /\ SeenRead' = views'[AnswerDelay + 1]
      /\ TestedRead = views[1] /\ TestedRead' = views'[1]
  BY DEF SeenRead, TestedRead
<1> QED
  BY <1>1, <1>3, <1>4, <1>5

LEMMA RateStep ==
    ASSUME StatusInv, RateOK, NEW taken \in BOOLEAN, Walk(taken, Known)
    PROVE  RateOK'
<1> DEFINE n == Views
           w1 == Walked'
           p1 == phase'
           v1 == views'[n]
<1>1. /\ n \in Nat /\ n >= 2
      /\ \A i \in 1 .. n : views[i] \in Nat /\ views'[i] \in Nat
      /\ \A i \in 1 .. n - 1 : views'[i] = views[i + 1]
  BY ViewsMove
<1>2. w1 \in Int /\ Walked \in Int /\ w1 <= Walked + 1
  BY WalkPaces
<1>4. /\ \A i, j \in 1 .. n : i <= j => 2 * (views[j] - views[i]) <= (j - i) + 1
      /\ \A i \in 1 .. n : Walked - 2 * views[i] <= n - i + 2
      /\ phase = 1 => Walked - 2 * views[n] <= 1
  BY DEF RateOK
\* The cursor published, and the half steps that the walk is ahead of it.
<1>3. /\ v1 \in Nat /\ 2 * v1 <= Walked + 1 /\ w1 - 2 * v1 <= 2
      /\ p1 = 1 => w1 - 2 * v1 <= 1
      /\ v1 = views[n] \/ 2 * v1 = Walked
  <2>1. n \in 1 .. n /\ views[n] \in Nat /\ v1 \in Nat /\ readPSN \in Nat /\ phase \in {0, 1}
        /\ views[n] <= readPSN
    BY <1>1 DEF StatusInv, CursorsOK, Views
  <2>2. Walked = 2 * readPSN - phase
    BY DEF Walked
  <2>3. Walked - 2 * views[n] <= 2 /\ (phase = 1 => Walked - 2 * views[n] <= 1)
    <3>1. Walked - 2 * views[n] <= n - n + 2
      BY <1>4, <2>1
    <3> QED
      BY <1>1, <1>2, <1>4, <2>1, <3>1
  <2>4. CASE Decide(Known) /\ v1 = readPSN
    <3>1. phase = 0
      BY <2>4 DEF Decide
    <3>2. 2 * v1 = Walked
      BY <2>1, <2>2, <2>4, <3>1
    <3> HIDE DEF v1, w1
    <3> QED
      BY <1>2, <2>1, <3>2
  <2>5. CASE HandOver /\ v1 = views[n]
    <3>1. phase = 1 /\ p1 = 0
      BY <2>5 DEF HandOver
    <3> HIDE DEF v1, w1, p1
    <3> QED
      BY <1>2, <2>1, <2>2, <2>3, <2>5, <3>1
  <2>6. CASE Stall(taken) /\ v1 = views[n]
    <3>1. p1 = phase /\ w1 = Walked
      BY <2>6 DEF Stall, Walked
    <3> HIDE DEF v1, w1, p1
    <3> QED
      BY <1>2, <2>1, <2>2, <2>3, <2>6, <3>1
  <2> QED
    BY <2>4, <2>5, <2>6, ViewsMove DEF v1, n
<1> HIDE DEF n, w1, p1, v1
<1>5. ASSUME NEW i \in 1 .. n PROVE w1 - 2 * views'[i] <= n - i + 2
  <2>1. CASE i = n
    <3>1. views'[i] = v1
      BY <2>1 DEF v1
    <3> QED
      BY <1>1, <1>2, <1>3, <2>1, <3>1
  <2>2. CASE i # n
    <3>1. i \in 1 .. n - 1 /\ i + 1 \in 1 .. n
      BY <1>1, <2>2
    <3>2. /\ views'[i] = views[i + 1] /\ views[i + 1] \in Nat
          /\ Walked - 2 * views[i + 1] <= n - (i + 1) + 2
      BY <1>1, <1>4, <3>1
    <3> QED
      BY <1>1, <1>2, <3>1, <3>2
  <2> QED
    BY <2>1, <2>2
<1>6. ASSUME NEW i \in 1 .. n, NEW j \in 1 .. n, i <= j
      PROVE  2 * (views'[j] - views'[i]) <= (j - i) + 1
  <2>1. CASE j = n /\ i = n
    BY <1>1, <2>1
  <2>2. CASE j = n /\ i # n
    <3>1. i \in 1 .. n - 1 /\ i + 1 \in 1 .. n /\ n \in 1 .. n /\ i + 1 <= n
      BY <1>1, <2>2
    <3>2. /\ views'[i] = views[i + 1] /\ views[i + 1] \in Nat /\ views[n] \in Nat
          /\ Walked - 2 * views[i + 1] <= n - (i + 1) + 2
          /\ 2 * (views[n] - views[i + 1]) <= (n - (i + 1)) + 1
      BY <1>1, <1>4, <3>1
    <3>3. views'[j] = v1
      BY <2>2 DEF v1
    <3>4. 2 * (v1 - views[i + 1]) <= (n - i) + 1
      BY <1>1, <1>2, <1>3, <3>1, <3>2
    <3> QED
      BY <2>2, <3>2, <3>3, <3>4
  <2>3. CASE j # n
    <3>1. i \in 1 .. n - 1 /\ j \in 1 .. n - 1 /\ i + 1 \in 1 .. n /\ j + 1 \in 1 .. n
          /\ i + 1 <= j + 1
      BY <1>1, <1>6, <2>3
    <3>2. /\ views'[i] = views[i + 1] /\ views'[j] = views[j + 1]
          /\ views[i + 1] \in Nat /\ views[j + 1] \in Nat
          /\ 2 * (views[j + 1] - views[i + 1]) <= ((j + 1) - (i + 1)) + 1
      BY <1>1, <1>4, <3>1
    <3> QED
      BY <3>1, <3>2
  <2> QED
    BY <2>1, <2>2, <2>3
<1>7. p1 = 1 => w1 - 2 * views'[n] <= 1
  BY <1>3 DEF v1
<1> QED
  BY <1>5, <1>6, <1>7 DEF RateOK, n, w1, p1, Views

LEMMA RoomStep ==
    ASSUME StatusInv, RateOK, RoomOK, Paced, NEW last \in BOOLEAN, NEW taken \in BOOLEAN,
           Walk(taken, Known), TxWrite(last)
    PROVE  RoomOK' /\ writePSN' <= TestedRead + N + 1
<1> DEFINE a == AnswerDelay + 1
<1>1. /\ Views \in Nat /\ Views >= 2 /\ a \in 1 .. Views /\ a >= 2 /\ 2 \in 1 .. Views
      /\ AnswerDelay \in Nat /\ a = AnswerDelay + 1
  BY ViewsMove, Sizes
<1>2. /\ \A i \in 1 .. Views : views[i] \in Nat /\ views'[i] \in Nat /\ views[i] <= views'[i]
      /\ views'[1] = views[2]
      /\ SeenRead = views[a] /\ SeenRead' = views'[a]
      /\ TestedRead = views[1] /\ TestedRead' = views'[1]
  <2>1. 1 \in 1 .. Views - 1
    BY <1>1
  <2> QED
    BY <2>1, ViewsMove
<1>3. N \in Nat /\ Slack \in Nat /\ Slack >= 1 /\ AnswerDelay <= 2 * Slack + 1 /\ writePSN \in Nat
  BY Sizes DEF Paced, StatusInv, CursorsOK
<1> HIDE DEF a
<1>4. writePSN < views[a] + N /\ writePSN <= views[1] + N
  BY <1>2 DEF RoomOK
<1>5. 1 \in 1 .. Views /\ views[1] <= views[2] /\ views[2] \in Nat /\ views[1] \in Nat
  BY <1>1, <1>2
<1>6. views[a] \in Nat /\ views'[a] \in Nat /\ views[a] <= views'[a]
  BY <1>1, <1>2
<1>7. CASE Accept
  <2>1. writePSN - views[a] < N - Slack /\ writePSN' = writePSN + 1
    BY <1>2, <1>7 DEF Accept, RingHasRoom
  <2>2. 2 * (views[a] - views[2]) <= (a - 2) + 1
    BY <1>1 DEF RateOK
  <2>3. views[a] - views[2] <= Slack
    BY <1>1, <1>3, <1>5, <1>6, <2>2
  <2>4. /\ writePSN + 1 < views'[a] + N /\ writePSN + 1 <= views[2] + N
        /\ writePSN + 1 <= views[1] + N + 1
    BY <1>3, <1>4, <1>5, <1>6, <2>1, <2>3
  <2> QED
    BY <1>2, <2>1, <2>4 DEF RoomOK
<1>8. CASE NoAccept(last)
  <2>1. writePSN' = writePSN
    BY <1>8 DEF NoAccept
  <2>2. /\ writePSN < views'[a] + N /\ writePSN <= views[2] + N
        /\ writePSN <= views[1] + N + 1
    BY <1>3, <1>4, <1>5, <1>6
  <2> QED
    BY <1>2, <2>1, <2>2 DEF RoomOK
<1> QED
  BY <1>7, <1>8 DEF TxWrite

LEMMA MarksStep ==
    ASSUME StatusInv, MarksOK, NEW last \in BOOLEAN, TxWrite(last)
    PROVE  MarksOK'
<1> DEFINE g == Gone("marks")
           m == Len(marks)
<1>1. marks \in Seq(Entries) /\ m \in Nat /\ (Served = "marks" => marks # <<>>)
  BY EntryTypes, ServedNotEmpty
<1>2. g \in {0, 1} /\ writePSN \in Nat
  BY OneServed DEF StatusInv, CursorsOK
<1>3. \A i \in 1 .. m : marks[i].psn = writePSN - m + i - 1
  BY DEF MarksOK
<1> HIDE DEF g, m
<1>4. CASE marks' = Left("marks", marks) /\ writePSN' = writePSN
  <2>1. /\ Len(marks') = m - g
        /\ \A i \in 1 .. m - g : i + g \in 1 .. m /\ marks'[i] = marks[i + g]
    BY <1>1, <1>4, LeftEntries DEF g, m
  <2>2. ASSUME NEW i \in 1 .. m - g PROVE marks'[i].psn = writePSN - (m - g) + i - 1
    <3>1. marks'[i].psn = writePSN - m + (i + g) - 1
      BY <1>3, <2>1
    <3>2. writePSN - m + (i + g) - 1 = writePSN - (m - g) + i - 1
      BY <1>1, <1>2
    <3> QED
      BY <3>1, <3>2
  <2> QED
    BY <1>4, <2>1, <2>2 DEF MarksOK
<1>5. CASE /\ HasSpace(marks) /\ writePSN' = writePSN + 1
           /\ marks' = Append(Left("marks", marks), Entry(writePSN, Sent))
  <2> DEFINE e == Entry(writePSN, Sent)
             left == Left("marks", marks)
  <2>1. /\ left \in Seq(Entries) /\ Len(left) = m - g /\ m - g \in Nat
        /\ \A i \in 1 .. m - g : i + g \in 1 .. m /\ left[i] = marks[i + g]
    BY <1>1, LeftEntries DEF g, m
  <2>2. e.psn = writePSN
    BY DEF Entry
  <2>3. left \in Seq(Entries \cup {e})
    BY <2>1, SeqMonotonic
  <2> HIDE DEF e, left
  <2>4. /\ Len(marks') = m - g + 1 /\ marks'[m - g + 1] = e
        /\ \A i \in 1 .. m - g : marks'[i] = left[i]
    <3>1. marks' = Append(left, e) /\ e \in Entries \cup {e}
      BY <1>5 DEF e, left
    <3> QED
      BY <2>1, <2>3, <3>1, AppendProperties
  <2>5. ASSUME NEW i \in 1 .. m - g + 1
        PROVE  marks'[i].psn = (writePSN + 1) - (m - g + 1) + i - 1
    <3>1. CASE i = m - g + 1
      <4>1. marks'[i].psn = writePSN
        BY <2>2, <2>4, <3>1
      <4>2. (writePSN + 1) - (m - g + 1) + i - 1 = writePSN
        BY <1>2, <2>1, <3>1
      <4> QED
        BY <4>1, <4>2
    <3>2. CASE i # m - g + 1
      <4>1. i \in 1 .. m - g
        BY <2>1, <3>2
      <4>2. marks'[i].psn = writePSN - m + (i + g) - 1
        BY <1>3, <2>1, <2>4, <4>1
      <4>3. writePSN - m + (i + g) - 1 = (writePSN + 1) - (m - g + 1) + i - 1
        BY <1>1, <1>2
      <4> QED
        BY <4>2, <4>3
    <3> QED
      BY <3>1, <3>2
  <2> QED
    BY <1>5, <2>4, <2>5 DEF MarksOK
<1> QED
  BY <1>4, <1>5, MarksMove

LEMMA LatesStep ==
    ASSUME StatusInv, PaceOK, Paced, LatesOK, NEW taken \in BOOLEAN, Walk(taken, Known),
           TimerStart \/ TimerMark \/ TimerRest
    PROVE  LatesOK'
<1> DEFINE g == Gone("lates")
           m == Len(lates)
           left == Left("lates", lates)
           r1 == readPSN'
<1>1. /\ left \in Seq(Entries) /\ Len(left) = m - g /\ m - g \in Nat
      /\ \A i \in 1 .. m - g : i + g \in 1 .. m /\ left[i] = lates[i + g]
  BY EntryTypes, ServedNotEmpty, LeftEntries
<1>2. readPSN \in Nat /\ r1 \in Nat /\ readPSN <= r1
  BY WalkPaces
<1>3. \A i \in 1 .. m : lates[i].psn \in Nat /\ lates[i].psn <= readPSN /\ lates[i].status = TimedOut
  BY EntryTypes DEF LatesOK
<1>4. \A i \in 1 .. m - g : left[i].psn <= r1 /\ left[i].status = TimedOut
  BY <1>1, <1>2, <1>3
<1> HIDE DEF g, m, left, r1
<1>5. \A i \in 1 .. Len(lates') : lates'[i].psn <= r1 /\ lates'[i].status = TimedOut
  <2>1. CASE lates' = left
    BY <1>1, <1>4, <2>1
  <2>2. CASE /\ timer # <<>> /\ HasSpace(lates) /\ Entry(Head(timer), TimedOut) \in Entries
             /\ lates' = Append(left, Entry(Head(timer), TimedOut))
    <3> DEFINE e == Entry(Head(timer), TimedOut)
    <3>1. e \in Entries /\ e.psn <= readPSN /\ e.status = TimedOut /\ e.psn \in Int
      BY <2>2 DEF LatesOK, Entry, Entries
    <3>2. lates' = Append(left, e)
      BY <2>2
    <3> HIDE DEF e
    <3>3. /\ Len(lates') = m - g + 1 /\ lates'[m - g + 1] = e
          /\ \A i \in 1 .. m - g : lates'[i] = left[i]
      BY <1>1, <3>1, <3>2, AppendProperties
    <3>4. e.psn <= r1
      BY <1>2, <3>1
    <3>5. ASSUME NEW i \in 1 .. m - g + 1 PROVE lates'[i].psn <= r1 /\ lates'[i].status = TimedOut
      <4>1. CASE i = m - g + 1
        BY <3>1, <3>3, <3>4, <4>1
      <4>2. CASE i # m - g + 1
        <5>1. i \in 1 .. m - g
          BY <1>1, <4>2
        <5> QED
          BY <1>4, <3>3, <5>1
      <4> QED
        BY <4>1, <4>2
    <3> QED
      BY <3>3, <3>5
  <2> QED
    BY <2>1, <2>2, LatesMove DEF left
<1>6. timer' # <<>> => Head(timer') <= r1
  <2>1. CASE TimerStart
    <3>1. timer' = <<SeenRead>> /\ SeenRead <= readPSN /\ SeenRead \in Nat
      BY <2>1, ViewsOrdered DEF TimerStart, StatusInv
    <3>2. Head(timer') = SeenRead
      BY <3>1
    <3>3. SeenRead <= r1
      BY <1>2, <3>1
    <3> QED
      BY <3>2, <3>3
  <2>2. CASE TimerMark
    BY <2>2 DEF TimerMark
  <2>3. CASE TimerRest
    <3>1. timer' = timer
      BY <2>3 DEF TimerRest
    <3>2. ASSUME timer # <<>> PROVE Head(timer) <= r1
      <4>1. PICK p \in 0 .. writePSN - 1 : timer = <<p>>
        BY <3>2 DEF StatusInv, WritesOK
      <4>2. writePSN \in Nat /\ Head(timer) = p /\ Head(timer) <= readPSN
        BY <3>2, <4>1 DEF LatesOK, StatusInv, CursorsOK
      <4> QED
        BY <1>2, <4>2
    <3> QED
      BY <3>1, <3>2
  <2> QED
    BY <2>1, <2>2, <2>3
<1> QED
  BY <1>5, <1>6 DEF LatesOK, r1

LEMMA CellsStep ==
    ASSUME StatusInv, CellsOK, RamWrite
    PROVE  CellsOK'
<1>1. \A s \in 0 .. N - 1 : ram'[s].psn = -1 \/ (ram'[s].psn \in Nat /\ Slot(ram'[s].psn) = s)
  BY RamAt
<1> QED
  BY <1>1 DEF CellsOK, Slot

\* The lead of the walk over a write that is in time.
LEMMA InTimeNear ==
    ASSUME StatusInv, PaceOK, Paced, NEW q \in Nat, NEW work \in Nat, work >= 1, InTime(q, work)
    PROVE  readPSN < q + N
<1>1. /\ N \in Nat /\ QueueCap \in Nat /\ Views \in Nat /\ 6 * QueueCap + Views + 6 <= 2 * N
  BY Sizes DEF Views, Paced
<1>2. Owed \in Nat
  BY DuePasses DEF PaceOK, Owed
<1>3. readPSN \in Nat /\ Walked \in Int /\ 2 * readPSN <= Walked + 1
  BY DEF Walked, StatusInv, CursorsOK
<1>4. 4 * work + Owed + 2 * Walked <= 4 * q + (12 * QueueCap + 12 + 2 * Views)
  BY DEF InTime, Allowance
<1>5. 4 + 2 * Walked <= 4 * q + (12 * QueueCap + 12 + 2 * Views)
  BY ONLY <1>1, <1>2, <1>3, <1>4, q \in Nat, work \in Nat, work >= 1
<1>6. 4 * readPSN <= 2 * Walked + 2
  BY <1>3
<1>7. 12 * QueueCap + 12 + 2 * Views <= 4 * N
  BY <1>1
<1>8. 4 * readPSN + 2 <= 4 * q + 4 * N
  BY <1>1, <1>3, <1>5, <1>6, <1>7
<1> QED
  BY <1>1, <1>3, <1>8

\* What is written next is not about a packet a round after one the walk is near to.
LEMMA NoneAfterNear ==
    ASSUME StatusInv, CellsOK, LatesOK, ClearsOK, RamWrite, Serve, NEW q \in Nat,
           readPSN < q + N, NoneAfter(q, ram, delayed), answers # <<>> \/ clears # <<>>,
           answers # <<>> /\ Served = "answers" => answers[1].psn < q + N
    PROVE  NoneAfter(q, ram', delayed')
<1>1. readPSN \in Nat /\ N \in Nat
  BY Sizes DEF StatusInv, CursorsOK
<1>2. ASSUME NEW e \in Entries, e.psn < q + N PROVE Slot(e.psn) = Slot(q) => e.psn <= q
  <2>1. e.psn \in Nat
    BY DEF Entries, StatusInv, CursorsOK
  <2> QED
    BY <1>2, <2>1, SameSlot
<1>3. ASSUME NEW queue \in {marks, answers, clears, lates}, queue # <<>>
      PROVE  1 \in 1 .. Len(queue) /\ queue[1] \in Entries /\ queue[1].psn \in Nat
  <2>1. queue \in Seq(Entries) /\ Len(queue) \in Nat
    BY EntryTypes
  <2>2. 1 \in 1 .. Len(queue)
    BY <1>3, <2>1, EmptySeq
  <2> QED
    BY <2>2, EntryTypes
<1>4. ASSUME NEW e \in Entries, e.psn < q + N, delayed' = <<e>>
      PROVE  NoneAfter(q, ram', delayed')
  <2>1. Head(delayed') = e
    BY <1>4
  <2>2. delayed' # <<>> /\ Slot(Head(delayed').psn) = Slot(q) => Head(delayed').psn <= q
    BY <1>2, <1>4, <2>1
  <2> QED
    BY <2>2, NoneAfterStays
<1>5. CASE delayed' = <<>>
  BY <1>5, NoneAfterStays
<1>6. CASE lates # <<>> /\ delayed' = <<lates[1]>>
  <2>1. lates[1].psn <= readPSN
    BY <1>3, <1>6 DEF LatesOK
  <2>2. lates[1].psn < q + N
    BY <1>1, <1>3, <1>6, <2>1
  <2> QED
    BY <1>3, <1>4, <1>6, <2>2
<1>7. CASE clears # <<>> /\ delayed' = <<clears[1]>>
  <2>1. clears[1].psn < readPSN
    BY <1>3, <1>7 DEF ClearsOK
  <2>2. clears[1].psn < q + N
    BY <1>1, <1>3, <1>7, <2>1
  <2> QED
    BY <1>3, <1>4, <1>7, <2>2
<1>8. CASE answers # <<>> /\ Served = "answers" /\ delayed' = <<answers[1]>>
  BY <1>3, <1>4, <1>8
<1> QED
  BY <1>5, <1>6, <1>7, <1>8, DelayedNext

\* The bound of InTime for a waiting write: when one clock takes off the writes in
\* front of it and off the walk no less than it adds, the bound still holds.
LEMMA BoundStays ==
    ASSUME NEW ahead \in Int, NEW owe \in Int, NEW walk \in Int,
           NEW ahead1 \in Int, NEW owe1 \in Int, NEW walk1 \in Int,
           NEW place \in Int, NEW left \in Int, NEW limit \in Int,
           4 * ahead1 + owe1 + 2 * walk1 <= 4 * ahead + owe + 2 * walk + 4 * left,
           4 * (ahead + (place + left)) + owe + 2 * walk <= limit
    PROVE  4 * (ahead1 + place) + owe1 + 2 * walk1 <= limit
BY SMT

\* A packet whose room is not given away yet: nothing is newer in its slot.
LEMMA ClearsStep ==
    ASSUME StatusInv, PaceOK, Paced, RoomOK, CellsOK, LatesOK, ClearsOK,
           NEW last \in BOOLEAN, NEW taken \in BOOLEAN, Clock(last, taken)
    PROVE  ClearsOK'
<1> DEFINE g == Gone("clears")
           m == Len(clears)
           left == Left("clears", clears)
           r1 == readPSN'
           w1 == Walked'
           o1 == Owed'
           l1 == Len(lates')
<1>1. Serve /\ RamWrite /\ Walk(taken, Known) /\ (TimerStart \/ TimerMark \/ TimerRest)
  BY DEF Clock
<1>2. /\ left \in Seq(Entries) /\ Len(left) = m - g /\ m - g \in Nat /\ m \in Nat /\ g \in {0, 1}
      /\ \A i \in 1 .. m - g : i + g \in 1 .. m /\ left[i] = clears[i + g]
  BY EntryTypes, ServedNotEmpty, LeftEntries, OneServed
<1>3. readPSN \in Nat /\ r1 \in Nat /\ readPSN <= r1 /\ Walked \in Int /\ w1 \in Int /\ w1 <= 2 * r1
  BY <1>1, WalkPaces
<1>4. /\ o1 \in 0 .. 8 /\ Owed \in 0 .. 8 /\ l1 \in 0 .. QueueCap /\ Len(clears') \in 0 .. QueueCap
      /\ clears # <<>> => 4 * l1 + o1 + 2 * w1 <= 4 * Len(lates) + Owed + 2 * Walked + 4 * g
  BY <1>1, WaitsShrink
<1>5. QueueCap \in Nat /\ Views \in Nat /\ N \in Nat /\ QueueCap >= 1 /\ Allowance \in Nat
      /\ Allowance = 12 * QueueCap + 12 + 2 * Views
  BY Sizes DEF Views, Allowance
<1>6. /\ \A i \in 1 .. m : clears[i].psn \in Nat
      /\ Len(lates) \in Nat
  BY EntryTypes
<1> HIDE DEF g, m, left, r1, w1, o1, l1
<1> DEFINE Good(q, i) ==
              NoneAfter(q, ram', delayed') /\ q < r1 /\ 4 * (l1 + i) + o1 + 2 * w1 <= 4 * q + Allowance
<1>7. ASSUME NEW i \in 1 .. m - g PROVE Good(left[i].psn, i)
  <2> DEFINE j == i + g
             q == clears[j].psn
  <2>0. j \in Nat /\ j >= 1
    BY <1>2
  <2>1. j \in 1 .. m /\ left[i] = clears[j] /\ q \in Nat /\ j = i + g
    BY <1>2, <1>6
  <2>2. NoneAfter(q, ram, delayed) /\ q < readPSN /\ InTime(q, Len(lates) + j)
    BY <2>1 DEF ClearsOK, m
  <2>3. clears # <<>>
    BY <1>2, <2>1 DEF m
  <2> HIDE DEF j, q
  <2>4. Len(lates) + j \in Nat /\ Len(lates) + j >= 1
    BY <1>6, <2>0
  <2>5. readPSN < q + N
    BY <2>1, <2>2, <2>4, InTimeNear
  <2>6. NoneAfter(q, ram', delayed')
    <3>1. ~(answers # <<>> /\ Served = "answers")
      BY <2>3 DEF Served
    <3> QED
      BY <1>1, <2>1, <2>2, <2>3, <2>5, <3>1, NoneAfterNear
  <2>7. q < r1
    BY <1>3, <2>1, <2>2
  <2>8. 4 * (l1 + i) + o1 + 2 * w1 <= 4 * q + Allowance
    <3>1. 4 * (Len(lates) + j) + Owed + 2 * Walked <= 4 * q + Allowance
      BY <2>2 DEF InTime
    <3>2. /\ i \in Int /\ g \in Int /\ 4 * q + Allowance \in Int
          /\ l1 \in Int /\ Len(lates) \in Int /\ o1 \in Int /\ Owed \in Int
      BY <1>2, <1>4, <1>5, <1>6, <2>1
    <3>3. 4 * (Len(lates) + (i + g)) + Owed + 2 * Walked <= 4 * q + Allowance
      BY <2>1, <3>1
    <3>4. 4 * l1 + o1 + 2 * w1 <= 4 * Len(lates) + Owed + 2 * Walked + 4 * g
      BY <1>4, <2>3
    <3> QED
      BY <1>3, <3>2, <3>3, <3>4, BoundStays
  <2> QED
    BY <2>1, <2>6, <2>7, <2>8 DEF q
<1>8. CASE clears' = left
  <2>1. \A i \in 1 .. Len(clears') : Good(clears'[i].psn, i)
    BY <1>2, <1>7, <1>8
  <2> QED
    BY <2>1 DEF ClearsOK, InTime, NoneAfter, Allowance, Views, Slot, r1, w1, o1, l1
<1>9. CASE /\ readPSN >= 1 /\ readPSN' = readPSN
           /\ clears' = Append(left, Entry(readPSN - 1, Acked))
  <2> DEFINE e == Entry(readPSN - 1, Acked)
             q == readPSN - 1
  <2>1. q \in Nat /\ e.psn = q /\ readPSN = q + 1 /\ r1 = readPSN
    BY <1>3, <1>9 DEF Entry, r1
  <2>2. writePSN <= q + N
    <3>1. /\ writePSN \in Nat /\ SeenRead \in Nat /\ SeenRead <= readPSN /\ writePSN < SeenRead + N
      BY ViewsOrdered DEF StatusInv, CursorsOK, RoomOK
    <3> QED
      BY <1>3, <1>5, <2>1, <3>1
  <2>3. left \in Seq(Entries \cup {e}) /\ e \in Entries \cup {e}
    BY <1>2, SeqMonotonic
  <2>4. clears' = Append(left, e)
    BY <1>9
  <2> HIDE DEF e, q
  <2>5. /\ Len(clears') = m - g + 1 /\ clears'[m - g + 1] = e
        /\ \A i \in 1 .. m - g : clears'[i] = left[i]
    BY <1>2, <2>3, <2>4, AppendProperties
  <2>6. NoneAfter(q, ram', delayed')
    BY <1>1, <2>1, <2>2, NoneAfterFar
  <2>7. 4 * (l1 + (m - g + 1)) + o1 + 2 * w1 <= 4 * q + Allowance
    <3>1. m - g + 1 <= QueueCap
      BY <1>2, <1>4, <1>5, <2>5
    <3> QED
      BY <1>2, <1>3, <1>4, <1>5, <2>1, <3>1
  <2>8. q < r1
    BY <1>3, <2>1
  <2>9. ASSUME NEW i \in 1 .. m - g + 1 PROVE Good(clears'[i].psn, i)
    <3>1. CASE i = m - g + 1
      BY <2>1, <2>5, <2>6, <2>7, <2>8, <3>1
    <3>2. CASE i # m - g + 1
      <4>1. i \in 1 .. m - g
        BY <1>2, <3>2
      <4> QED
        BY <1>7, <2>5, <4>1
    <3> QED
      BY <3>1, <3>2
  <2> QED
    BY <2>5, <2>9 DEF ClearsOK, InTime, NoneAfter, Allowance, Views, Slot, r1, w1, o1, l1
<1> QED
  BY <1>1, <1>8, <1>9, ClearsMove DEF left

LEMMA AnswersStep ==
    ASSUME StatusInv, PaceOK, Paced, RateOK, RoomOK, CellsOK, LatesOK, ClearsOK, AnswersOK,
           NEW last \in BOOLEAN, NEW taken \in BOOLEAN, Clock(last, taken)
    PROVE  AnswersOK'
<1> DEFINE g == Gone("answers")
           m == Len(answers)
           left == Left("answers", answers)
           w1 == Walked'
           o1 == Owed'
           l1 == Len(lates')
           c1 == Len(clears')
<1>1. /\ Serve /\ RamWrite /\ Walk(taken, Known) /\ TxWrite(last) /\ Respond
      /\ TimerStart \/ TimerMark \/ TimerRest
  BY DEF Clock
<1>2. /\ left \in Seq(Entries) /\ Len(left) = m - g /\ m - g \in Nat /\ m \in Nat /\ g \in {0, 1}
      /\ \A i \in 1 .. m - g : i + g \in 1 .. m /\ left[i] = answers[i + g]
  BY EntryTypes, ServedNotEmpty, LeftEntries, OneServed
<1>3. Walked \in Int /\ w1 \in Int /\ w1 <= Walked + 1
  BY <1>1, WalkPaces
<1>4. /\ o1 \in 0 .. 8 /\ Owed \in 0 .. 8 /\ l1 \in 0 .. QueueCap /\ c1 \in 0 .. QueueCap
      /\ answers # <<>> =>
            4 * (l1 + c1) + o1 + 2 * w1
               <= 4 * (Len(lates) + Len(clears)) + Owed + 2 * Walked + 4 * g
  BY <1>1, WaitsShrink
<1>5. QueueCap \in Nat /\ Views \in Nat /\ N \in Nat /\ QueueCap >= 1 /\ Allowance \in Nat
      /\ Allowance = 12 * QueueCap + 12 + 2 * Views
  BY Sizes DEF Views, Allowance
<1>6. /\ \A i \in 1 .. m : answers[i].psn \in Nat /\ answers[i].psn < writePSN
      /\ Len(lates) \in Nat /\ Len(clears) \in Nat /\ m <= QueueCap
  BY EntryTypes
<1> HIDE DEF g, m, left, w1, o1, l1, c1
<1> DEFINE Good(q, i) ==
              /\ NoneAfter(q, ram', delayed')
              /\ 4 * (l1 + c1 + i) + o1 + 2 * w1 <= 4 * q + Allowance
<1>7. ASSUME NEW i \in 1 .. m - g PROVE Good(left[i].psn, i)
  <2> DEFINE j == i + g
             q == answers[j].psn
  <2>1. j \in Nat /\ j >= 1
    BY <1>2
  <2>2. j \in 1 .. m /\ left[i] = answers[j] /\ q \in Nat /\ j = i + g
    BY <1>2, <1>6
  <2>3. NoneAfter(q, ram, delayed) /\ InTime(q, Len(lates) + Len(clears) + j)
    BY <2>2 DEF AnswersOK, m
  <2>4. answers # <<>>
    BY <1>2, <2>2 DEF m
  <2>5. answers # <<>> /\ Served = "answers" => answers[1].psn < q + N
    <3>1. ASSUME Served = "answers" PROVE 1 \in 1 .. m /\ 1 < j
      <4>1. g = 1
        BY <3>1 DEF g, Gone
      <4> QED
        BY <1>2, <2>2, <4>1
    <3> QED
      BY <2>2, <3>1 DEF AnswersOK, m
  <2> HIDE DEF j, q
  <2>6. Len(lates) + Len(clears) + j \in Nat /\ Len(lates) + Len(clears) + j >= 1
    BY <1>6, <2>1
  <2>7. readPSN < q + N
    BY <2>2, <2>3, <2>6, InTimeNear
  <2>8. NoneAfter(q, ram', delayed')
    BY <1>1, <2>2, <2>3, <2>4, <2>5, <2>7, NoneAfterNear
  <2>9. 4 * (l1 + c1 + i) + o1 + 2 * w1 <= 4 * q + Allowance
    <3>1. 4 * (Len(lates) + Len(clears) + j) + Owed + 2 * Walked <= 4 * q + Allowance
      BY <2>3 DEF InTime
    <3>2. /\ i \in Int /\ g \in Int /\ 4 * q + Allowance \in Int
          /\ l1 + c1 \in Int /\ Len(lates) + Len(clears) \in Int /\ o1 \in Int /\ Owed \in Int
      BY <1>2, <1>4, <1>5, <1>6, <2>2
    <3>3. 4 * (Len(lates) + Len(clears) + (i + g)) + Owed + 2 * Walked <= 4 * q + Allowance
      BY <2>2, <3>1
    <3>4. 4 * (l1 + c1) + o1 + 2 * w1
             <= 4 * (Len(lates) + Len(clears)) + Owed + 2 * Walked + 4 * g
      BY <1>4, <2>4
    <3> QED
      BY <1>3, <3>2, <3>3, <3>4, BoundStays
  <2> QED
    BY <2>2, <2>8, <2>9 DEF q
<1>8. ASSUME NEW i \in 1 .. m - g, NEW j \in 1 .. m - g, i < j
      PROVE  left[i].psn < left[j].psn + N
  <2>1. i + g \in 1 .. m /\ j + g \in 1 .. m /\ i + g < j + g
    BY <1>2, <1>8
  <2>2. answers[i + g].psn < answers[j + g].psn + N
    BY <2>1 DEF AnswersOK, m
  <2> QED
    BY <1>2, <2>2
<1>9. CASE answers' = left
  <2>1. \A i \in 1 .. Len(answers') : Good(answers'[i].psn, i)
    BY <1>2, <1>7, <1>9
  <2>2. \A i, j \in 1 .. Len(answers') : i < j => answers'[i].psn < answers'[j].psn + N
    BY <1>2, <1>8, <1>9
  <2> QED
    BY <2>1, <2>2 DEF AnswersOK, InTime, NoneAfter, Allowance, Views, Slot, w1, o1, l1, c1
<1>10. ASSUME NEW q \in Nat, NEW st \in Status, HasSpace(answers), TestedRead <= q,
              Entry(q, st) \in Entries, answers' = Append(left, Entry(q, st))
       PROVE  AnswersOK'
  <2> DEFINE e == Entry(q, st)
  <2>1. e \in Entries /\ e.psn = q /\ answers' = Append(left, e)
    BY <1>10 DEF Entry
  <2> HIDE DEF e
  <2>2. /\ Len(answers') = m - g + 1 /\ answers'[m - g + 1] = e
        /\ \A i \in 1 .. m - g : answers'[i] = left[i]
    BY <1>2, <2>1, AppendProperties
  <2>3. /\ writePSN \in Nat /\ TestedRead \in Nat /\ TestedRead = views[1] /\ writePSN <= TestedRead + N
    BY <1>1, ViewsOrdered, ViewsMove DEF StatusInv, CursorsOK, RoomOK
  <2>4. writePSN <= q + N
    BY <1>5, <1>10, <2>3
  <2>5. NoneAfter(q, ram', delayed')
    BY <1>1, <2>4, NoneAfterFar
  <2>6. 4 * (l1 + c1 + (m - g + 1)) + o1 + 2 * w1 <= 4 * q + Allowance
    <3>1. m - g + 1 <= QueueCap
      BY <1>2, <1>5, <1>10 DEF HasSpace, m
    <3>2. Walked - 2 * TestedRead <= Views - 1 + 2
      <4>1. 1 \in 1 .. Views
        BY <1>1, ViewsMove
      <4> QED
        BY <2>3, <4>1 DEF RateOK
    <3>3. 2 * w1 <= 4 * q + 2 * Views + 4
      BY <1>3, <1>5, <1>10, <2>3, <3>2
    <3>4. 4 * (l1 + c1 + (m - g + 1)) <= 12 * QueueCap
      BY <1>2, <1>4, <1>5, <3>1
    <3> QED
      BY <1>2, <1>3, <1>4, <1>5, <3>3, <3>4
  <2>7. ASSUME NEW i \in 1 .. m - g + 1 PROVE Good(answers'[i].psn, i)
    <3>1. CASE i = m - g + 1
      BY <2>1, <2>2, <2>5, <2>6, <3>1
    <3>2. CASE i # m - g + 1
      <4>1. i \in 1 .. m - g
        BY <1>2, <3>2
      <4> QED
        BY <1>7, <2>2, <4>1
    <3> QED
      BY <3>1, <3>2
  <2>8. ASSUME NEW i \in 1 .. m - g + 1, NEW j \in 1 .. m - g + 1, i < j
        PROVE  answers'[i].psn < answers'[j].psn + N
    <3>1. i \in 1 .. m - g
      BY <1>2, <2>8
    <3>2. CASE j = m - g + 1
      <4>1. answers'[i].psn \in Nat /\ answers'[i].psn < writePSN
        BY <1>2, <1>6, <2>2, <3>1
      <4>2. answers'[j].psn = q
        BY <2>1, <2>2, <3>2
      <4>3. answers'[i].psn < q + N
        BY <1>5, <2>3, <2>4, <4>1
      <4> QED
        BY <4>2, <4>3
    <3>3. CASE j # m - g + 1
      <4>1. j \in 1 .. m - g
        BY <1>2, <3>3
      <4> QED
        BY <1>8, <2>2, <2>8, <3>1, <4>1
    <3> QED
      BY <3>2, <3>3
  <2> QED
    BY <2>2, <2>7, <2>8 DEF AnswersOK, InTime, NoneAfter, Allowance, Views, Slot, w1, o1, l1, c1
<1> QED
  BY <1>1, <1>9, <1>10, AnswersMove DEF left

LEMMA NewestStep ==
    ASSUME StatusInv, Paced, RoomOK, MarksOK, LatesOK, CellsOK, AnswersOK, ClearsOK,
           Serve, RamWrite
    PROVE  NewestStays'
<1>1. /\ writePSN \in Nat /\ N \in Nat /\ QueueCap \in Nat /\ Views \in Nat
      /\ 6 * QueueCap + Views + 6 <= 2 * N
  BY Sizes DEF StatusInv, CursorsOK, Paced, Views
<1>2. ASSUME NEW queue \in {marks, answers, clears, lates}, queue # <<>>
      PROVE  1 \in 1 .. Len(queue) /\ queue[1].psn \in Nat /\ queue[1].psn < writePSN
             /\ Len(queue) \in Nat /\ Len(queue) <= QueueCap
  <2>1. queue \in Seq(Entries) /\ Len(queue) \in Nat
    BY EntryTypes
  <2>2. 1 \in 1 .. Len(queue)
    BY <1>2, <2>1, EmptySeq
  <2> QED
    BY <2>2, EntryTypes
<1>3. ASSUME NEW e, e.psn \in Nat, delayed' = <<e>>, ram'[Slot(e.psn)].psn <= e.psn
      PROVE  NewestStays'
  <2>1. Head(delayed') = e
    BY <1>3
  <2>2. Slot(e.psn) \in 0 .. N - 1
    BY <1>3, SlotTypes
  <2>3. ram'[Slot(e.psn)].psn \in Int
    BY <2>2, RamAt
  <2>4. e.psn >= ram'[Slot(e.psn)].psn
    BY <1>3, <2>3
  <2> QED
    BY <2>1, <2>4 DEF NewestStays, Slot
<1>4. ASSUME NEW q \in Nat, NoneAfter(q, ram, delayed) PROVE ram'[Slot(q)].psn <= q
  <2>1. NoneAfter(q, ram', <<>>)
    BY <1>4, NoneAfterStays
  <2> QED
    BY <2>1 DEF NoneAfter
<1>5. CASE delayed' = <<>>
  BY <1>5 DEF NewestStays
<1>6. CASE lates # <<>> /\ delayed' = <<lates[1]>>
  <2>1. Head(delayed') = lates[1] /\ lates[1].status = TimedOut
    BY <1>2, <1>6 DEF LatesOK
  <2> QED
    BY <2>1 DEF NewestStays
<1>7. CASE clears # <<>> /\ delayed' = <<clears[1]>>
  <2>1. NoneAfter(clears[1].psn, ram, delayed)
    BY <1>2, <1>7 DEF ClearsOK
  <2> QED
    BY <1>2, <1>3, <1>4, <1>7, <2>1
<1>8. CASE answers # <<>> /\ delayed' = <<answers[1]>>
  <2>1. NoneAfter(answers[1].psn, ram, delayed)
    BY <1>2, <1>8 DEF AnswersOK
  <2> QED
    BY <1>2, <1>3, <1>4, <1>8, <2>1
<1>9. CASE marks # <<>> /\ delayed' = <<marks[1]>>
  <2> DEFINE q == marks[1].psn
  <2>1. q \in Nat /\ q = writePSN - Len(marks) + 1 - 1 /\ Len(marks) \in Nat /\ Len(marks) <= QueueCap
    BY <1>2, <1>9 DEF MarksOK
  <2> HIDE DEF q
  <2>2. writePSN <= q + N
    BY <1>1, <2>1
  <2>3. NoneAfter(q, ram', delayed')
    BY <2>1, <2>2, NoneAfterFar
  <2>4. ram'[Slot(q)].psn <= q
    BY <2>3 DEF NoneAfter
  <2> QED
    BY <1>2, <1>3, <1>9, <2>4 DEF q
<1> QED
  BY <1>5, <1>6, <1>7, <1>8, <1>9, DelayedNext

LEMMA NewestInvInit == Paced /\ StatusInit => NewestInv
<1> SUFFICES ASSUME Paced, StatusInit PROVE NewestInv
  OBVIOUS
<1>1. StatusInv
  BY StatusInvInit
<1>2. /\ writePSN = 0 /\ readPSN = 0 /\ phase = 0 /\ copying = 0 /\ resting = 0
      /\ marks = <<>> /\ answers = <<>> /\ clears = <<>> /\ lates = <<>> /\ delayed = <<>>
      /\ timer = <<>> /\ views = Row(Views, 0)
      /\ ram = [s \in 0 .. N - 1 |-> Entry(-1, Acked)]
  BY DEF StatusInit, Views
<1>3. /\ Views \in Nat \ {0} /\ 1 \in 1 .. Views /\ AnswerDelay + 1 \in 1 .. Views
      /\ N \in Nat \ {0}
      /\ views = Row(Views, 0)
  BY <1>2, Sizes DEF Views
<1>4. \A i \in 1 .. Views : views[i] = 0
  BY <1>3 DEF Row
<1>5. PaceOK /\ MarksOK /\ LatesOK /\ AnswersOK /\ ClearsOK /\ NewestStays
  BY <1>2 DEF PaceOK, MarksOK, LatesOK, AnswersOK, ClearsOK, NewestStays
<1>6. RateOK
  BY <1>2, <1>3, <1>4 DEF RateOK, Walked
<1>7. RoomOK
  <2>1. SeenRead = 0 /\ TestedRead = 0
    BY <1>3, <1>4 DEF SeenRead, TestedRead
  <2> QED
    BY <1>2, <1>3, <2>1 DEF RoomOK
<1>8. CellsOK
  BY <1>2 DEF CellsOK, Entry
<1> QED
  BY <1>5, <1>6, <1>7, <1>8 DEF NewestInv

LEMMA NewestInvStep ==
    Paced /\ StatusInv /\ NewestInv /\ [StatusNext]_statusVars => NewestInv'
<1>1. ASSUME Paced, StatusInv, NewestInv, NEW last \in BOOLEAN, NEW taken \in BOOLEAN,
             Clock(last, taken)
      PROVE  NewestInv'
  <2>1. /\ PaceOK /\ RateOK /\ RoomOK /\ MarksOK /\ LatesOK /\ CellsOK /\ AnswersOK /\ ClearsOK
    BY <1>1 DEF NewestInv
  <2>2. /\ Serve /\ RamWrite /\ Walk(taken, Known) /\ TxWrite(last) /\ Respond
        /\ TimerStart \/ TimerMark \/ TimerRest
    BY <1>1 DEF Clock
  <2>3. PaceOK'
    BY <1>1, <2>1, <2>2, ClearsMove, LatesMove DEF PaceOK
  <2>4. RateOK' /\ RoomOK'
    BY <1>1, <2>1, <2>2, RateStep, RoomStep
  <2>5. MarksOK' /\ LatesOK' /\ CellsOK'
    BY <1>1, <2>1, <2>2, MarksStep, LatesStep, CellsStep
  <2>6. ClearsOK'
    BY <1>1, <2>1, ClearsStep
  <2>7. AnswersOK'
    BY <1>1, <2>1, AnswersStep
  <2>8. NewestStays'
    BY <1>1, <2>1, <2>2, NewestStep
  <2> QED
    BY <2>3, <2>4, <2>5, <2>6, <2>7, <2>8 DEF NewestInv
<1>2. ASSUME NewestInv, UNCHANGED statusVars PROVE NewestInv'
  <2>1. UNCHANGED <<writePSN, readPSN, phase, copying, resting, marks, answers, clears, lates,
                    delayed, ram, timer, views>>
    BY <1>2 DEF statusVars, txVars, walkVars, timerVars
  <2>2. UNCHANGED <<Owed, Walked>>
    BY <2>1 DEF Owed, Walked
  <2> QED
    BY <1>2, <2>1, <2>2 DEF NewestInv, PaceOK, RateOK, RoomOK, MarksOK, LatesOK, CellsOK, AnswersOK,
          ClearsOK, NewestStays, NoneAfter, InTime, Allowance, Views, Slot, SeenRead, TestedRead
<1> QED
  BY <1>1, <1>2 DEF StatusNext

\* No answer and no clear is put on a packet of a later round, however long the RAM
\* keeps it waiting for the two writers before it: for all lengths of the ring and of
\* the queues and all paces that are Paced.
THEOREM NewestWins == ASSUME Paced PROVE StatusSpec => []NewestStays
<1>1. StatusInit => NewestInv
  BY Paced, NewestInvInit
<1>2. StatusInv /\ NewestInv /\ [StatusNext]_statusVars => NewestInv'
  BY Paced, NewestInvStep
<1>3. NewestInv => NewestStays
  BY DEF NewestInv
<1> QED
  BY <1>1, <1>2, <1>3, StatusInvHolds, PTL DEF StatusSpec

-----------------------------------------------------------------------------
(* The read path.                                                          *)

BramTypeOK ==
    /\ mem \in [Address -> Data]
    /\ latchA \in Data /\ outA \in Data /\ latchB \in Data /\ outB \in Data
    /\ writeRow \in Address \X Address /\ readRow \in Address \X Address
    /\ stage \in {0, 1} /\ reading \in Address

\* In the clock after the read the data are in the latch of the port that the bypass
\* will choose, and the addresses in the younger half of the rows.
ReadUnderWay ==
    stage = 1 /\ ~blocked =>
        /\ readRow[2] = reading
        /\ held = IF readRow[2] = writeRow[2] THEN latchA ELSE latchB

ReadInv == BramTypeOK /\ ReadUnderWay /\ ReadIsCurrent

LEMMA ReadTyped == BramTypeOK /\ [ReadNext]_readVars => BramTypeOK'
<1>1. ASSUME BramTypeOK,
             NEW we \in BOOLEAN, NEW ce0 \in BOOLEAN, NEW addra \in Address,
             NEW address0 \in Address, NEW dina \in Data,
             Bram(we, addra, dina, address0, ce0), Reader(address0, ce0)
      PROVE  BramTypeOK'
  <2>1. mem' \in [Address -> Data] /\ latchA' \in Data /\ outA' \in Data
    BY <1>1 DEF BramTypeOK, Bram, PortA
  <2>2. latchB' \in Data /\ outB' \in Data
    BY <1>1 DEF BramTypeOK, Bram, PortB
  <2>3. writeRow' \in Address \X Address /\ readRow' \in Address \X Address
    BY <1>1 DEF BramTypeOK, Bram, Rows
  <2>4. stage' \in {0, 1} /\ reading' \in Address
    BY <1>1 DEF BramTypeOK, Reader, Stage0, Stage1, Blocked
  <2> QED
    BY <2>1, <2>2, <2>3, <2>4 DEF BramTypeOK
<1>2. ASSUME BramTypeOK, UNCHANGED readVars PROVE BramTypeOK'
  BY <1>2 DEF BramTypeOK, readVars, bramVars
<1> QED
  BY <1>1, <1>2 DEF ReadNext

LEMMA ReadInvStep == ReadInv /\ [ReadNext]_readVars => ReadInv'
<1>1. ASSUME ReadInv,
             NEW we \in BOOLEAN, NEW ce0 \in BOOLEAN, NEW addra \in Address,
             NEW address0 \in Address, NEW dina \in Data,
             Bram(we, addra, dina, address0, ce0), Reader(address0, ce0)
      PROVE  ReadUnderWay' /\ ReadIsCurrent'
  <2>1. CASE ce0 /\ Stage0(address0)
    <3>1. stage' = 1 /\ reading' = address0 /\ readRow'[2] = address0 /\ writeRow'[2] = addra
      BY <1>1, <2>1 DEF Stage0, Bram, Rows
    <3>2. latchA' = held' \/ addra # address0
      BY <1>1, <2>1 DEF Stage0, Bram, PortA, Ena
    <3>3. ASSUME addra # address0 PROVE latchB' = held'
      <4>1. mem'[address0] = mem[address0]
        BY <1>1, <3>3 DEF Bram, PortA, ReadInv, BramTypeOK
      <4> QED
        BY <1>1, <2>1, <3>3, <4>1 DEF Stage0, Bram, PortB
    <3> QED
      BY <3>1, <3>2, <3>3 DEF ReadUnderWay, ReadIsCurrent
  <2>2. CASE ce0 /\ Stage1(address0)
    <3>1. stage = 1 /\ stage' = 0 /\ blocked' = blocked /\ held' = held
      BY <2>2 DEF Stage1
    <3>2. outA' = latchA /\ outB' = latchB
      BY <1>1, <2>2 DEF Bram, PortA, PortB, Ena
    <3>3. readRow'[1] = readRow[2] /\ writeRow'[1] = writeRow[2]
      BY <1>1 DEF Bram, Rows
    <3> QED
      BY <1>1, <3>1, <3>2, <3>3 DEF ReadInv, ReadUnderWay, ReadIsCurrent, Q0
  <2>3. CASE ~ce0
    BY <1>1, <2>3 DEF Reader, Blocked, ReadUnderWay, ReadIsCurrent
  <2> QED
    BY <1>1, <2>1, <2>2, <2>3 DEF Reader
<1>2. ASSUME ReadInv, UNCHANGED readVars PROVE ReadUnderWay' /\ ReadIsCurrent'
  BY <1>2 DEF ReadInv, ReadUnderWay, ReadIsCurrent, Q0, readVars, bramVars
<1> QED
  BY <1>1, <1>2, ReadTyped DEF ReadNext, ReadInv

\* For any slots, values and writes, and any address on an idle write port, the status
\* that stage 0 takes without having been blocked is the one its slot held at the end
\* of the clock of the read: bram_wrapper.v compares addresses as old as the data.
THEOREM ReadsAreCurrent == ReadSpec => []ReadIsCurrent
<1>1. ReadInit => ReadInv
  BY DEF ReadInit, BramInit, ReadInv, BramTypeOK, ReadUnderWay, ReadIsCurrent
<1>2. ReadInv /\ [ReadNext]_readVars => ReadInv'
  BY ReadInvStep
<1>3. ReadInv => ReadIsCurrent
  BY DEF ReadInv
<1> QED
  BY <1>1, <1>2, <1>3, PTL DEF ReadSpec
=============================================================================
