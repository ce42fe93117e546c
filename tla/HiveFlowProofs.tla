--------------------------- MODULE HiveFlowProofs ---------------------------
(***************************************************************************)
(* What holds of HiveFlow for every number of destinations, every ring     *)
(* size, every workload and every pattern of losses, reordering and        *)
(* timeouts.  The parts of the invariant are proved one after the other:   *)
(* types, cursors and grants (RingInv), header and payload streams         *)
(* (InStep), the numbering of the copies (StreamInv); then what the bounds *)
(* of RingInv mean for the slots: two PSNs in use never share one, and the *)
(* registers of the code tell all of them apart.                           *)
(*                                                                         *)
(* Why no packet is lost: an acknowledgment that reaches a slot is always  *)
(* one for the packet stored there (AnswerInv), so a slot is given up only *)
(* after its packet has been delivered (NothingLost).  Then the engine,    *)
(* the network and the receivers implement ReliableChannel: every step     *)
(* takes a packet from a kernel, or passes the next one on, or changes     *)
(* nothing a kernel can see.                                               *)
(***************************************************************************)
EXTENDS HiveFlowInv, HiveFlowWidth, PsnArithProofs, SequenceTheorems, FiniteSetTheorems, TLAPS

LEMMA AppendElements ==
    ASSUME NEW S, NEW s \in Seq(S), NEW h \in S, NEW i \in 1 .. Len(Append(s, h))
    PROVE  Append(s, h)[i] = h \/ \E j \in 1 .. Len(s) : Append(s, h)[i] = s[j]
<1>1. CASE i = Len(s) + 1
  BY <1>1, AppendProperties
<1>2. CASE i \in 1 .. Len(s)
  BY <1>2, AppendProperties
<1> QED BY <1>1, <1>2, AppendProperties, LenProperties

LEMMA TailElements ==
    ASSUME NEW S, NEW s \in Seq(S), s # <<>>, NEW i \in 1 .. Len(Tail(s))
    PROVE  \E j \in 1 .. Len(s) : Tail(s)[i] = s[j]
<1>1. i + 1 \in 1 .. Len(s) /\ Tail(s)[i] = s[i + 1]
  BY HeadTailProperties, LenProperties
<1> QED BY <1>1

LEMMA HeadElement ==
    ASSUME NEW S, NEW s \in Seq(S), s # <<>>
    PROVE  1 \in 1 .. Len(s) /\ Head(s) = s[1]
  BY EmptySeq, LenProperties

LEMMA HeaderTypes ==
    ASSUME TypeOK, outToWRITE # <<>>
    PROVE  /\ Head(outToWRITE) \in Header
           /\ Outgoing \in Packet
           /\ Tail(outToWRITE) \in Seq(Header)
           /\ Tail(outData) \in Seq(Nat)
           /\ Len(Tail(outToWRITE)) <= Len(outData)
           /\ Len(Tail(outToWRITE)) <= Len(Tail(outData))
<1>1. Head(outToWRITE) \in Header /\ Tail(outToWRITE) \in Seq(Header)
  BY HeadTailProperties DEF TypeOK, RingTypeOK
<1>2. outData # <<>> /\ Head(outData) \in Nat /\ Tail(outData) \in Seq(Nat)
  BY EmptySeq, HeadTailProperties, LenProperties DEF TypeOK, RingTypeOK, PayloadsFollow
<1>3. Len(Tail(outToWRITE)) <= Len(outData) /\ Len(Tail(outToWRITE)) <= Len(Tail(outData))
  BY <1>2, HeadTailProperties, LenProperties DEF TypeOK, RingTypeOK, PayloadsFollow
<1>4. Numbered(Head(outToWRITE)) \in Packet
  BY <1>1 DEF Numbered, Header, Packet, TypeOK, RingTypeOK
<1>5. Outgoing \in Packet
  BY <1>2, <1>4 DEF Outgoing, Packet
<1> QED BY <1>1, <1>2, <1>3, <1>5

LEMMA RetrHeaders == \A h \in RetrHeader : h \in Header /\ h.type # 0
  BY DEF RetrHeader, Header, Refused, TimedOut

LEMMA SlotType == \A p \in Nat : Slot(p) \in Slots
  BY RingAssumption DEF Slot, Slots

LEMMA TypeInit == InitEstablished => TypeOK
<1> SUFFICES ASSUME InitEstablished PROVE TypeOK
  OBVIOUS
<1>1. Cardinality(QP) \in Nat
  BY FS_CardinalityType, QPAssumption
<1>2. OldPacket \in Packet
  BY QPAssumption DEF OldPacket, Packet
<1>3. RingTypeOK
  BY <1>1, <1>2
  DEF InitEstablished, EstablishedRing, IdleRing, RingTypeOK, PayloadsFollow, Acked,
      Refused, TimedOut, Sent, NoTmo
<1>4. RxTypeOK
  BY DEF InitEstablished, EstablishedRx, RxTypeOK
<1> QED
  BY <1>3, <1>4 DEF TypeOK, InitEstablished, QuietNet

LEMMA TypeStep == TypeOK /\ [Next]_vars => TypeOK'
<1> SUFFICES ASSUME TypeOK, [Next]_vars PROVE TypeOK'
  OBVIOUS
<1> USE DEF TypeOK, RingTypeOK, RxTypeOK
<1>a. ASSUME UNCHANGED pipeVars PROVE PayloadsFollow'
  BY <1>a DEF pipeVars, PayloadsFollow
<1>b. ASSUME NEW h \in Header, Grant(h)
      PROVE  outToWRITE' \in Seq(Header) /\ outData' \in Seq(Nat) /\ PayloadsFollow'
  <2>1. h.pkt.data \in Nat
    BY DEF Header, Packet
  <2>2. Len(outToWRITE') = Len(outToWRITE) + 1 /\ Len(outData') = Len(outData) + 1
    BY <1>b, <2>1, AppendProperties DEF Grant
  <2>3. outToWRITE' \in Seq(Header) /\ outData' \in Seq(Nat)
    BY <1>b, <2>1, AppendProperties DEF Grant
  <2> QED BY <2>2, <2>3, LenProperties DEF PayloadsFollow
<1>1. ASSUME NEW q \in QP, SyncUser(q), UNCHANGED <<rxVars, netVars>> PROVE TypeOK'
  <2>1. UserHeader(q) \in Header
    BY DEF UserHeader, Header, Packet
  <2> QED BY <1>1, <1>b, <2>1 DEF SyncUser, rxVars, netVars, streamVars
<1>2. CASE SyncRetransmit /\ UNCHANGED <<rxVars, netVars>>
  <2>1. Head(retrHdr) \in RetrHeader /\ Tail(retrHdr) \in Seq(RetrHeader)
    BY <1>2, HeadTailProperties DEF SyncRetransmit, Grant, streamVars
  <2>2. Head(retrHdr) \in Header
    BY <2>1, RetrHeaders
  <2> QED BY <1>2, <1>b, <2>1, <2>2 DEF SyncRetransmit, rxVars, netVars, streamVars
<1>3. CASE TxDiscard /\ UNCHANGED <<rxVars, netVars>>
  BY <1>3, HeaderTypes
  DEF TxDiscard, HeadIsRetr, rxVars, netVars, TakePacket, PayloadsFollow
<1>4. CASE TxReject /\ UNCHANGED <<rxVars, netVars>>
  BY <1>4, HeaderTypes DEF TxReject, rxVars, netVars, streamVars, PayloadsFollow
<1>5. CASE AnnounceWritePSN /\ UNCHANGED <<rxVars, netVars>>
  BY <1>a, <1>5 DEF AnnounceWritePSN, rxVars, netVars, pipeVars, streamVars
<1>6. CASE SkipAcked /\ UNCHANGED <<rxVars, netVars>>
  BY <1>a, <1>6 DEF SkipAcked, rxVars, netVars, pipeVars, streamVars
<1>7. CASE HandOver /\ UNCHANGED <<rxVars, netVars>>
  <2>1. [psn |-> readPSN, status |-> CurrentStatus] \in [psn : Nat, status : {Refused, TimedOut}]
    BY <1>a, <1>7 DEF HandOver, Retransmittable, pipeVars, streamVars
  <2>2. pend' \in Seq([psn : Nat, status : {Refused, TimedOut}])
    BY <1>a, <1>7, <2>1, AppendProperties DEF HandOver, pipeVars, streamVars
  <2>3. status' \in [Slots -> {Acked, Refused, TimedOut, Sent}]
    BY <1>a, <1>7 DEF HandOver, pipeVars, streamVars
  <2> QED BY <1>a, <1>7, <2>2, <2>3 DEF HandOver, rxVars, netVars, pipeVars, streamVars
<1>8. CASE PublishReadPSN /\ UNCHANGED <<rxVars, netVars>>
  BY <1>a, <1>8 DEF PublishReadPSN, rxVars, netVars, pipeVars, streamVars
<1>9. CASE ReadSlot /\ UNCHANGED <<rxVars, netVars>>
  <2>1. Head(pend) \in [psn : Nat, status : {Refused, TimedOut}]
    BY <1>a, <1>9, HeadTailProperties DEF ReadSlot, pipeVars, streamVars
  <2>2. Tail(pend) \in Seq([psn : Nat, status : {Refused, TimedOut}])
    BY <1>a, <1>9, HeadTailProperties DEF ReadSlot, pipeVars, streamVars
  <2>3. hbm[Slot(Head(pend).psn)] \in Packet
    BY <2>1, SlotType
  <2>4. RetrCount(Head(pend).status) \in Nat
    BY DEF RetrCount
  <2>5. ReadBack(Head(pend)) \in RetrHeader
    BY <2>1, <2>3, <2>4 DEF ReadBack, RetrHeader
  <2> QED
    BY <1>a, <1>9, <2>1, <2>2, <2>5
    DEF ReadSlot, rxVars, netVars, pipeVars, streamVars
<1>10. CASE TimeoutFire /\ UNCHANGED <<rxVars, netVars>>
  BY <1>a, <1>10 DEF TimeoutFire, rxVars, netVars, pipeVars, streamVars
<1>11. CASE SendUser
  <2>1. Outgoing \in Packet /\ Tail(outToWRITE) \in Seq(Header)
    BY <1>11, HeaderTypes DEF SendUser, TxAcceptUser, HeadIsUser
  <2>7. outData' \in Seq(Nat) /\ PayloadsFollow' /\ outToWRITE' \in Seq(Header)
    BY <1>11, HeaderTypes DEF SendUser, TxAcceptUser, HeadIsUser, TakePacket, PayloadsFollow
  <2>2. Request(writePSN, Outgoing) \in Requests
    BY <2>1 DEF Request, Requests
  <2>3. log' \in [QP -> Seq(Nat)]
    <3>1. Outgoing.qp \in QP /\ Outgoing.data \in Nat
      BY <2>1 DEF Packet
    <3>2. Append(log[Outgoing.qp], Outgoing.data) \in Seq(Nat)
      BY <3>1, AppendProperties
    <3> QED BY <1>11, <3>1, <3>2 DEF SendUser, TxAcceptUser
  <2>4. msn' \in [QP -> Nat] /\ rst' \in [QP -> BOOLEAN]
    <3>1. Outgoing.qp \in QP
      BY <2>1 DEF Packet
    <3> QED BY <1>11, <3>1 DEF SendUser, TxAcceptUser
  <2>5. hbm' \in [Slots -> Packet] /\ status' \in [Slots -> {Acked, Refused, TimedOut, Sent}]
    BY <1>11, <2>1 DEF SendUser, TxAcceptUser, Store, TakePacket
  <2>6. net' \subseteq Requests /\ writePSN' \in Nat
    BY <1>11, <2>2 DEF SendUser, TxAcceptUser, Store, TakePacket
  <2> QED BY <1>11, <2>3, <2>4, <2>5, <2>6, <2>7 DEF SendUser, TxAcceptUser, rxVars
<1>12. CASE SendRetransmit
  <2>1. Outgoing \in Packet /\ Tail(outToWRITE) \in Seq(Header)
    BY <1>12, HeaderTypes DEF SendRetransmit, TxAcceptRetransmit, HeadIsRetr
  <2>7. outData' \in Seq(Nat) /\ PayloadsFollow' /\ outToWRITE' \in Seq(Header)
    BY <1>12, HeaderTypes
    DEF SendRetransmit, TxAcceptRetransmit, HeadIsRetr, TakePacket, PayloadsFollow
  <2>2. Request(writePSN, Outgoing) \in Requests
    BY <2>1 DEF Request, Requests
  <2>3. hbm' \in [Slots -> Packet] /\ status' \in [Slots -> {Acked, Refused, TimedOut, Sent}]
    BY <1>12, <2>1 DEF SendRetransmit, TxAcceptRetransmit, Store, TakePacket, streamVars
  <2>4. net' \subseteq Requests /\ writePSN' \in Nat
    BY <1>12, <2>2 DEF SendRetransmit, TxAcceptRetransmit, Store, TakePacket, streamVars
  <2> QED
    BY <1>12, <2>3, <2>4, <2>7
    DEF SendRetransmit, TxAcceptRetransmit, rxVars, streamVars
<1>13. ASSUME NEW f \in net, Deliver(f) PROVE TypeOK'
  <2>1. f.psn \in Nat /\ f.pkt \in Packet
    BY DEF Requests
  <2>2. Answer(f.psn, FALSE) \in Answers
    BY <2>1 DEF Answer, Answers
  <2>3. f.pkt.qp \in QP /\ f.pkt.msn + 1 \in Nat /\ f.pkt.data \in Nat
    BY <2>1 DEF Packet
  <2>4. rx' \in [QP -> Nat]
    BY <1>13, <2>3 DEF Deliver, RxAccept
  <2>5. Append(delivered[f.pkt.qp], f.pkt.data) \in Seq(Nat)
    BY <2>3, AppendProperties
  <2>6. delivered' \in [QP -> Seq(Nat)]
    BY <1>13, <2>5 DEF Deliver, RxAccept
  <2> QED
    BY <1>a, <1>13, <2>2, <2>4, <2>6
    DEF Deliver, RxAccept, ringVars, pipeVars, streamVars
<1>14. ASSUME NEW f \in net, AnswerDuplicate(f) \/ AnswerGap(f) PROVE TypeOK'
  <2>1. Answer(f.psn, FALSE) \in Answers /\ Answer(f.psn, TRUE) \in Answers
    BY DEF Answer, Answers, Requests
  <2> QED
    BY <1>a, <1>14, <2>1
    DEF AnswerDuplicate, AnswerGap, RxDuplicate, RxGap, rxVars, ringVars, pipeVars,
        streamVars
<1>15. ASSUME NEW a \in resp, RecvAnswer(a) PROVE TypeOK'
  <2>1. status' \in [Slots -> {Acked, Refused, TimedOut, Sent}]
    BY <1>a, <1>15 DEF RecvAnswer, RecvResponse, pipeVars, streamVars
  <2>2. lost' \in Nat
    BY <1>15 DEF RecvAnswer
  <2> QED
    BY <1>a, <1>15, <2>1, <2>2
    DEF RecvAnswer, RecvResponse, rxVars, pipeVars, streamVars
<1>16. ASSUME NEW f \in net, LoseRequest(f) PROVE TypeOK'
  BY <1>a, <1>16 DEF LoseRequest, ringVars, rxVars, pipeVars, streamVars
<1>17. ASSUME NEW a \in resp, LoseAnswer(a) PROVE TypeOK'
  BY <1>a, <1>17 DEF LoseAnswer, ringVars, rxVars, pipeVars, streamVars
<1>18. CASE SampleTimeout
  BY <1>a, <1>18 DEF SampleTimeout, TimeoutSample, rxVars, pipeVars, streamVars
<1>19. CASE UNCHANGED vars
  BY <1>a, <1>19 DEF vars, ringVars, rxVars, netVars, pipeVars, streamVars
<1> QED
  BY <1>1, <1>2, <1>3, <1>4, <1>5, <1>6, <1>7, <1>8, <1>9, <1>10, <1>11, <1>12,
     <1>13, <1>14, <1>15, <1>16, <1>17, <1>18, <1>19
  DEF Next, Engine, EngineStep, Receive

\* Every variable keeps its type, and no header is ever without a payload.
THEOREM TypeCorrect == Spec => []TypeOK
  BY TypeInit, TypeStep, PTL DEF Spec

-----------------------------------------------------------------------------
(* The cursors and what is between the arbiter and tx_write.                 *)

LEMMA NatConstants ==
    /\ N \in Nat \ {0} /\ ReadLead \in Nat \ {0}
    /\ UserGate \in Nat /\ RetrGate \in Nat /\ UserMax \in Nat /\ RetrMax \in Nat
    /\ PipeCap \in Nat /\ RetrCap \in Nat /\ MaxRetr \in Nat
  BY RingAssumption

LEMMA GateType == \A h : Gate(h) \in Nat
  BY NatConstants DEF Gate

\* The cursors keep their order for any sizing.
LEMMA CursorsInit == InitEstablished => CursorsOrdered
  BY FS_CardinalityType, QPAssumption
  DEF InitEstablished, EstablishedRing, IdleRing, CursorsOrdered

LEMMA CursorsStep ==
    TypeOK /\ TypeOK' /\ CursorsOrdered /\ [Next]_vars => CursorsOrdered'
<1> SUFFICES ASSUME TypeOK, TypeOK', CursorsOrdered, [Next]_vars PROVE CursorsOrdered'
  OBVIOUS
<1> USE DEF CursorsOrdered, TypeOK, RingTypeOK
<1>1. CASE UNCHANGED <<writePSN, wSeen, readPSN, rSeen>>
  BY <1>1
<1>2. CASE SendUser \/ SendRetransmit
  BY <1>2
  DEF SendUser, SendRetransmit, TxAcceptUser, TxAcceptRetransmit, Store, TakePacket,
      streamVars
<1>3. CASE AnnounceWritePSN
  BY <1>3 DEF AnnounceWritePSN, pipeVars, streamVars
<1>4. CASE SkipAcked \/ HandOver
  BY <1>4 DEF SkipAcked, HandOver, pipeVars, streamVars
<1>5. CASE PublishReadPSN
  BY <1>5 DEF PublishReadPSN, pipeVars, streamVars
<1> QED
  BY <1>1, <1>2, <1>3, <1>4, <1>5
  DEF Next, Engine, EngineStep, Receive, SyncUser, SyncRetransmit, TxDiscard, TxReject,
      ReadSlot, TimeoutFire, Deliver, AnswerDuplicate, AnswerGap, RecvAnswer, RecvResponse,
      LoseRequest, LoseAnswer, SampleTimeout, TimeoutSample, vars, ringVars, Grant,
      streamVars, TakePacket, pipeVars

LEMMA RingInit == InitEstablished => RingInv
<1> SUFFICES ASSUME InitEstablished PROVE RingInv
  OBVIOUS
<1>1. Cardinality(QP) \in Nat
  BY FS_CardinalityType, QPAssumption
<1> QED
  BY <1>1, NatConstants
  DEF InitEstablished, EstablishedRing, IdleRing, RingInv, CursorsOrdered, GrantsFit,
      WindowFits, PendingClose

\* A header the arbiter adds was granted on the view wSeen - rSeen.
LEMMA GrantStep ==
    ASSUME TypeOK, RingInv, NEW h \in Header, PipeRoom,
           Occupied(wSeen, rSeen) <= Gate(h), outToWRITE' = Append(outToWRITE, h),
           UNCHANGED <<writePSN, wSeen, rSeen>>
    PROVE  GrantsFit'
<1> USE NatConstants DEF TypeOK, RingTypeOK, RingInv, CursorsOrdered, GrantsFit, Occupied, PipeRoom
<1>1. /\ Len(outToWRITE') = Len(outToWRITE) + 1
      /\ \A i \in 1 .. Len(outToWRITE) : outToWRITE'[i] = outToWRITE[i]
      /\ outToWRITE'[Len(outToWRITE) + 1] = h
  BY AppendProperties
<1>2. Len(outToWRITE) \in Nat
  OBVIOUS
<1>3. ASSUME NEW i \in 1 .. Len(outToWRITE')
      PROVE  (writePSN' + i) - rSeen' <= Gate(outToWRITE'[i]) + PipeCap
  <2>1. CASE i = Len(outToWRITE) + 1
    BY <1>1, <1>2, <2>1, GateType
  <2>2. CASE i \in 1 .. Len(outToWRITE)
    BY <1>1, <1>2, <2>2, GateType
  <2> QED BY <1>1, <1>2, <2>1, <2>2
<1> QED BY <1>1, <1>2, <1>3

\* tx_write takes the head, and with it at most one PSN.
LEMMA ConsumeStep ==
    ASSUME TypeOK, RingInv, outToWRITE # <<>>, outToWRITE' = Tail(outToWRITE),
           writePSN' \in writePSN .. writePSN + 1, UNCHANGED <<wSeen, rSeen>>
    PROVE  GrantsFit'
<1> USE NatConstants DEF TypeOK, RingTypeOK, RingInv, CursorsOrdered, GrantsFit
<1>1. /\ Len(outToWRITE') = Len(outToWRITE) - 1
      /\ \A i \in 1 .. Len(outToWRITE') : outToWRITE'[i] = outToWRITE[i + 1]
  BY HeadTailProperties
<1>2. Len(outToWRITE) \in Nat
  OBVIOUS
<1>3. ASSUME NEW i \in 1 .. Len(outToWRITE')
      PROVE  (writePSN' + i) - rSeen' <= Gate(outToWRITE'[i]) + PipeCap
  <2>1. i + 1 \in 1 .. Len(outToWRITE)
    BY <1>1, <1>2
  <2>2. (writePSN + (i + 1)) - rSeen <= Gate(outToWRITE[i + 1]) + PipeCap
    BY <2>1
  <2>3. /\ Gate(outToWRITE'[i]) = Gate(outToWRITE[i + 1]) /\ Gate(outToWRITE[i + 1]) \in Nat
        /\ i \in Nat /\ writePSN \in Nat /\ rSeen \in Nat /\ rSeen' = rSeen
    BY <1>1, <1>2, GateType
  <2>4. writePSN' = writePSN \/ writePSN' = writePSN + 1
    OBVIOUS
  <2> HIDE DEF TypeOK, RingTypeOK, RingInv, CursorsOrdered, GrantsFit
  <2> QED BY <2>2, <2>3, <2>4, NatConstants
<1> QED BY <1>1, <1>2, <1>3

LEMMA RingStep == Sized /\ TypeOK /\ TypeOK' /\ RingInv /\ [Next]_vars => RingInv'
<1> SUFFICES ASSUME Sized, TypeOK, TypeOK', RingInv, [Next]_vars PROVE RingInv'
  OBVIOUS
<1> USE NatConstants
<1>t. /\ writePSN \in Nat /\ wSeen \in Nat /\ readPSN \in Nat /\ rSeen \in Nat
      /\ writePSN' \in Nat /\ wSeen' \in Nat /\ readPSN' \in Nat /\ rSeen' \in Nat
      /\ outToWRITE \in Seq(Header) /\ Len(outToWRITE) \in Nat
      /\ pend \in Seq([psn : Nat, status : {Refused, TimedOut}]) /\ Len(pend) \in Nat
  BY DEF TypeOK, RingTypeOK
<1>p. ASSUME NEW i \in 1 .. Len(pend) PROVE pend[i].psn \in Nat
  <2>1. pend[i] \in [psn : Nat, status : {Refused, TimedOut}]
    BY <1>t, ElementOfSeq
  <2> QED BY <2>1
<1>a. ASSUME outToWRITE # <<>>, outToWRITE' = Tail(outToWRITE), writePSN' \in writePSN .. writePSN + 1,
             UNCHANGED <<wSeen, readPSN, rSeen, pend>>
      PROVE  RingInv'
  <2>1. GrantsFit'
    BY <1>a, ConsumeStep
  <2>2. (writePSN + 1) - rSeen <= Gate(outToWRITE[1]) + PipeCap
    BY <1>a DEF RingInv, GrantsFit, TypeOK, RingTypeOK
  <2>3. WindowFits'
    <3>1. Gate(outToWRITE[1]) <= RetrGate
      BY DEF Gate, Sized
    <3>2. (writePSN + 1) - rSeen <= RetrGate + PipeCap
      BY <1>t, <2>2, <3>1, GateType
    <3>3. CASE writePSN' = writePSN
      BY <1>a, <3>3 DEF WindowFits, RingInv
    <3>4. CASE writePSN' = writePSN + 1
      BY <1>a, <3>2, <3>4 DEF WindowFits
    <3> QED BY <1>a, <1>t, <3>3, <3>4
  <2> QED BY <1>a, <2>1, <2>3 DEF RingInv, CursorsOrdered, PendingClose, TypeOK, RingTypeOK
<1>b. ASSUME UNCHANGED <<outToWRITE, writePSN, wSeen, readPSN, rSeen, pend>>
      PROVE  RingInv'
  BY <1>b DEF RingInv, CursorsOrdered, GrantsFit, Gate, WindowFits, PendingClose
<1>1. ASSUME NEW q \in QP, SyncUser(q) PROVE RingInv'
  <2>1. UserHeader(q) \in Header /\ Gate(UserHeader(q)) = UserGate
    BY DEF UserHeader, Header, Packet, Gate, TypeOK, RingTypeOK
  <2>2. GrantsFit'
    BY <1>1, <2>1, GrantStep DEF SyncUser, UserRoom, Grant, streamVars
  <2> QED
    BY <1>1, <2>2
    DEF SyncUser, RingInv, CursorsOrdered, WindowFits, PendingClose, Grant, streamVars
<1>2. CASE SyncRetransmit
  <2>1. Head(retrHdr) \in Header /\ Gate(Head(retrHdr)) = RetrGate
    BY <1>2, HeadTailProperties, RetrHeaders
    DEF SyncRetransmit, TypeOK, RingTypeOK, Gate, Grant, streamVars
  <2>2. GrantsFit'
    BY <1>2, <2>1, GrantStep DEF SyncRetransmit, RetrRoom, Grant, streamVars
  <2> QED
    BY <1>2, <2>2
    DEF SyncRetransmit, RingInv, CursorsOrdered, WindowFits, PendingClose, Grant,
        streamVars
<1>3. CASE TxDiscard
  BY <1>3, <1>a DEF TxDiscard, HeadIsRetr, TypeOK, RingTypeOK, TakePacket
<1>4. CASE TxReject
  BY <1>4, <1>a DEF TxReject, TypeOK, RingTypeOK, streamVars
<1>5. CASE AnnounceWritePSN
  <2>1. wSeen' >= wSeen /\ wSeen' <= writePSN
    BY <1>5 DEF AnnounceWritePSN, TypeOK, RingTypeOK, pipeVars, streamVars
  <2>2. Len(outToWRITE) + (writePSN - wSeen') <= PipeCap
    BY <1>t, <2>1 DEF RingInv, GrantsFit
  <2>3. GrantsFit'
    BY <1>5, <2>2 DEF AnnounceWritePSN, RingInv, GrantsFit, pipeVars, streamVars
  <2> QED
    BY <1>5, <2>1, <2>3
    DEF AnnounceWritePSN, RingInv, CursorsOrdered, WindowFits, PendingClose, TypeOK,
        RingTypeOK, pipeVars, streamVars
<1>6. CASE SkipAcked
  <2>1. CursorsOrdered'
    BY <1>6 DEF SkipAcked, RingInv, CursorsOrdered, TypeOK, RingTypeOK, pipeVars, streamVars
  <2>2. PendingClose'
    <3>1. readPSN' = readPSN + 1 /\ pend' = pend
      BY <1>6 DEF SkipAcked, pipeVars, streamVars
    <3>2. ASSUME NEW i \in 1 .. Len(pend)
          PROVE  pend[i].psn < readPSN' /\ readPSN' - pend[i].psn <= ReadLead
      <4>1. pend[i].psn \in Nat /\ pend[i].psn < readPSN
        BY <1>p, <3>2 DEF RingInv, PendingClose
      <4>2. readPSN + 1 - pend[i].psn <= ReadLead
        BY <1>6, <3>2 DEF SkipAcked, LeadRoom
      <4> QED BY <1>t, <3>1, <4>1, <4>2
    <3> QED BY <3>1, <3>2 DEF PendingClose
  <2> QED
    BY <1>6, <2>1, <2>2
    DEF SkipAcked, RingInv, GrantsFit, WindowFits, pipeVars, streamVars
<1>7. CASE HandOver
  <2> DEFINE h == [psn |-> readPSN, status |-> CurrentStatus]
  <2>1. h \in [psn : Nat, status : {Refused, TimedOut}] /\ h.psn = readPSN
    BY <1>7 DEF HandOver, Retransmittable, TypeOK, RingTypeOK, pipeVars, streamVars
  <2> HIDE DEF h
  <2>2. /\ pend' = Append(pend, h)
        /\ Len(pend') = Len(pend) + 1
        /\ \A i \in 1 .. Len(pend) : pend'[i] = pend[i]
        /\ pend'[Len(pend) + 1] = h
    BY <1>7, <2>1, AppendProperties
    DEF HandOver, h, TypeOK, RingTypeOK, pipeVars, streamVars
  <2>3. ASSUME NEW i \in 1 .. Len(pend')
        PROVE  pend'[i].psn < readPSN' /\ readPSN' - pend'[i].psn <= ReadLead
    <3>1. CASE i = Len(pend) + 1
      BY <1>7, <2>1, <2>2, <3>1 DEF HandOver, TypeOK, RingTypeOK, pipeVars, streamVars
    <3>2. CASE i \in 1 .. Len(pend)
      <4>1. pend[i].psn \in Nat
        BY <1>p, <3>2
      <4> QED
        BY <1>7, <1>t, <2>2, <3>2, <4>1
        DEF HandOver, LeadRoom, RingInv, PendingClose, pipeVars, streamVars
    <3> QED BY <2>2, <3>1, <3>2, LenProperties DEF TypeOK, RingTypeOK
  <2>4. PendingClose'
    BY <2>3 DEF PendingClose
  <2>5. CursorsOrdered'
    BY <1>7 DEF HandOver, RingInv, CursorsOrdered, TypeOK, RingTypeOK, pipeVars, streamVars
  <2> QED
    BY <1>7, <2>4, <2>5
    DEF HandOver, RingInv, GrantsFit, WindowFits, pipeVars, streamVars
<1>8. CASE PublishReadPSN
  <2>1. rSeen' >= rSeen /\ rSeen' <= readPSN
    BY <1>8 DEF PublishReadPSN, TypeOK, RingTypeOK, pipeVars, streamVars
  <2>2. GrantsFit'
    <3>1. ASSUME NEW i \in 1 .. Len(outToWRITE)
          PROVE  (writePSN + i) - rSeen' <= Gate(outToWRITE[i]) + PipeCap
      <4>1. (writePSN + i) - rSeen <= Gate(outToWRITE[i]) + PipeCap
        BY DEF RingInv, GrantsFit
      <4> QED BY <1>t, <2>1, <4>1, GateType
    <3> QED BY <1>8, <3>1 DEF PublishReadPSN, RingInv, GrantsFit, pipeVars, streamVars
  <2> QED
    BY <1>8, <1>t, <2>1, <2>2
    DEF PublishReadPSN, RingInv, CursorsOrdered, WindowFits, PendingClose, pipeVars,
        streamVars
<1>9. CASE ReadSlot
  <2>1. PendingClose'
    <3>1. /\ Len(pend') = Len(pend) - 1
          /\ \A i \in 1 .. Len(pend') : pend'[i] = pend[i + 1]
      BY <1>9, <1>t, HeadTailProperties DEF ReadSlot, pipeVars, streamVars
    <3>2. \A i \in 1 .. Len(pend') : i + 1 \in 1 .. Len(pend)
      BY <1>t, <3>1
    <3>3. readPSN' = readPSN
      BY <1>9 DEF ReadSlot, pipeVars, streamVars
    <3> QED BY <3>1, <3>2, <3>3 DEF RingInv, PendingClose
  <2> QED
    BY <1>9, <2>1
    DEF ReadSlot, RingInv, CursorsOrdered, GrantsFit, Gate, WindowFits, pipeVars,
        streamVars
<1>10. CASE TimeoutFire
  BY <1>10, <1>b DEF TimeoutFire, pipeVars, streamVars
<1>11. CASE SendUser
  BY <1>11, <1>a
  DEF SendUser, TxAcceptUser, Store, HeadIsUser, TypeOK, RingTypeOK, TakePacket
<1>12. CASE SendRetransmit
  BY <1>12, <1>a
  DEF SendRetransmit, TxAcceptRetransmit, Store, HeadIsRetr, TypeOK, RingTypeOK, TakePacket,
      streamVars
<1>13. ASSUME NEW a \in resp, RecvAnswer(a) PROVE RingInv'
  BY <1>13, <1>b DEF RecvAnswer, RecvResponse, pipeVars, streamVars
<1>14. CASE SampleTimeout
  BY <1>14, <1>b DEF SampleTimeout, TimeoutSample, pipeVars, streamVars
<1>15. CASE UNCHANGED ringVars
  BY <1>15, <1>b DEF ringVars, pipeVars, streamVars
<1> QED
  BY <1>1, <1>2, <1>3, <1>4, <1>5, <1>6, <1>7, <1>8, <1>9, <1>10, <1>11, <1>12,
     <1>13, <1>14, <1>15
  DEF Next, Engine, EngineStep, Receive, Deliver, AnswerDuplicate, AnswerGap, LoseRequest,
      LoseAnswer, vars

\* The cursors keep their order, whatever the blocks see of them, and the slots
\* in use and the granted ones stay within the gate and what is under way.
THEOREM RingBounded == ASSUME Sized PROVE Spec => [](TypeOK /\ RingInv)
  BY TypeInit, TypeStep, RingInit, RingStep, PTL DEF Spec

\* What the arbiter of tx_syncroniceWrites grants on out of date cursors finds
\* room at tx_write, so that tx_write never consumes a header without its payload.
THEOREM GrantsHaveRoom == ASSUME Sized PROVE Spec => []GrantHasRoom
<1>1. TypeOK /\ RingInv => GrantHasRoom
  <2> SUFFICES ASSUME TypeOK, RingInv, outToWRITE # <<>>
               PROVE  GrantHasRoom
    BY DEF GrantHasRoom, HeadIsUser, HeadIsRetr
  <2>1. (writePSN + 1) - rSeen <= Gate(outToWRITE[1]) + PipeCap
    BY DEF RingInv, GrantsFit, TypeOK, RingTypeOK
  <2>2. Head(outToWRITE) = outToWRITE[1]
    OBVIOUS
  <2> QED
    BY <2>1, <2>2, NatConstants
    DEF GrantHasRoom, HeadIsUser, HeadIsRetr, UserFits, RetrFits, Occupied, Gate, Sized,
        TypeOK, RingTypeOK
<1> QED BY <1>1, RingBounded, PTL
-----------------------------------------------------------------------------
(* Header and payload streams stay in step as long as no header is rejected. *)

LEMMA InStepInit == InitEstablished => InStep
  BY DEF InitEstablished, EstablishedRing, IdleRing, InStep

LEMMA InStepStep ==
    TypeOK /\ GrantHasRoom /\ InStep /\ [Next]_vars => InStep'
<1> SUFFICES ASSUME TypeOK, GrantHasRoom, InStep, [Next]_vars PROVE InStep'
  OBVIOUS
<1>t. outToWRITE \in Seq(Header) /\ outData \in Seq(Nat)
  BY DEF TypeOK, RingTypeOK
<1>a. CASE UNCHANGED pipeVars
  BY <1>a DEF InStep, pipeVars
<1>b. ASSUME NEW h \in Header, Grant(h) PROVE InStep'
  <2>1. h.pkt.data \in Nat
    BY DEF Header, Packet
  <2>2. /\ Len(outToWRITE') = Len(outToWRITE) + 1
        /\ \A i \in 1 .. Len(outToWRITE) : outToWRITE'[i] = outToWRITE[i]
        /\ outToWRITE'[Len(outToWRITE) + 1] = h
    BY <1>b, <1>t, AppendProperties DEF Grant
  <2>3. /\ Len(outData') = Len(outData) + 1
        /\ \A i \in 1 .. Len(outData) : outData'[i] = outData[i]
        /\ outData'[Len(outData) + 1] = h.pkt.data
    BY <1>b, <1>t, <2>1, AppendProperties DEF Grant
  <2>4. Len(outToWRITE) \in Nat
    BY <1>t, LenProperties
  <2>5. ASSUME NEW i \in 1 .. Len(outToWRITE') PROVE outData'[i] = outToWRITE'[i].pkt.data
    <3>1. CASE i = Len(outToWRITE) + 1
      BY <2>2, <2>3, <3>1 DEF InStep
    <3>2. CASE i \in 1 .. Len(outToWRITE)
      BY <2>2, <2>3, <3>2 DEF InStep
    <3> QED BY <2>2, <2>4, <3>1, <3>2
  <2> QED BY <2>2, <2>3, <2>5 DEF InStep
<1>c. ASSUME outToWRITE # <<>>, TakePacket PROVE InStep'
  <2>1. outData # <<>>
    BY <1>t, <1>c, EmptySeq DEF InStep
  <2>2. /\ Len(outToWRITE') = Len(outToWRITE) - 1
        /\ \A i \in 1 .. Len(outToWRITE') : outToWRITE'[i] = outToWRITE[i + 1]
    BY <1>t, <1>c, HeadTailProperties DEF TakePacket
  <2>3. /\ Len(outData') = Len(outData) - 1
        /\ \A i \in 1 .. Len(outData') : outData'[i] = outData[i + 1]
    BY <1>t, <1>c, <2>1, HeadTailProperties DEF TakePacket
  <2>4. Len(outToWRITE) \in Nat
    BY <1>t, LenProperties
  <2>5. ASSUME NEW i \in 1 .. Len(outToWRITE') PROVE outData'[i] = outToWRITE'[i].pkt.data
    <3>1. i + 1 \in 1 .. Len(outToWRITE)
      BY <2>2, <2>4
    <3> QED BY <2>2, <2>3, <3>1 DEF InStep
  <2> QED BY <2>2, <2>3, <2>5 DEF InStep
<1>1. ASSUME NEW q \in QP, SyncUser(q) PROVE InStep'
  <2>1. UserHeader(q) \in Header
    BY DEF UserHeader, Header, Packet, TypeOK, RingTypeOK
  <2> QED BY <1>1, <1>b, <2>1 DEF SyncUser
<1>2. CASE SyncRetransmit
  <2>1. Head(retrHdr) \in Header
    BY <1>2, HeadTailProperties, RetrHeaders DEF SyncRetransmit, TypeOK, RingTypeOK
  <2> QED BY <1>2, <1>b, <2>1 DEF SyncRetransmit
<1>3. CASE TxDiscard \/ SendUser \/ SendRetransmit
  BY <1>3, <1>c
  DEF TxDiscard, SendUser, SendRetransmit, TxAcceptUser, TxAcceptRetransmit, HeadIsUser,
      HeadIsRetr
<1>4. CASE TxReject
  BY <1>4 DEF TxReject, GrantHasRoom, HeadIsUser, HeadIsRetr
<1> QED
  BY <1>a, <1>1, <1>2, <1>3, <1>4
  DEF Next, Engine, EngineStep, Receive, AnnounceWritePSN, SkipAcked, HandOver,
      PublishReadPSN, ReadSlot, TimeoutFire, Deliver, AnswerDuplicate, AnswerGap, RecvAnswer,
      RecvResponse, LoseRequest, LoseAnswer, SampleTimeout, TimeoutSample, vars, ringVars,
      pipeVars

-----------------------------------------------------------------------------
(* The streams: every copy of a packet bears the number its payload was      *)
(* given, so whatever arrives in sequence is the next payload.               *)

\* log only ever gets longer.
LogGrows ==
    \A q \in QP :
        /\ Len(log[q]) <= Len(log'[q])
        /\ \A i \in 1 .. Len(log[q]) : log'[q][i] = log[q][i]

LEMMA CopyStable ==
    ASSUME TypeOK, TypeOK', LogGrows, NEW pkt \in Packet, Copy(pkt)
    PROVE  Copy(pkt)'
<1>1. pkt.qp \in QP /\ pkt.msn \in Nat
  BY DEF Packet
<1>2. Len(log[pkt.qp]) \in Nat /\ Len(log'[pkt.qp]) \in Nat
  <2>1. log[pkt.qp] \in Seq(Nat) /\ log'[pkt.qp] \in Seq(Nat)
    BY <1>1 DEF TypeOK, RingTypeOK
  <2> QED BY <2>1, LenProperties
<1>3. pkt.msn + 1 \in 1 .. Len(log[pkt.qp])
  BY <1>1, <1>2 DEF Copy
<1> QED BY <1>1, <1>2, <1>3 DEF Copy, LogGrows

LEMMA LogStill == ASSUME TypeOK, log' = log PROVE LogGrows
  BY DEF LogGrows, TypeOK, RingTypeOK

LEMMA LiveType == ASSUME TypeOK PROVE LivePSN \subseteq Nat
<1>1. WindowPSN \subseteq Nat
  BY DEF WindowPSN, TypeOK, RingTypeOK
<1>2. ASSUME NEW i \in 1 .. Len(pend) PROVE pend[i].psn \in Nat
  <2>1. pend[i] \in [psn : Nat, status : {Refused, TimedOut}]
    BY ElementOfSeq DEF TypeOK, RingTypeOK
  <2> QED BY <2>1
<1> QED BY <1>1, <1>2 DEF LivePSN, PendingPSN

LEMMA StreamInit == InitEstablished => StreamInv
<1> SUFFICES ASSUME InitEstablished PROVE StreamInv
  OBVIOUS
<1>1. Cardinality(QP) \in Nat
  BY FS_CardinalityType, QPAssumption
<1>2. LivePSN = {}
  BY <1>1 DEF InitEstablished, EstablishedRing, IdleRing, LivePSN, WindowPSN, PendingPSN
<1> QED
  BY <1>2
  DEF InitEstablished, EstablishedRing, IdleRing, EstablishedRx, QuietNet, StreamInv,
      CountersFollow, CopiesAgree, InOrderDelivery

\* A slot handed over stays in use.
LEMMA HandOverLive ==
    ASSUME TypeOK, CursorsOrdered, HandOver PROVE LivePSN' \subseteq LivePSN
<1> DEFINE h == [psn |-> readPSN, status |-> CurrentStatus]
<1>1. h \in [psn : Nat, status : {Refused, TimedOut}] /\ h.psn = readPSN
  BY DEF HandOver, Retransmittable, TypeOK, RingTypeOK, pipeVars, streamVars
<1> HIDE DEF h
<1>2. readPSN \in WindowPSN
  BY DEF HandOver, WindowPSN, CursorsOrdered, TypeOK, RingTypeOK, pipeVars, streamVars
<1>3. ASSUME NEW i \in 1 .. Len(pend') PROVE pend'[i].psn \in LivePSN
  <2>1. pend'[i] = h \/ \E j \in 1 .. Len(pend) : pend'[i] = pend[j]
    BY <1>1, AppendElements DEF HandOver, h, TypeOK, RingTypeOK, pipeVars, streamVars
  <2> QED BY <1>1, <1>2, <2>1 DEF LivePSN, PendingPSN
<1>4. WindowPSN' \subseteq WindowPSN
  BY DEF HandOver, WindowPSN, TypeOK, RingTypeOK, pipeVars, streamVars
<1> QED BY <1>3, <1>4 DEF LivePSN, PendingPSN

\* Steps that neither number, nor store, nor deliver.
LEMMA StreamFrame ==
    ASSUME StreamInv, UNCHANGED <<msn, rst, log, rx, delivered, hbm, retrHdr, outToWRITE>>,
           net' \subseteq net, LivePSN' \subseteq LivePSN
    PROVE  StreamInv'
  BY DEF StreamInv, CountersFollow, CopiesAgree, InOrderDelivery, Copy, HeaderInv

\* Packet pkt is stored in slot writePSN and sent.
LEMMA StoreCopy ==
    ASSUME TypeOK, TypeOK', CopiesAgree, LogGrows, NEW pkt \in Packet, Copy(pkt)', Store(pkt),
           net' = net \cup {Request(writePSN, pkt)}, outToWRITE # <<>>,
           outToWRITE' = Tail(outToWRITE), UNCHANGED <<readPSN, pend, retrHdr>>
    PROVE  CopiesAgree'
<1>1. ASSUME NEW f \in net' PROVE Copy(f.pkt)'
  <2>1. CASE f = Request(writePSN, pkt)
    BY <2>1 DEF Request
  <2>2. CASE f \in net
    <3>1. f.pkt \in Packet
      BY <2>2 DEF TypeOK, Requests
    <3> QED BY <2>2, <3>1, CopyStable DEF CopiesAgree
  <2> QED BY <1>1, <2>1, <2>2
<1>2. ASSUME NEW p \in LivePSN' PROVE Copy(hbm[Slot(p)])'
  <2>1. p \in LivePSN \/ p = writePSN
    BY DEF LivePSN, WindowPSN, PendingPSN, Store, TypeOK, RingTypeOK
  <2>2. p \in Nat
    BY <2>1, LiveType DEF TypeOK, RingTypeOK
  <2>3. Slot(p) \in Slots /\ Slot(writePSN) \in Slots
    BY <2>2, SlotType DEF TypeOK, RingTypeOK
  <2>4. CASE Slot(p) = Slot(writePSN)
    <3>1. hbm'[Slot(p)] = pkt
      BY <2>3, <2>4 DEF Store, TypeOK, RingTypeOK
    <3> QED BY <3>1 DEF Copy
  <2>5. CASE Slot(p) # Slot(writePSN)
    <3>1. hbm'[Slot(p)] = hbm[Slot(p)] /\ p \in LivePSN
      BY <2>1, <2>3, <2>5 DEF Store, TypeOK, RingTypeOK
    <3>2. hbm[Slot(p)] \in Packet /\ Copy(hbm[Slot(p)])
      BY <2>3, <3>1 DEF CopiesAgree, TypeOK, RingTypeOK
    <3>3. \A k \in Packet : Copy(k) => Copy(k)'
      BY CopyStable
    <3> QED BY <3>1, <3>2, <3>3 DEF Copy
  <2> QED BY <2>4, <2>5
<1>3. ASSUME NEW h \in Header, HeaderInv(h) PROVE HeaderInv(h)'
  <2>1. h.pkt \in Packet
    BY DEF Header
  <2> QED BY <1>3, <2>1, CopyStable DEF HeaderInv
<1>4. ASSUME NEW i \in 1 .. Len(retrHdr') PROVE HeaderInv(retrHdr[i])'
  <2>1. retrHdr[i] \in Header /\ HeaderInv(retrHdr[i])
    BY RetrHeaders, ElementOfSeq DEF CopiesAgree, TypeOK, RingTypeOK
  <2> QED BY <1>3, <2>1 DEF HeaderInv, Copy
<1>5. ASSUME NEW i \in 1 .. Len(outToWRITE') PROVE HeaderInv(outToWRITE[i])'
  <2>1. outToWRITE \in Seq(Header)
    BY DEF TypeOK, RingTypeOK
  <2>2. i + 1 \in 1 .. Len(outToWRITE) /\ outToWRITE'[i] = outToWRITE[i + 1]
    BY <2>1, HeadTailProperties, LenProperties
  <2>3. outToWRITE[i + 1] \in Header /\ HeaderInv(outToWRITE[i + 1])
    BY <2>1, <2>2, ElementOfSeq DEF CopiesAgree
  <2> QED BY <1>3, <2>2, <2>3 DEF HeaderInv, Copy
<1> QED BY <1>1, <1>2, <1>4, <1>5 DEF CopiesAgree
\* A user packet extends its stream.
LEMMA UserStep == TypeOK /\ TypeOK' /\ StreamInv /\ SendUser => StreamInv'
<1> SUFFICES ASSUME TypeOK, TypeOK', StreamInv, SendUser PROVE StreamInv'
  OBVIOUS
<1> DEFINE k == Outgoing
           q == k.qp
<1>1. k \in Packet /\ q \in QP /\ k.data \in Nat
  BY HeaderTypes DEF SendUser, TxAcceptUser, HeadIsUser, Packet, TakePacket
<1>2. k.msn = Len(log[q]) /\ ~ k.rst
  <2>1. Head(outToWRITE) \in Header /\ Head(outToWRITE).type = 0
    BY HeaderTypes DEF SendUser, TxAcceptUser, HeadIsUser, TakePacket
  <2>2. k.msn = msn[q] /\ k.rst = rst[q]
    BY <2>1 DEF Outgoing, Numbered, Header, Packet
  <2> QED BY <1>1, <2>2 DEF StreamInv, CountersFollow
<1> HIDE DEF k
<1>3. /\ log' = [log EXCEPT ![q] = Append(log[q], k.data)]
      /\ msn' = [msn EXCEPT ![q] = msn[q] + 1]
      /\ rst' = [rst EXCEPT ![q] = FALSE]
      /\ UNCHANGED <<rx, delivered>>
  BY DEF SendUser, TxAcceptUser, rxVars, k, TakePacket
<1>4. /\ Len(log'[q]) = Len(log[q]) + 1
      /\ log'[q][Len(log[q]) + 1] = k.data
      /\ \A i \in 1 .. Len(log[q]) : log'[q][i] = log[q][i]
      /\ \A r \in QP \ {q} : log'[r] = log[r]
      /\ \A r \in QP : Len(log[r]) \in Nat
  <2>1. \A r \in QP : log[r] \in Seq(Nat) /\ Len(log[r]) \in Nat
    BY LenProperties DEF TypeOK, RingTypeOK
  <2>2. log'[q] = Append(log[q], k.data) /\ \A r \in QP \ {q} : log'[r] = log[r]
    BY <1>1, <1>3 DEF TypeOK, RingTypeOK
  <2> QED BY <1>1, <2>1, <2>2, AppendProperties
<1>5. LogGrows
  BY <1>4 DEF LogGrows
<1>6. ASSUME NEW c \in Packet, c = k PROVE Copy(c)'
  BY <1>1, <1>2, <1>4, <1>6 DEF Copy
<1>7. CopiesAgree'
  BY <1>1, <1>5, <1>6, StoreCopy
  DEF SendUser, TxAcceptUser, HeadIsUser, StreamInv, k, TakePacket
<1>8. CountersFollow'
  BY <1>1, <1>3, <1>4 DEF StreamInv, CountersFollow, TypeOK, RingTypeOK
<1>9. InOrderDelivery'
  BY <1>3, <1>4, <1>5, LenProperties
  DEF StreamInv, InOrderDelivery, LogGrows, TypeOK, RxTypeOK
<1> QED BY <1>7, <1>8, <1>9 DEF StreamInv

\* A retransmission keeps its number; the limit is never reached, because no
\* header counts more than one retransmission.
LEMMA RetransmitStep ==
    TypeOK /\ TypeOK' /\ InStep /\ StreamInv /\ SendRetransmit => StreamInv'
<1> SUFFICES ASSUME TypeOK, TypeOK', InStep, StreamInv, SendRetransmit PROVE StreamInv'
  OBVIOUS
<1> DEFINE k == Outgoing
<1>1. outToWRITE # <<>> /\ Head(outToWRITE).type # 0
  BY DEF SendRetransmit, TxAcceptRetransmit, HeadIsRetr, TakePacket, streamVars
<1>2. k \in Packet /\ k = Head(outToWRITE).pkt
  <2>1. Head(outToWRITE) = outToWRITE[1] /\ 1 \in 1 .. Len(outToWRITE)
    BY <1>1, HeadElement DEF TypeOK, RingTypeOK
  <2>2. Head(outToWRITE).pkt \in Packet
    BY <1>1, HeaderTypes DEF Header
  <2>3. outData # <<>>
    BY <2>1, EmptySeq DEF InStep, TypeOK, RingTypeOK
  <2>4. Head(outData) = Head(outToWRITE).pkt.data
    BY <2>1, <2>3, HeadElement DEF InStep, TypeOK, RingTypeOK
  <2> QED BY <1>1, <2>2, <2>4 DEF Outgoing, Numbered, Packet
<1>3. Copy(k)
  <2>1. 1 \in 1 .. Len(outToWRITE) /\ Head(outToWRITE) = outToWRITE[1]
    BY <1>1, HeadElement DEF TypeOK, RingTypeOK
  <2> QED BY <1>1, <1>2, <2>1 DEF StreamInv, CopiesAgree, HeaderInv
<1> HIDE DEF k
<1>4. UNCHANGED <<msn, rst, log, rx, delivered>>
  BY DEF SendRetransmit, TxAcceptRetransmit, rxVars, TakePacket, streamVars
<1>5. LogGrows
  BY <1>4, LogStill
<1>6. ASSUME NEW c \in Packet, c = k PROVE Copy(c)'
  BY <1>3, <1>4, <1>6 DEF Copy
<1>7. CopiesAgree'
  BY <1>1, <1>2, <1>5, <1>6, StoreCopy
  DEF SendRetransmit, TxAcceptRetransmit, StreamInv, k, TakePacket, streamVars
<1> QED BY <1>4, <1>7 DEF StreamInv, CountersFollow, InOrderDelivery

\* A copy that arrives in sequence is the next payload of its stream.
LEMMA DeliverStep ==
    ASSUME TypeOK, TypeOK', StreamInv, NEW f \in net, Deliver(f)
    PROVE  StreamInv'
<1> DEFINE q == f.pkt.qp
<1>1. f.pkt \in Packet /\ q \in QP /\ f.pkt.msn \in Nat /\ f.pkt.data \in Nat
  BY DEF TypeOK, Requests, Packet
<1>2. /\ f.pkt.msn = Len(delivered[q])
      /\ f.pkt.msn < Len(log[q])
      /\ f.pkt.data = log[q][f.pkt.msn + 1]
  BY <1>1 DEF Deliver, RxAccept, InSequence, StreamInv, CopiesAgree, CountersFollow, Copy
<1>3. /\ rx' = [rx EXCEPT ![q] = f.pkt.msn + 1]
      /\ delivered' = [delivered EXCEPT ![q] = Append(delivered[q], f.pkt.data)]
      /\ net' = net \ {f}
      /\ UNCHANGED <<msn, rst, log, hbm, retrHdr, outToWRITE, readPSN, writePSN, pend>>
  BY DEF Deliver, RxAccept, ringVars, pipeVars, streamVars
<1>4. delivered[q] \in Seq(Nat) /\ log[q] \in Seq(Nat)
  BY <1>1 DEF TypeOK, RxTypeOK, RingTypeOK
<1>5. /\ Len(delivered'[q]) = Len(delivered[q]) + 1
      /\ delivered'[q][Len(delivered[q]) + 1] = f.pkt.data
      /\ \A i \in 1 .. Len(delivered[q]) : delivered'[q][i] = delivered[q][i]
      /\ \A r \in QP \ {q} : delivered'[r] = delivered[r] /\ rx'[r] = rx[r]
      /\ rx'[q] = f.pkt.msn + 1
  <2>1. delivered'[q] = Append(delivered[q], f.pkt.data)
    BY <1>1, <1>3 DEF TypeOK, RxTypeOK
  <2>2. /\ \A r \in QP \ {q} : delivered'[r] = delivered[r] /\ rx'[r] = rx[r]
        /\ rx'[q] = f.pkt.msn + 1
    BY <1>1, <1>3 DEF TypeOK, RxTypeOK
  <2> QED BY <1>1, <1>4, <2>1, <2>2, AppendProperties
<1>6. CountersFollow'
  BY <1>2, <1>3, <1>5 DEF StreamInv, CountersFollow
<1>7. InOrderDelivery'
  <2>1. ASSUME NEW r \in QP
        PROVE  /\ Len(delivered'[r]) <= Len(log[r])
               /\ \A i \in 1 .. Len(delivered'[r]) : delivered'[r][i] = log[r][i]
    <3>1. CASE r = q
      <4>1. Len(delivered[q]) \in Nat /\ Len(log[q]) \in Nat
        BY <1>4, LenProperties
      <4>2. Len(delivered'[q]) <= Len(log[q])
        BY <1>2, <1>5, <4>1
      <4>3. ASSUME NEW i \in 1 .. Len(delivered'[q]) PROVE delivered'[q][i] = log[q][i]
        <5>1. CASE i = Len(delivered[q]) + 1
          BY <1>2, <1>5, <5>1
        <5>2. CASE i \in 1 .. Len(delivered[q])
          BY <1>1, <1>5, <5>2 DEF StreamInv, InOrderDelivery
        <5> QED BY <1>5, <4>1, <5>1, <5>2
      <4> QED BY <3>1, <4>2, <4>3
    <3>2. CASE r # q
      BY <1>5, <3>2 DEF StreamInv, InOrderDelivery
    <3> QED BY <3>1, <3>2
  <2> QED BY <1>3, <2>1 DEF InOrderDelivery
<1>8. CopiesAgree'
  BY <1>3 DEF StreamInv, CopiesAgree, LivePSN, WindowPSN, PendingPSN, Copy, HeaderInv
<1> QED BY <1>6, <1>7, <1>8 DEF StreamInv

LEMMA StreamStep ==
    ASSUME MaxRetr >= 1
    PROVE  TypeOK /\ TypeOK' /\ CursorsOrdered /\ InStep /\ StreamInv /\ [Next]_vars => StreamInv'
<1> SUFFICES ASSUME TypeOK, TypeOK', CursorsOrdered, InStep, StreamInv, [Next]_vars
             PROVE  StreamInv'
  OBVIOUS
<1>1. ASSUME NEW q \in QP, SyncUser(q), UNCHANGED <<rxVars, netVars>> PROVE StreamInv'
  <2>1. UserHeader(q) \in Header /\ UserHeader(q).nRetrans = 0 /\ UserHeader(q).type = 0
    BY DEF UserHeader, Header, Packet, TypeOK, RingTypeOK
  <2>2. ASSUME NEW i \in 1 .. Len(outToWRITE') PROVE HeaderInv(outToWRITE[i])'
    <3>1. \/ outToWRITE'[i] = UserHeader(q)
          \/ \E j \in 1 .. Len(outToWRITE) : outToWRITE'[i] = outToWRITE[j]
      <4>1. outToWRITE' = Append(outToWRITE, UserHeader(q)) /\ outToWRITE \in Seq(Header)
        BY <1>1 DEF SyncUser, Grant, TypeOK, RingTypeOK
      <4> QED BY <2>1, <4>1, AppendElements
    <3>2. log' = log
      BY <1>1 DEF SyncUser, Grant, streamVars
    <3> QED BY <2>1, <3>1, <3>2 DEF StreamInv, CopiesAgree, HeaderInv, Copy
  <2> QED
    BY <1>1, <2>2
    DEF SyncUser, rxVars, netVars, StreamInv, CountersFollow, CopiesAgree, InOrderDelivery,
        LivePSN, WindowPSN, PendingPSN, Copy, HeaderInv, Grant, streamVars
<1>2. CASE SyncRetransmit /\ UNCHANGED <<rxVars, netVars>>
  <2>1. Head(retrHdr) \in Header /\ 1 \in 1 .. Len(retrHdr) /\ Head(retrHdr) = retrHdr[1]
    BY <1>2, HeadElement, HeadTailProperties, RetrHeaders
    DEF SyncRetransmit, TypeOK, RingTypeOK, Grant, streamVars
  <2>2. UNCHANGED <<msn, rst, log, rx, delivered, hbm, net, readPSN, writePSN, pend>>
    BY <1>2 DEF SyncRetransmit, rxVars, netVars, Grant, streamVars
  <2>3. ASSUME NEW i \in 1 .. Len(outToWRITE') PROVE HeaderInv(outToWRITE[i])'
    <3>1. \/ outToWRITE'[i] = retrHdr[1]
          \/ \E j \in 1 .. Len(outToWRITE) : outToWRITE'[i] = outToWRITE[j]
      <4>1. outToWRITE' = Append(outToWRITE, retrHdr[1]) /\ outToWRITE \in Seq(Header)
        BY <1>2, <2>1 DEF SyncRetransmit, Grant, TypeOK, RingTypeOK
      <4> QED BY <2>1, <4>1, AppendElements
    <3> QED BY <2>1, <2>2, <3>1 DEF StreamInv, CopiesAgree, HeaderInv, Copy
  <2>4. ASSUME NEW i \in 1 .. Len(retrHdr') PROVE HeaderInv(retrHdr[i])'
    <3>1. \E j \in 1 .. Len(retrHdr) : retrHdr'[i] = retrHdr[j]
      BY <1>2, TailElements DEF SyncRetransmit, TypeOK, RingTypeOK, Grant, streamVars
    <3> QED BY <2>2, <3>1 DEF StreamInv, CopiesAgree, HeaderInv, Copy
  <2> QED
    BY <2>2, <2>3, <2>4
    DEF StreamInv, CountersFollow, CopiesAgree, InOrderDelivery, LivePSN, WindowPSN,
        PendingPSN, Copy
<1>3. CASE TxDiscard
  <2>1. 1 \in 1 .. Len(outToWRITE) /\ Head(outToWRITE) = outToWRITE[1]
    BY <1>3, HeadElement DEF TxDiscard, HeadIsRetr, TypeOK, RingTypeOK, TakePacket
  <2>2. Head(outToWRITE) \in Header
    BY <1>3, HeaderTypes DEF TxDiscard, HeadIsRetr, TakePacket
  <2>3. Head(outToWRITE).nRetrans <= 1 /\ Head(outToWRITE).nRetrans \in Nat
    BY <2>1, <2>2 DEF StreamInv, CopiesAgree, HeaderInv, Header
  <2> QED BY <1>3, <2>3, NatConstants DEF TxDiscard, WithinLimit, TakePacket
<1>4. CASE TxReject /\ UNCHANGED <<rxVars, netVars>>
  <2>1. UNCHANGED <<msn, rst, log, rx, delivered, hbm, net, readPSN, writePSN, pend, retrHdr>>
    BY <1>4 DEF TxReject, rxVars, netVars, streamVars
  <2>2. ASSUME NEW i \in 1 .. Len(outToWRITE') PROVE HeaderInv(outToWRITE[i])'
    <3>1. \E j \in 1 .. Len(outToWRITE) : outToWRITE'[i] = outToWRITE[j]
      BY <1>4, TailElements DEF TxReject, TypeOK, RingTypeOK, streamVars
    <3> QED BY <2>1, <3>1 DEF StreamInv, CopiesAgree, HeaderInv, Copy
  <2> QED
    BY <2>1, <2>2
    DEF StreamInv, CountersFollow, CopiesAgree, InOrderDelivery, LivePSN, WindowPSN,
        PendingPSN, Copy, HeaderInv
<1>5. CASE AnnounceWritePSN /\ UNCHANGED <<rxVars, netVars>>
  BY <1>5, StreamFrame
  DEF AnnounceWritePSN, rxVars, netVars, LivePSN, WindowPSN, PendingPSN, pipeVars,
      streamVars
<1>6. CASE SkipAcked /\ UNCHANGED <<rxVars, netVars>>
  <2>1. LivePSN' \subseteq LivePSN
    BY <1>6
    DEF SkipAcked, LivePSN, WindowPSN, PendingPSN, TypeOK, RingTypeOK, pipeVars, streamVars
  <2> QED BY <1>6, <2>1, StreamFrame DEF SkipAcked, rxVars, netVars, pipeVars, streamVars
<1>7. CASE HandOver /\ UNCHANGED <<rxVars, netVars>>
  <2>1. LivePSN' \subseteq LivePSN
    BY <1>7, HandOverLive DEF HandOver, pipeVars, streamVars
  <2> QED BY <1>7, <2>1, StreamFrame DEF HandOver, rxVars, netVars, pipeVars, streamVars
<1>8. CASE PublishReadPSN /\ UNCHANGED <<rxVars, netVars>>
  BY <1>8, StreamFrame
  DEF PublishReadPSN, rxVars, netVars, LivePSN, WindowPSN, PendingPSN, pipeVars, streamVars
<1>9. CASE ReadSlot /\ UNCHANGED <<rxVars, netVars>>
  <2>1. UNCHANGED <<msn, rst, log, rx, delivered, hbm, net, readPSN, writePSN, outToWRITE>>
    BY <1>9 DEF ReadSlot, rxVars, netVars, pipeVars, streamVars
  <2>2. Head(pend) \in [psn : Nat, status : {Refused, TimedOut}]
    BY <1>9, HeadTailProperties DEF ReadSlot, TypeOK, RingTypeOK, pipeVars, streamVars
  <2>3. Head(pend).psn \in LivePSN
    BY <1>9, HeadElement
    DEF ReadSlot, LivePSN, PendingPSN, TypeOK, RingTypeOK, pipeVars, streamVars
  <2>4. LivePSN' \subseteq LivePSN
    <3>1. ASSUME NEW i \in 1 .. Len(pend') PROVE \E j \in 1 .. Len(pend) : pend'[i] = pend[j]
      BY <1>9, TailElements DEF ReadSlot, TypeOK, RingTypeOK, pipeVars, streamVars
    <3> QED BY <2>1, <3>1 DEF LivePSN, WindowPSN, PendingPSN
  <2> DEFINE h == ReadBack(Head(pend))
  <2>5. h \in RetrHeader /\ HeaderInv(h)
    <3>1. hbm[Slot(Head(pend).psn)] \in Packet
      BY <2>2, SlotType DEF TypeOK, RingTypeOK
    <3>2. Copy(hbm[Slot(Head(pend).psn)])
      BY <2>3 DEF StreamInv, CopiesAgree
    <3>3. RetrCount(Head(pend).status) \in Nat /\ RetrCount(Head(pend).status) <= 1
      BY DEF RetrCount
    <3> QED BY <2>2, <3>1, <3>2, <3>3 DEF ReadBack, RetrHeader, HeaderInv
  <2> HIDE DEF h
  <2>6. ASSUME NEW i \in 1 .. Len(retrHdr') PROVE HeaderInv(retrHdr[i])'
    <3>1. \/ retrHdr'[i] = h
          \/ \E j \in 1 .. Len(retrHdr) : retrHdr'[i] = retrHdr[j]
      BY <1>9, <2>5, AppendElements
      DEF ReadSlot, TypeOK, RingTypeOK, h, pipeVars, streamVars
    <3> QED BY <2>1, <2>5, <3>1 DEF StreamInv, CopiesAgree, HeaderInv, Copy
  <2> QED
    BY <2>1, <2>4, <2>6
    DEF StreamInv, CountersFollow, CopiesAgree, InOrderDelivery, Copy, HeaderInv
<1>10. CASE TimeoutFire /\ UNCHANGED <<rxVars, netVars>>
  BY <1>10, StreamFrame
  DEF TimeoutFire, rxVars, netVars, LivePSN, WindowPSN, PendingPSN, pipeVars, streamVars
<1>11. CASE SendUser
  BY <1>11, UserStep
<1>12. CASE SendRetransmit
  BY <1>12, RetransmitStep
<1>13. ASSUME NEW f \in net, Deliver(f) PROVE StreamInv'
  BY <1>13, DeliverStep
<1>14. ASSUME NEW f \in net, AnswerDuplicate(f) \/ AnswerGap(f) PROVE StreamInv'
  BY <1>14, StreamFrame
  DEF AnswerDuplicate, AnswerGap, RxDuplicate, RxGap, rxVars, ringVars, LivePSN, WindowPSN,
      PendingPSN, pipeVars, streamVars
<1>15. ASSUME NEW a \in resp, RecvAnswer(a) PROVE StreamInv'
  BY <1>15, StreamFrame
  DEF RecvAnswer, RecvResponse, rxVars, LivePSN, WindowPSN, PendingPSN, pipeVars,
      streamVars
<1>16. ASSUME NEW f \in net, LoseRequest(f) PROVE StreamInv'
  BY <1>16, StreamFrame
  DEF LoseRequest, ringVars, rxVars, LivePSN, WindowPSN, PendingPSN, pipeVars, streamVars
<1>17. ASSUME NEW a \in resp, LoseAnswer(a) PROVE StreamInv'
  BY <1>17, StreamFrame
  DEF LoseAnswer, ringVars, rxVars, LivePSN, WindowPSN, PendingPSN, pipeVars, streamVars
<1>18. CASE SampleTimeout
  BY <1>18, StreamFrame
  DEF SampleTimeout, TimeoutSample, rxVars, LivePSN, WindowPSN, PendingPSN, pipeVars,
      streamVars
<1>19. CASE UNCHANGED vars
  BY <1>19, StreamFrame
  DEF vars, ringVars, rxVars, netVars, LivePSN, WindowPSN, PendingPSN, pipeVars, streamVars
<1> QED
  BY <1>1, <1>2, <1>3, <1>4, <1>5, <1>6, <1>7, <1>8, <1>9, <1>10, <1>11, <1>12,
     <1>13, <1>14, <1>15, <1>16, <1>17, <1>18, <1>19
  DEF Next, Engine, EngineStep, Receive

\* rx_qp passes the payloads tx_write numbered for a destination to its kernel in
\* order, without a gap or a repetition, whatever the network and the timeouts do.
THEOREM DeliveryInOrder ==
    ASSUME Sized, MaxRetr >= 1 PROVE Spec => []InOrderDelivery
<1>1. StreamInv => InOrderDelivery
  BY DEF StreamInv
<1> QED
  BY <1>1, TypeInit, TypeStep, CursorsInit, CursorsStep, InStepInit, InStepStep, StreamInit,
     StreamStep, GrantsHaveRoom, PTL
  DEF Spec

-----------------------------------------------------------------------------
(* Slots and registers.                                                    *)

\* PSNs less than a round apart have different slots.
LEMMA SlotsApart ==
    ASSUME NEW p \in Nat, NEW w \in Nat, p < w, w - p < N
    PROVE  Slot(p) # Slot(w)
<1> DEFINE i == w - p
<1>1. N \in Nat \ {0} /\ i \in 0 .. N /\ w = p + i /\ i > 0 /\ i < N
  BY RingAssumption
<1> HIDE DEF i
<1>2. (p + i) % N = IF (p % N) + i < N THEN (p % N) + i ELSE (p % N) + i - N
  BY <1>1, ModStep
<1>3. p % N \in 0 .. N - 1
  BY <1>1, ModSplit
<1> DEFINE s == p % N
<1> HIDE DEF s
<1>4. (p + i) % N # s
  <2>1. s \in 0 .. N - 1 /\ (p + i) % N = IF s + i < N THEN s + i ELSE s + i - N
    BY <1>2, <1>3 DEF s
  <2> QED
    BY <2>1, <1>1
<1> QED
  BY <1>1, <1>4 DEF Slot, s

\* The slot tx_write is about to use is not one of those still in use.
LEMMA NextSlotFree ==
    ASSUME TypeOK, RingInv, Sized, outToWRITE # <<>>
    PROVE  \A p \in LivePSN : Slot(p) # Slot(writePSN)
<1> USE NatConstants DEF TypeOK, RingTypeOK
<1>1. (writePSN + 1) - rSeen <= RetrGate + PipeCap
  <2>1. Len(outToWRITE) \in Nat /\ Len(outToWRITE) > 0
    OBVIOUS
  <2>2. (writePSN + 1) - rSeen <= Gate(outToWRITE[1]) + PipeCap
    BY <2>1 DEF RingInv, GrantsFit
  <2>3. Gate(outToWRITE[1]) \in Nat /\ Gate(outToWRITE[1]) <= RetrGate
    BY DEF Gate, Sized
  <2> QED
    BY <2>2, <2>3
<1>2. rSeen <= readPSN /\ readPSN <= writePSN
  BY DEF RingInv, CursorsOrdered
<1>3. RetrGate + PipeCap + ReadLead <= N
  BY DEF Sized
<1> SUFFICES ASSUME NEW p \in LivePSN PROVE Slot(p) # Slot(writePSN)
  OBVIOUS
<1>4. p \in Nat /\ p < writePSN /\ readPSN - p <= ReadLead
  <2>1. CASE p \in WindowPSN
    BY <2>1 DEF WindowPSN
  <2>2. CASE p \in PendingPSN
    <3>1. PICK i \in 1 .. Len(pend) : p = pend[i].psn
      BY <2>2 DEF PendingPSN
    <3>2. pend[i] \in [psn : Nat, status : {Refused, TimedOut}]
      BY ElementOfSeq
    <3>3. pend[i].psn < readPSN /\ readPSN - pend[i].psn <= ReadLead
      BY DEF RingInv, PendingClose
    <3> QED
      BY <3>1, <3>2, <3>3, <1>2
  <2> QED
    BY <2>1, <2>2 DEF LivePSN
<1>5. writePSN - p < N
  BY <1>1, <1>2, <1>3, <1>4
<1> QED
  BY <1>4, <1>5, SlotsApart

\* tx_write stores no packet over one that tx_checkCurrent has not passed or
\* tx_checkcurrent_data has still to read back.
THEOREM SlotsNotOverwritten == ASSUME Sized PROVE Spec => NoOverwrite
<1> DEFINE Free == writePSN' # writePSN => \A p \in LivePSN : Slot(p) # Slot(writePSN)
<1>1. TypeOK /\ RingInv /\ [Next]_vars => [Free]_vars
  <2> SUFFICES ASSUME TypeOK, RingInv, Next, writePSN' # writePSN
               PROVE  \A p \in LivePSN : Slot(p) # Slot(writePSN)
    OBVIOUS
  <2>1. SendUser \/ SendRetransmit
    BY DEF Next, Engine, EngineStep, Receive, SyncUser, SyncRetransmit, TxDiscard,
       TxReject, ReadSlot, TimeoutFire, Deliver, AnswerDuplicate, AnswerGap, RecvAnswer,
       RecvResponse, LoseRequest, LoseAnswer, SampleTimeout, TimeoutSample,
       AnnounceWritePSN, SkipAcked, HandOver, PublishReadPSN, ringVars
  <2>2. outToWRITE # <<>>
    BY <2>1 DEF SendUser, SendRetransmit, TxAcceptUser, TxAcceptRetransmit, HeadIsUser,
       HeadIsRetr
  <2> QED
    BY <2>2, NextSlotFree
<1> QED
  BY <1>1, RingBounded, PTL DEF Spec, NoOverwrite
-----------------------------------------------------------------------------
\* Cursors less than a round apart, seen through the registers.
LEMMA SameAnswersIfClose ==
    ASSUME NEW w \in Nat, NEW r \in Nat, r <= w, w - r < N
    PROVE  SameAnswers(w, r)
<1> DEFINE d == w - r
<1>1. N \in Nat \ {0} /\ Rounds \in Nat \ {0}
  BY RingAssumption, RoundsAssumption
<1>2. d \in 0 .. N - 1 /\ w = r + d
  BY <1>1
<1>3. Distance(N, Reg(w), Reg(r)) = d
  BY <1>1, <1>2, DistanceExact DEF Reg
<1>4. Reg(w) = Reg(r) <=> w = r
  <2>1. ASSUME Reg(w) = Reg(r) PROVE d = 0
    <3>1. Distance(N, Reg(r), Reg(r)) = 0
      <4>1. r + 0 = r /\ 0 \in 0 .. N - 1
        BY <1>1
      <4> QED
        BY <1>1, <4>1, DistanceExact DEF Reg
    <3> QED
      BY <3>1, <2>1, <1>3
  <2> QED
    BY <2>1
<1>5. ASSUME NEW p \in 0 .. N * Rounds - 1
      PROVE  InWindow(N, p, Reg(w), Reg(r)) <=>
                 \E psn \in {r} \cup (r .. w - 1) : p = Reg(psn)
  BY <1>1, WindowExact DEF Reg
<1> QED
  BY <1>3, <1>4, <1>5 DEF SameAnswers, Occupied

\* The 24 bit PSNs and 20 bit slot addresses of tx_syncroniceWrites, tx_write
\* and tx_checkResponce give the same answers as PSNs without end.
THEOREM RegistersExact == ASSUME Sized PROVE Spec => []ArithmeticExact
<1>1. TypeOK /\ RingInv => ArithmeticExact
  <2> SUFFICES ASSUME TypeOK, RingInv PROVE ArithmeticExact
    OBVIOUS
  <2>1. /\ writePSN \in Nat /\ wSeen \in Nat /\ readPSN \in Nat /\ rSeen \in Nat
        /\ rSeen <= readPSN /\ readPSN <= wSeen /\ wSeen <= writePSN
    BY DEF TypeOK, RingTypeOK, RingInv, CursorsOrdered
  <2>2. writePSN - rSeen < N
    BY <2>1, NatConstants DEF RingInv, WindowFits, Sized
  <2>3. SameAnswers(wSeen, rSeen)
    BY <2>1, <2>2, NatConstants, SameAnswersIfClose
  <2>4. SameAnswers(writePSN, rSeen)
    BY <2>1, <2>2, NatConstants, SameAnswersIfClose
  <2>5. SameAnswers(wSeen, readPSN)
    BY <2>1, <2>2, NatConstants, SameAnswersIfClose
  <2> QED
    BY <2>3, <2>4, <2>5 DEF ArithmeticExact
<1> QED
  BY <1>1, RingBounded, PTL

-----------------------------------------------------------------------------
(* Why no packet is lost.                                                  *)

\* What has been delivered stays delivered.
RxGrows == \A q \in QP : rx[q] <= rx'[q]

LEMMA ArrivedStable ==
    ASSUME TypeOK, TypeOK', RxGrows, NEW k \in Packet, Arrived(k)
    PROVE  Arrived(k)'
<1>1. k.qp \in QP /\ k.msn \in Nat
  BY DEF Packet
<1>2. rx[k.qp] \in Nat /\ rx'[k.qp] \in Nat /\ rx[k.qp] <= rx'[k.qp]
  BY <1>1 DEF TypeOK, RxTypeOK, RxGrows
<1> QED
  BY <1>1, <1>2 DEF Arrived

LEMMA RxStill == ASSUME TypeOK, rx' = rx PROVE RxGrows
  BY DEF RxGrows, TypeOK, RxTypeOK

\* A copy in sequence carries the number rx_qp waits for.
LEMMA DeliverGrows ==
    ASSUME TypeOK, StreamInv, NEW f \in net, Deliver(f)
    PROVE  RxGrows /\ rx'[f.pkt.qp] = f.pkt.msn + 1
<1>1. f.pkt \in Packet /\ f.pkt.qp \in QP /\ f.pkt.msn \in Nat
  BY DEF TypeOK, Requests, Packet
<1>2. f.pkt.msn = rx[f.pkt.qp] /\ rx' = [rx EXCEPT ![f.pkt.qp] = f.pkt.msn + 1]
  BY <1>1 DEF Deliver, RxAccept, InSequence, StreamInv, CopiesAgree, Copy
<1> QED
  BY <1>1, <1>2 DEF RxGrows, TypeOK, RxTypeOK

LEMMA RequestTypes ==
    ASSUME TypeOK
    PROVE  /\ \A f \in net : f.psn \in Nat /\ f.pkt \in Packet
           /\ \A a \in resp : a.psn \in Nat /\ a.nak \in BOOLEAN
           /\ \A p \in Nat : hbm[Slot(p)] \in Packet /\ Slot(p) \in Slots
  BY SlotType DEF TypeOK, RingTypeOK, Requests, Answers

LEMMA WindowTypes ==
    ASSUME TypeOK
    PROVE  WindowPSN \subseteq Nat /\ \A p \in WindowPSN : p >= readPSN /\ p < writePSN
  BY DEF WindowPSN, TypeOK, RingTypeOK

-----------------------------------------------------------------------------
(* Answers and the slots they speak of *)

LEMMA AnswerInit == InitEstablished => AnswerInv
<1> SUFFICES ASSUME InitEstablished PROVE AnswerInv
  OBVIOUS
<1>1. Cardinality(QP) \in Nat
  BY FS_CardinalityType, QPAssumption
<1>2. WindowPSN = {}
  BY <1>1 DEF InitEstablished, EstablishedRing, IdleRing, WindowPSN
<1> QED
  BY <1>2
  DEF InitEstablished, QuietNet, AnswerInv, RequestsStored, AnswersTrue, AckedArrived

\* Steps that neither store nor deliver nor acknowledge.
LEMMA AnswerFrame ==
    ASSUME AnswerInv, UNCHANGED <<hbm, rx, writePSN>>, net' \subseteq net,
           resp' \subseteq resp, WindowPSN' \subseteq WindowPSN,
           \A p \in WindowPSN' : status'[Slot(p)] = Acked => status[Slot(p)] = Acked
    PROVE  AnswerInv'
<1>1. RequestsStored' /\ AnswersTrue'
  BY DEF AnswerInv, RequestsStored, AnswersTrue, StillStored, Arrived
<1>2. AckedArrived'
  BY DEF AnswerInv, AckedArrived, Arrived
<1> QED
  BY <1>1, <1>2 DEF AnswerInv

\* A packet is stored over a slot whose own answers no longer count.
LEMMA StoreAnswer ==
    ASSUME TypeOK, TypeOK', RingInv, Sized, AnswerInv, NEW pkt \in Packet, Store(pkt),
           outToWRITE # <<>>, net' = net \cup {Request(writePSN, pkt)},
           UNCHANGED <<rx, resp, readPSN>>
    PROVE  AnswerInv'
<1>1. /\ writePSN \in Nat /\ readPSN \in Nat /\ N \in Nat \ {0}
      /\ Slot(writePSN) \in Slots
      /\ hbm \in [Slots -> Packet]
      /\ status \in [Slots -> {Acked, Refused, TimedOut, Sent}]
  BY NatConstants, SlotType DEF TypeOK, RingTypeOK
<1>2. /\ writePSN' = writePSN + 1
      /\ hbm' = [hbm EXCEPT ![Slot(writePSN)] = pkt]
      /\ status' = [status EXCEPT ![Slot(writePSN)] = Sent]
  BY DEF Store
<1>3. ASSUME NEW p \in Nat, p < writePSN, writePSN' - p <= N
      PROVE  StillStored(p) /\ hbm'[Slot(p)] = hbm[Slot(p)]
  <2>1. (writePSN + 1) - p <= N
    BY <1>1, <1>2, <1>3
  <2>2. Slot(p) # Slot(writePSN)
    BY <1>1, <1>3, <2>1, SlotsApart
  <2>3. Slot(p) \in Slots
    BY SlotType
  <2> QED
    BY <1>1, <1>2, <2>1, <2>2, <2>3 DEF StillStored
<1>4. RequestsStored'
  <2> SUFFICES ASSUME NEW f \in net'
               PROVE  /\ f.psn < writePSN'
                      /\ writePSN' - f.psn <= N => hbm'[Slot(f.psn)] = f.pkt
    BY DEF RequestsStored, StillStored
  <2>1. CASE f = Request(writePSN, pkt)
    BY <1>1, <1>2, <2>1 DEF Request
  <2>2. CASE f \in net
    <3>1. f.psn \in Nat /\ f.psn < writePSN /\ (StillStored(f.psn) => hbm[Slot(f.psn)] = f.pkt)
      BY <2>2, RequestTypes DEF AnswerInv, RequestsStored
    <3> QED
      BY <1>1, <1>2, <1>3, <3>1
  <2> QED
    BY <2>1, <2>2
<1>5. AnswersTrue'
  <2> SUFFICES ASSUME NEW a \in resp
               PROVE  /\ a.psn < writePSN'
                      /\ (~ a.nak /\ writePSN' - a.psn <= N) => Arrived(hbm[Slot(a.psn)])'
    BY DEF AnswersTrue, StillStored
  <2>1. /\ a.psn \in Nat /\ a.psn < writePSN
        /\ (~ a.nak /\ StillStored(a.psn)) => Arrived(hbm[Slot(a.psn)])
    BY RequestTypes DEF AnswerInv, AnswersTrue
  <2>2. ASSUME ~ a.nak, writePSN' - a.psn <= N PROVE Arrived(hbm[Slot(a.psn)])'
    BY <1>3, <2>1, <2>2 DEF Arrived
  <2> QED
    BY <1>1, <1>2, <2>1, <2>2
<1>6. AckedArrived'
  <2> SUFFICES ASSUME NEW p \in WindowPSN', status'[Slot(p)] = Acked
               PROVE  Arrived(hbm[Slot(p)])'
    BY DEF AckedArrived
  <2>1. p \in WindowPSN \/ p = writePSN
    BY <1>1, <1>2 DEF WindowPSN
  <2>2. p \in Nat /\ Slot(p) \in Slots
    BY <1>1, <2>1, WindowTypes, SlotType
  <2>3. Slot(p) # Slot(writePSN)
    BY <1>1, <1>2, <2>2 DEF Acked, Sent
  <2>4. status[Slot(p)] = Acked /\ hbm'[Slot(p)] = hbm[Slot(p)] /\ p \in WindowPSN
    BY <1>1, <1>2, <2>1, <2>2, <2>3
  <2> QED
    BY <2>4 DEF AnswerInv, AckedArrived, Arrived
<1> QED
  BY <1>4, <1>5, <1>6 DEF AnswerInv

\* rx_qp acknowledges what it has passed on, now or before.
LEMMA AckSent ==
    ASSUME TypeOK, TypeOK', AnswerInv, RxGrows, NEW f \in net, Arrived(f.pkt)',
           net' \subseteq net, resp' = resp \cup {Answer(f.psn, FALSE)}, UNCHANGED ringVars
    PROVE  AnswerInv'
<1>1. UNCHANGED <<hbm, status, writePSN, readPSN>>
  BY DEF ringVars
<1>2. \A k \in Packet : Arrived(k) => Arrived(k)'
  BY ArrivedStable
<1>3. AnswersTrue'
  <2> SUFFICES ASSUME NEW a \in resp'
               PROVE  /\ a.psn < writePSN
                      /\ (~ a.nak /\ StillStored(a.psn)) => Arrived(hbm[Slot(a.psn)])'
    BY <1>1 DEF AnswersTrue, StillStored
  <2>1. CASE a \in resp
    <3>1. a.psn \in Nat /\ hbm[Slot(a.psn)] \in Packet
      BY <2>1, RequestTypes
    <3>2. /\ a.psn < writePSN
          /\ (~ a.nak /\ StillStored(a.psn)) => Arrived(hbm[Slot(a.psn)])
      BY <2>1 DEF AnswerInv, AnswersTrue
    <3>3. Arrived(hbm[Slot(a.psn)]) => Arrived(hbm[Slot(a.psn)])'
      BY <1>1, <1>2, <3>1 DEF Arrived
    <3> QED
      BY <3>2, <3>3
  <2>2. CASE a = Answer(f.psn, FALSE)
    <3>1. a.psn = f.psn /\ f.psn < writePSN
      BY <2>2 DEF Answer, AnswerInv, RequestsStored
    <3>2. StillStored(f.psn) => hbm[Slot(f.psn)] = f.pkt
      BY DEF AnswerInv, RequestsStored
    <3>3. Arrived(f.pkt)' => (StillStored(f.psn) => Arrived(hbm[Slot(f.psn)])')
      BY <1>1, <3>2 DEF Arrived
    <3> QED
      BY <3>1, <3>3
  <2> QED
    BY <2>1, <2>2
<1>4. RequestsStored'
  BY <1>1 DEF AnswerInv, RequestsStored, StillStored
<1>5. AckedArrived'
  <2> SUFFICES ASSUME NEW p \in WindowPSN, status[Slot(p)] = Acked
               PROVE  Arrived(hbm[Slot(p)])'
    BY <1>1 DEF AckedArrived, WindowPSN
  <2>1. hbm[Slot(p)] \in Packet /\ Arrived(hbm[Slot(p)])
    BY RequestTypes, WindowTypes DEF AnswerInv, AckedArrived
  <2> QED
    BY <1>1, <1>2, <2>1 DEF Arrived
<1> QED
  BY <1>3, <1>4, <1>5 DEF AnswerInv

\* A refusal marks nothing as arrived.
LEMMA NakSent ==
    ASSUME TypeOK, AnswerInv, NEW f \in net, net' \subseteq net,
           resp' = resp \cup {Answer(f.psn, TRUE)}, UNCHANGED <<ringVars, rx>>
    PROVE  AnswerInv'
<1>1. UNCHANGED <<hbm, status, writePSN, readPSN, rx>>
  BY DEF ringVars
<1>2. f.psn < writePSN
  BY DEF AnswerInv, RequestsStored
<1>3. Answer(f.psn, TRUE).psn = f.psn /\ Answer(f.psn, TRUE).nak
  BY DEF Answer
<1> QED
  BY <1>1, <1>2, <1>3
  DEF AnswerInv, RequestsStored, AnswersTrue, AckedArrived, StillStored, Arrived, WindowPSN

\* The view is shorter than a round, so the slot an answer is written to is its own.
LEMMA AnswerTaken ==
    ASSUME TypeOK, RingInv, Sized, AnswerInv, NEW a \in resp, RecvAnswer(a)
    PROVE  AnswerInv'
<1>1. /\ writePSN \in Nat /\ readPSN \in Nat /\ rSeen \in Nat /\ wSeen \in Nat
      /\ rSeen <= readPSN /\ readPSN <= wSeen /\ wSeen <= writePSN
      /\ writePSN - rSeen <= RetrGate + PipeCap
      /\ RetrGate \in Nat /\ PipeCap \in Nat /\ ReadLead \in Nat \ {0} /\ N \in Nat \ {0}
  BY NatConstants DEF TypeOK, RingTypeOK, RingInv, CursorsOrdered, WindowFits
<1>2. UNCHANGED <<hbm, rx, writePSN, readPSN, net>> /\ resp' \subseteq resp
  BY DEF RecvAnswer, RecvResponse, rxVars
<1>3. a.psn \in Nat /\ a.psn < writePSN /\ Slot(a.psn) \in Slots
  BY RequestTypes DEF AnswerInv, AnswersTrue
<1>4. writePSN - rSeen < N
  BY <1>1 DEF Sized
<1>5. CASE ~ InView(a.psn) \/ a.nak
  <2>1. \A p \in WindowPSN : status'[Slot(p)] = Acked => status[Slot(p)] = Acked
    <3> SUFFICES ASSUME NEW p \in WindowPSN, status'[Slot(p)] = Acked
                 PROVE  status[Slot(p)] = Acked
      OBVIOUS
    <3>1. Slot(p) \in Slots
      BY RequestTypes, WindowTypes
    <3> QED
      BY <1>3, <1>5, <3>1
      DEF RecvAnswer, RecvResponse, TypeOK, RingTypeOK, Acked, Refused
  <2> QED
    BY <1>2, <2>1, AnswerFrame DEF WindowPSN
<1>6. CASE InView(a.psn) /\ ~ a.nak
  <2>1. rSeen <= a.psn
    BY <1>1, <1>3, <1>6 DEF InView
  <2>2. Arrived(hbm[Slot(a.psn)])
    BY <1>1, <1>3, <1>4, <1>6, <2>1 DEF AnswerInv, AnswersTrue, StillStored
  <2>3. AckedArrived'
    <3> SUFFICES ASSUME NEW p \in WindowPSN, status'[Slot(p)] = Acked
                 PROVE  Arrived(hbm[Slot(p)])
      BY <1>2 DEF AckedArrived, WindowPSN, Arrived
    <3>1. p \in Nat /\ readPSN <= p /\ p < writePSN /\ Slot(p) \in Slots
      BY RequestTypes, WindowTypes
    <3>2. CASE Slot(p) # Slot(a.psn)
      <4>1. status[Slot(p)] = Acked
        BY <1>3, <3>1, <3>2 DEF RecvAnswer, RecvResponse, TypeOK, RingTypeOK
      <4> QED
        BY <4>1 DEF AnswerInv, AckedArrived
    <3>3. CASE Slot(p) = Slot(a.psn)
      BY <2>2, <3>3
    <3> QED
      BY <3>2, <3>3
  <2> QED
    BY <1>2, <2>3 DEF AnswerInv, RequestsStored, AnswersTrue, StillStored, Arrived
<1> QED
  BY <1>5, <1>6

LEMMA AnswerStep ==
    ASSUME Sized
    PROVE  /\ TypeOK /\ TypeOK' /\ RingInv /\ InStep /\ StreamInv /\ AnswerInv
           /\ [Next]_vars
           => AnswerInv'
<1> SUFFICES ASSUME TypeOK, TypeOK', RingInv, InStep, StreamInv, AnswerInv, [Next]_vars
             PROVE  AnswerInv'
  OBVIOUS
<1>a. ASSUME UNCHANGED <<hbm, rx, writePSN, readPSN, status>>, net' \subseteq net,
             resp' \subseteq resp
      PROVE  AnswerInv'
  BY <1>a, AnswerFrame DEF WindowPSN
<1>1. ASSUME NEW q \in QP, SyncUser(q), UNCHANGED <<rxVars, netVars>> PROVE AnswerInv'
  BY <1>1, <1>a DEF SyncUser, rxVars, netVars
<1>2. CASE SyncRetransmit /\ UNCHANGED <<rxVars, netVars>>
  BY <1>2, <1>a DEF SyncRetransmit, rxVars, netVars
<1>3. CASE (TxDiscard \/ TxReject) /\ UNCHANGED <<rxVars, netVars>>
  BY <1>3, <1>a DEF TxDiscard, TxReject, rxVars, netVars
<1>4. CASE AnnounceWritePSN /\ UNCHANGED <<rxVars, netVars>>
  BY <1>4, <1>a DEF AnnounceWritePSN, rxVars, netVars
<1>5. CASE SkipAcked /\ UNCHANGED <<rxVars, netVars>>
  <2>1. UNCHANGED <<hbm, rx, writePSN, net, resp, status>> /\ readPSN' = readPSN + 1
    BY <1>5 DEF SkipAcked, rxVars, netVars
  <2>2. WindowPSN' \subseteq WindowPSN
    BY <2>1 DEF WindowPSN, TypeOK, RingTypeOK
  <2> QED
    BY <2>1, <2>2, AnswerFrame
<1>6. CASE HandOver /\ UNCHANGED <<rxVars, netVars>>
  <2>1. /\ UNCHANGED <<hbm, rx, writePSN, net, resp>> /\ readPSN' = readPSN + 1
        /\ status' = [status EXCEPT ![Slot(readPSN)] = Acked]
    BY <1>6 DEF HandOver, rxVars, netVars
  <2>2. /\ readPSN \in Nat /\ writePSN \in Nat /\ rSeen \in Nat
        /\ rSeen <= readPSN /\ readPSN <= writePSN /\ writePSN - rSeen < N
    BY NatConstants
    DEF TypeOK, RingTypeOK, RingInv, CursorsOrdered, WindowFits, Sized
  <2>3. ASSUME NEW p \in WindowPSN' PROVE p \in WindowPSN /\ status'[Slot(p)] = status[Slot(p)]
    <3>1. p \in Nat /\ readPSN < p /\ p < writePSN
      BY <2>1, <2>2 DEF WindowPSN
    <3>2. p - readPSN < N
      BY <2>2, <3>1, NatConstants
    <3>3. Slot(p) # Slot(readPSN)
      BY <2>2, <3>1, <3>2, SlotsApart
    <3>4. Slot(p) \in Slots
      BY <3>1, SlotType
    <3> QED
      BY <2>1, <2>2, <3>1, <3>3, <3>4 DEF WindowPSN, TypeOK, RingTypeOK
  <2> QED
    BY <2>1, <2>3, AnswerFrame
<1>7. CASE PublishReadPSN /\ UNCHANGED <<rxVars, netVars>>
  BY <1>7, <1>a DEF PublishReadPSN, rxVars, netVars
<1>8. CASE ReadSlot /\ UNCHANGED <<rxVars, netVars>>
  BY <1>8, <1>a DEF ReadSlot, rxVars, netVars
<1>9. CASE TimeoutFire /\ UNCHANGED <<rxVars, netVars>>
  <2>1. /\ UNCHANGED <<hbm, rx, writePSN, readPSN, net, resp>>
        /\ status' = [status EXCEPT ![Slot(tmo)] = TimedOut]
    BY <1>9 DEF TimeoutFire, rxVars, netVars
  <2>2. ASSUME NEW p \in WindowPSN, status'[Slot(p)] = Acked PROVE status[Slot(p)] = Acked
    <3>1. Slot(p) \in Slots
      BY RequestTypes, WindowTypes
    <3> QED
      BY <2>1, <2>2, <3>1 DEF TypeOK, RingTypeOK, Acked, TimedOut
  <2> QED
    BY <2>1, <2>2, AnswerFrame DEF WindowPSN
<1>10. CASE SendUser
  <2>1. /\ outToWRITE # <<>> /\ Store(Outgoing) /\ UNCHANGED <<rx, resp, readPSN>>
        /\ net' = net \cup {Request(writePSN, Outgoing)}
    BY <1>10 DEF SendUser, TxAcceptUser, HeadIsUser, rxVars
  <2> QED
    BY <2>1, HeaderTypes, StoreAnswer
<1>11. CASE SendRetransmit
  <2>1. /\ outToWRITE # <<>> /\ Store(Outgoing) /\ UNCHANGED <<rx, resp, readPSN>>
        /\ net' = net \cup {Request(writePSN, Outgoing)}
    BY <1>11 DEF SendRetransmit, TxAcceptRetransmit, HeadIsRetr, rxVars
  <2> QED
    BY <2>1, HeaderTypes, StoreAnswer
<1>12. ASSUME NEW f \in net, Deliver(f) PROVE AnswerInv'
  <2>1. /\ net' \subseteq net /\ resp' = resp \cup {Answer(f.psn, FALSE)}
        /\ UNCHANGED ringVars
    BY <1>12 DEF Deliver
  <2>2. RxGrows /\ rx'[f.pkt.qp] = f.pkt.msn + 1
    BY <1>12, DeliverGrows
  <2>3. Arrived(f.pkt)'
    BY <2>2, RequestTypes DEF Arrived, Packet
  <2> QED
    BY <2>1, <2>2, <2>3, AckSent
<1>13. ASSUME NEW f \in net, AnswerDuplicate(f) PROVE AnswerInv'
  <2>1. /\ net' \subseteq net /\ resp' = resp \cup {Answer(f.psn, FALSE)}
        /\ UNCHANGED ringVars /\ rx' = rx /\ f.pkt.msn < rx[f.pkt.qp]
    BY <1>13 DEF AnswerDuplicate, RxDuplicate, Seen, rxVars
  <2>2. RxGrows /\ Arrived(f.pkt)'
    BY <2>1, RxStill DEF Arrived
  <2> QED
    BY <2>1, <2>2, AckSent
<1>14. ASSUME NEW f \in net, AnswerGap(f) PROVE AnswerInv'
  BY <1>14, NakSent DEF AnswerGap, RxGap, rxVars
<1>15. ASSUME NEW a \in resp, RecvAnswer(a) PROVE AnswerInv'
  BY <1>15, AnswerTaken
<1>16. ASSUME NEW f \in net, LoseRequest(f) PROVE AnswerInv'
  BY <1>16, <1>a DEF LoseRequest, ringVars, rxVars
<1>17. ASSUME NEW a \in resp, LoseAnswer(a) PROVE AnswerInv'
  BY <1>17, <1>a DEF LoseAnswer, ringVars, rxVars
<1>18. CASE SampleTimeout
  BY <1>18, <1>a DEF SampleTimeout, TimeoutSample, rxVars
<1>19. CASE UNCHANGED vars
  BY <1>19, <1>a DEF vars, ringVars, rxVars, netVars
<1> QED
  BY <1>1, <1>2, <1>3, <1>4, <1>5, <1>6, <1>7, <1>8, <1>9, <1>10, <1>11, <1>12,
     <1>13, <1>14, <1>15, <1>16, <1>17, <1>18, <1>19
  DEF Next, Engine, EngineStep, Receive

-----------------------------------------------------------------------------
(* Every packet that has not arrived is still held *)

LEMMA LossInit == InitEstablished => NothingLost
<1> SUFFICES ASSUME InitEstablished, NEW q \in QP, NEW m \in rx[q] .. Len(log[q]) - 1
             PROVE  Held(q, m)
  BY DEF NothingLost
<1>1. rx[q] = 1 /\ log[q] = <<0>>
  BY DEF InitEstablished, EstablishedRing, EstablishedRx
<1> QED
  BY <1>1

\* No packet is added, and the ones that have not arrived are kept.
LEMMA LossFrame ==
    ASSUME TypeOK, TypeOK', NothingLost, RxGrows, log' = log,
           \A q \in QP : \A m \in Nat : (rx[q] <= m /\ Held(q, m)) => Held(q, m)'
    PROVE  NothingLost'
<1> SUFFICES ASSUME NEW q \in QP, NEW m \in rx'[q] .. Len(log'[q]) - 1 PROVE Held(q, m)'
  BY DEF NothingLost
<1>1. rx[q] \in Nat /\ rx'[q] \in Nat /\ rx[q] <= rx'[q]
  BY DEF TypeOK, RxTypeOK, RxGrows
<1>2. log[q] \in Seq(Nat) /\ Len(log[q]) \in Nat /\ log'[q] = log[q]
  BY LenProperties DEF TypeOK, RingTypeOK
<1>3. m \in Nat /\ rx[q] <= m /\ m \in rx[q] .. Len(log[q]) - 1
  BY <1>1, <1>2
<1>4. Held(q, m)
  BY <1>3 DEF NothingLost
<1> QED
  BY <1>3, <1>4

\* Where a packet can be held.
HeldInSlot(q, m, p) == Carries(hbm[Slot(p)], q, m)

LEMMA HeldCases ==
    ASSUME NEW q, NEW m, Held(q, m)
    PROVE  \/ \E p \in LivePSN : HeldInSlot(q, m, p)
           \/ \E i \in 1 .. Len(retrHdr) : Carries(retrHdr[i].pkt, q, m)
           \/ \E i \in 1 .. Len(outToWRITE) :
                 outToWRITE[i].type # 0 /\ Carries(outToWRITE[i].pkt, q, m)
  BY DEF Held, HeldInSlot

\* tx_write stores the head of its queue; every slot in use keeps its packet.
LEMMA StoreHeld ==
    ASSUME TypeOK, RingInv, Sized, outToWRITE # <<>>, Store(Outgoing),
           outToWRITE' = Tail(outToWRITE), UNCHANGED <<readPSN, pend, retrHdr>>,
           NEW q \in QP, NEW m \in Nat, Held(q, m),
           Head(outToWRITE).type # 0 => Outgoing = Head(outToWRITE).pkt
    PROVE  Held(q, m)'
<1>1. /\ writePSN' = writePSN + 1
      /\ hbm' = [hbm EXCEPT ![Slot(writePSN)] = Outgoing]
      /\ writePSN \in Nat /\ readPSN \in Nat /\ readPSN <= writePSN
      /\ Slot(writePSN) \in Slots
      /\ hbm \in [Slots -> Packet]
      /\ outToWRITE \in Seq(Header)
  BY SlotType DEF Store, TypeOK, RingTypeOK, RingInv, CursorsOrdered
<1>2. LivePSN \cup {writePSN} \subseteq LivePSN'
  BY <1>1 DEF LivePSN, WindowPSN, PendingPSN
<1>3. CASE \E p \in LivePSN : HeldInSlot(q, m, p)
  <2>1. PICK p \in LivePSN : Carries(hbm[Slot(p)], q, m)
    BY <1>3 DEF HeldInSlot
  <2>2. Slot(p) # Slot(writePSN) /\ p \in Nat
    BY NextSlotFree, LiveType
  <2>3. hbm'[Slot(p)] = hbm[Slot(p)]
    BY <1>1, <2>2, SlotType
  <2> QED
    BY <1>2, <2>1, <2>3 DEF Held, Carries
<1>4. CASE \E i \in 1 .. Len(retrHdr) : Carries(retrHdr[i].pkt, q, m)
  BY <1>4 DEF Held, Carries
<1>5. CASE \E i \in 1 .. Len(outToWRITE) :
              outToWRITE[i].type # 0 /\ Carries(outToWRITE[i].pkt, q, m)
  <2>1. PICK i \in 1 .. Len(outToWRITE) :
              outToWRITE[i].type # 0 /\ Carries(outToWRITE[i].pkt, q, m)
    BY <1>5
  <2>2. /\ Head(outToWRITE) = outToWRITE[1]
        /\ Len(outToWRITE) \in Nat
        /\ Len(outToWRITE') = Len(outToWRITE) - 1
        /\ \A j \in 1 .. Len(outToWRITE') : outToWRITE'[j] = outToWRITE[j + 1]
    BY <1>1, HeadTailProperties, HeadElement, LenProperties
  <2>3. CASE i = 1
    <3>1. hbm'[Slot(writePSN)] = Outgoing /\ Carries(Outgoing, q, m)
      BY <1>1, <2>1, <2>2, <2>3
    <3> QED
      BY <1>2, <3>1 DEF Held, Carries
  <2>4. CASE i # 1
    <3>1. i - 1 \in 1 .. Len(outToWRITE') /\ outToWRITE'[i - 1] = outToWRITE[i]
      BY <2>2, <2>4
    <3> QED
      BY <2>1, <3>1 DEF Held, Carries
  <2> QED
    BY <2>3, <2>4
<1> QED
  BY <1>3, <1>4, <1>5, HeldCases

\* A user packet is held from the moment it has its number.
LEMMA LossUser ==
    ASSUME TypeOK, TypeOK', RingInv, Sized, StreamInv, NothingLost, SendUser
    PROVE  NothingLost'
<1> DEFINE k == Outgoing
<1>1. /\ outToWRITE # <<>> /\ Head(outToWRITE).type = 0 /\ Store(k)
      /\ outToWRITE' = Tail(outToWRITE) /\ UNCHANGED <<readPSN, pend, retrHdr, rx>>
      /\ log' = [log EXCEPT ![k.qp] = Append(log[k.qp], k.data)]
  BY DEF SendUser, TxAcceptUser, HeadIsUser, TakePacket, rxVars
<1>2. k \in Packet /\ k.qp \in QP /\ k.data \in Nat /\ k.msn = Len(log[k.qp])
  <2>1. k \in Packet /\ Head(outToWRITE) \in Header
    BY <1>1, HeaderTypes
  <2>2. k.msn = msn[k.qp]
    BY <1>1, <2>1 DEF Outgoing, Numbered, Header, Packet
  <2> QED
    BY <2>1, <2>2 DEF StreamInv, CountersFollow, Packet
<1> HIDE DEF k
<1> SUFFICES ASSUME NEW q \in QP, NEW m \in rx[q] .. Len(log'[q]) - 1 PROVE Held(q, m)'
  BY <1>1 DEF NothingLost
<1>3. rx[q] \in Nat /\ log[q] \in Seq(Nat) /\ Len(log[q]) \in Nat
  BY LenProperties DEF TypeOK, RingTypeOK, RxTypeOK
<1>4. CASE q = k.qp /\ m = Len(log[q])
  <2>1. /\ writePSN' = writePSN + 1 /\ writePSN \in Nat /\ readPSN \in Nat
        /\ readPSN <= writePSN /\ Slot(writePSN) \in Slots
        /\ hbm' = [hbm EXCEPT ![Slot(writePSN)] = k]
        /\ hbm \in [Slots -> Packet]
    <3>1. /\ writePSN \in Nat /\ readPSN \in Nat /\ wSeen \in Nat
          /\ hbm \in [Slots -> Packet]
      BY DEF TypeOK, RingTypeOK
    <3>3. readPSN <= writePSN
      BY <3>1 DEF RingInv, CursorsOrdered
    <3>2. writePSN' = writePSN + 1 /\ hbm' = [hbm EXCEPT ![Slot(writePSN)] = k]
      BY <1>1 DEF Store
    <3> QED
      BY <3>1, <3>2, <3>3, SlotType
  <2>2. writePSN \in LivePSN' /\ hbm'[Slot(writePSN)] = k
    BY <1>1, <2>1 DEF LivePSN, WindowPSN
  <2> QED
    BY <1>2, <1>4, <2>2 DEF Held, Carries
<1>5. CASE ~ (q = k.qp /\ m = Len(log[q]))
  <2>1. log'[q] = IF q = k.qp THEN Append(log[q], k.data) ELSE log[q]
    BY <1>1, <1>2 DEF TypeOK, RingTypeOK
  <2>2. Len(log'[q]) = IF q = k.qp THEN Len(log[q]) + 1 ELSE Len(log[q])
    BY <1>2, <1>3, <2>1, AppendProperties
  <2>3. m \in Nat /\ m \in rx[q] .. Len(log[q]) - 1
    BY <1>3, <1>5, <2>2
  <2>4. Held(q, m)
    BY <2>3 DEF NothingLost
  <2> QED
    BY <1>1, <2>3, <2>4, StoreHeld DEF k
<1> QED
  BY <1>4, <1>5

LEMMA LossRetransmit ==
    ASSUME TypeOK, TypeOK', RingInv, Sized, InStep, NothingLost, SendRetransmit
    PROVE  NothingLost'
<1>1. /\ outToWRITE # <<>> /\ Store(Outgoing) /\ outToWRITE' = Tail(outToWRITE)
      /\ UNCHANGED <<readPSN, pend, retrHdr, rx, log>>
  BY DEF SendRetransmit, TxAcceptRetransmit, HeadIsRetr, TakePacket, rxVars, streamVars
<1>2. Head(outToWRITE).type # 0 /\ Outgoing = Head(outToWRITE).pkt
  <2>1. Head(outToWRITE).type # 0 /\ Head(outToWRITE) \in Header
    BY <1>1, HeaderTypes DEF SendRetransmit, TxAcceptRetransmit, HeadIsRetr
  <2>2. Head(outToWRITE) = outToWRITE[1] /\ 1 \in 1 .. Len(outToWRITE)
    BY <1>1, HeadElement DEF TypeOK, RingTypeOK
  <2>3. Head(outData) = Head(outToWRITE).pkt.data
    <3>1. outData # <<>>
      BY <2>2, EmptySeq DEF InStep, TypeOK, RingTypeOK
    <3> QED
      BY <2>2, <3>1, HeadElement DEF InStep, TypeOK, RingTypeOK
  <2> QED
    BY <2>1, <2>3 DEF Outgoing, Numbered, Header, Packet
<1>3. RxGrows
  BY <1>1, RxStill
<1> QED
  BY <1>1, <1>2, <1>3, StoreHeld, LossFrame

\* No header counts more than one retransmission.
LEMMA NoDiscard == ASSUME TypeOK, StreamInv, MaxRetr >= 1 PROVE ~ TxDiscard
<1> SUFFICES ASSUME TxDiscard PROVE FALSE
  OBVIOUS
<1>1. 1 \in 1 .. Len(outToWRITE) /\ Head(outToWRITE) = outToWRITE[1]
  BY HeadElement DEF TxDiscard, HeadIsRetr, TypeOK, RingTypeOK
<1>2. Head(outToWRITE) \in Header
  BY HeaderTypes DEF TxDiscard, HeadIsRetr
<1>3. Head(outToWRITE).nRetrans <= 1 /\ Head(outToWRITE).nRetrans \in Nat
  BY <1>1, <1>2 DEF StreamInv, CopiesAgree, HeaderInv, Header
<1> QED
  BY <1>3, NatConstants DEF TxDiscard, WithinLimit

LEMMA LossStep ==
    ASSUME Sized, MaxRetr >= 1
    PROVE  /\ TypeOK /\ TypeOK' /\ RingInv /\ InStep /\ StreamInv /\ AnswerInv
           /\ GrantHasRoom /\ NothingLost /\ [Next]_vars
           => NothingLost'
<1> SUFFICES ASSUME TypeOK, TypeOK', RingInv, InStep, StreamInv, AnswerInv, GrantHasRoom,
                    NothingLost, [Next]_vars
             PROVE  NothingLost'
  OBVIOUS
<1>t. /\ outToWRITE \in Seq(Header) /\ Len(outToWRITE) \in Nat
      /\ retrHdr \in Seq(RetrHeader) /\ Len(retrHdr) \in Nat
      /\ pend \in Seq([psn : Nat, status : {Refused, TimedOut}]) /\ Len(pend) \in Nat
      /\ readPSN \in Nat /\ writePSN \in Nat /\ wSeen \in Nat
      /\ readPSN <= wSeen /\ wSeen <= writePSN
  BY LenProperties DEF TypeOK, RingTypeOK, RingInv, CursorsOrdered
<1>a. ASSUME UNCHANGED <<hbm, log, readPSN, writePSN, pend, retrHdr, outToWRITE>>, RxGrows
      PROVE  NothingLost'
  <2>1. ASSUME NEW q \in QP, NEW m \in Nat, Held(q, m) PROVE Held(q, m)'
    BY <1>a, <2>1 DEF Held, Carries, LivePSN, WindowPSN, PendingPSN
  <2> QED
    BY <1>a, <2>1, LossFrame
<1>1. ASSUME NEW q \in QP, SyncUser(q), UNCHANGED <<rxVars, netVars>> PROVE NothingLost'
  <2>1. UserHeader(q) \in Header
    BY DEF UserHeader, Header, Packet, TypeOK, RingTypeOK
  <2>2. /\ UNCHANGED <<hbm, log, readPSN, writePSN, pend, retrHdr, rx>>
        /\ Len(outToWRITE') = Len(outToWRITE) + 1
        /\ \A i \in 1 .. Len(outToWRITE) : outToWRITE'[i] = outToWRITE[i]
    BY <1>1, <1>t, <2>1, AppendProperties DEF SyncUser, Grant, rxVars, streamVars
  <2>3. ASSUME NEW r \in QP, NEW m \in Nat, Held(r, m) PROVE Held(r, m)'
    <3>1. LivePSN' = LivePSN
      BY <2>2 DEF LivePSN, WindowPSN, PendingPSN
    <3>2. \A i \in 1 .. Len(outToWRITE) : i \in 1 .. Len(outToWRITE')
      BY <1>t, <2>2
    <3>3. CASE \E p \in LivePSN : HeldInSlot(r, m, p)
      BY <2>2, <3>1, <3>3 DEF Held, HeldInSlot, Carries
    <3>4. CASE \E i \in 1 .. Len(retrHdr) : Carries(retrHdr[i].pkt, r, m)
      BY <2>2, <3>4 DEF Held, Carries
    <3>5. CASE \E i \in 1 .. Len(outToWRITE) :
                  outToWRITE[i].type # 0 /\ Carries(outToWRITE[i].pkt, r, m)
      BY <2>2, <3>2, <3>5 DEF Held, Carries
    <3> QED
      BY <2>3, <3>3, <3>4, <3>5, HeldCases
  <2> QED
    BY <2>2, <2>3, RxStill, LossFrame
<1>2. CASE SyncRetransmit /\ UNCHANGED <<rxVars, netVars>>
  <2>1. Head(retrHdr) \in Header /\ Head(retrHdr).type # 0 /\ Head(retrHdr) = retrHdr[1]
    BY <1>2, <1>t, HeadElement, HeadTailProperties, RetrHeaders DEF SyncRetransmit
  <2>2. /\ UNCHANGED <<hbm, log, readPSN, writePSN, pend, rx>>
        /\ Len(outToWRITE') = Len(outToWRITE) + 1
        /\ \A i \in 1 .. Len(outToWRITE) : outToWRITE'[i] = outToWRITE[i]
        /\ outToWRITE'[Len(outToWRITE) + 1] = retrHdr[1]
    BY <1>2, <1>t, <2>1, AppendProperties DEF SyncRetransmit, Grant, rxVars, streamVars
  <2>3. /\ Len(retrHdr') = Len(retrHdr) - 1
        /\ \A i \in 1 .. Len(retrHdr') : retrHdr'[i] = retrHdr[i + 1]
    BY <1>2, <1>t, HeadTailProperties DEF SyncRetransmit
  <2>4. ASSUME NEW q \in QP, NEW m \in Nat, Held(q, m) PROVE Held(q, m)'
    <3>1. CASE \E p \in LivePSN : HeldInSlot(q, m, p)
      BY <2>2, <3>1 DEF Held, HeldInSlot, Carries, LivePSN, WindowPSN, PendingPSN
    <3>2. CASE \E i \in 1 .. Len(retrHdr) : Carries(retrHdr[i].pkt, q, m)
      <4>1. PICK i \in 1 .. Len(retrHdr) : Carries(retrHdr[i].pkt, q, m)
        BY <3>2
      <4>2. CASE i = 1
        <5>1. Len(outToWRITE) + 1 \in 1 .. Len(outToWRITE')
          BY <1>t, <2>2
        <5> QED
          BY <2>1, <2>2, <4>1, <4>2, <5>1 DEF Held, Carries
      <4>3. CASE i # 1
        <5>1. i - 1 \in 1 .. Len(retrHdr') /\ retrHdr'[i - 1] = retrHdr[i]
          BY <1>t, <2>3, <4>3
        <5> QED
          BY <4>1, <5>1 DEF Held, Carries
      <4> QED
        BY <4>2, <4>3
    <3>3. CASE \E i \in 1 .. Len(outToWRITE) :
                  outToWRITE[i].type # 0 /\ Carries(outToWRITE[i].pkt, q, m)
      BY <1>t, <2>2, <3>3 DEF Held, Carries
    <3> QED
      BY <2>4, <3>1, <3>2, <3>3, HeldCases
  <2> QED
    BY <2>2, <2>4, RxStill, LossFrame
<1>3. CASE TxDiscard
  BY <1>3, NoDiscard
<1>4. CASE TxReject
  BY <1>4 DEF TxReject, GrantHasRoom, HeadIsUser, HeadIsRetr
<1>5. CASE AnnounceWritePSN /\ UNCHANGED <<rxVars, netVars>>
  BY <1>5, <1>a, RxStill DEF AnnounceWritePSN, rxVars, pipeVars, streamVars
<1>6. CASE SkipAcked /\ UNCHANGED <<rxVars, netVars>>
  <2>1. UNCHANGED <<hbm, log, writePSN, pend, retrHdr, outToWRITE, rx>> /\ readPSN' = readPSN + 1
    BY <1>6 DEF SkipAcked, rxVars, pipeVars, streamVars
  <2>2. Arrived(hbm[Slot(readPSN)])
    <3>1. readPSN \in WindowPSN /\ status[Slot(readPSN)] = Acked
      BY <1>6, <1>t DEF SkipAcked, WindowPSN, CurrentStatus
    <3> QED
      BY <3>1 DEF AnswerInv, AckedArrived
  <2>3. ASSUME NEW q \in QP, NEW m \in Nat, rx[q] <= m, Held(q, m) PROVE Held(q, m)'
    <3>1. CASE \E p \in LivePSN : HeldInSlot(q, m, p)
      <4>1. PICK p \in LivePSN : Carries(hbm[Slot(p)], q, m)
        BY <3>1 DEF HeldInSlot
      <4>2. Slot(p) # Slot(readPSN)
        BY <2>2, <2>3, <4>1 DEF Arrived, Carries, TypeOK, RxTypeOK
      <4>3. p \in LivePSN'
        BY <1>t, <2>1, <4>2 DEF LivePSN, WindowPSN, PendingPSN
      <4> QED
        BY <2>1, <4>1, <4>3 DEF Held, Carries
    <3>2. CASE \E i \in 1 .. Len(retrHdr) : Carries(retrHdr[i].pkt, q, m)
      BY <2>1, <3>2 DEF Held, Carries
    <3>3. CASE \E i \in 1 .. Len(outToWRITE) :
                  outToWRITE[i].type # 0 /\ Carries(outToWRITE[i].pkt, q, m)
      BY <2>1, <3>3 DEF Held, Carries
    <3> QED
      BY <2>3, <3>1, <3>2, <3>3, HeldCases
  <2> QED
    BY <2>1, <2>3, RxStill, LossFrame
<1>7. CASE HandOver /\ UNCHANGED <<rxVars, netVars>>
  <2> DEFINE h == [psn |-> readPSN, status |-> CurrentStatus]
  <2>1. h \in [psn : Nat, status : {Refused, TimedOut}] /\ h.psn = readPSN
    BY <1>7 DEF HandOver, Retransmittable, TypeOK, RingTypeOK
  <2> HIDE DEF h
  <2>2. /\ Len(pend') = Len(pend) + 1
        /\ \A i \in 1 .. Len(pend) : pend'[i] = pend[i]
        /\ pend'[Len(pend) + 1] = h
        /\ UNCHANGED <<hbm, log, writePSN, retrHdr, outToWRITE, rx>> /\ readPSN' = readPSN + 1
    BY <1>7, <1>t, <2>1, AppendProperties DEF HandOver, h, rxVars, pipeVars, streamVars
  <2>3. LivePSN \subseteq LivePSN'
    <3>1. Len(pend) + 1 \in 1 .. Len(pend') /\ \A i \in 1 .. Len(pend) : i \in 1 .. Len(pend')
      BY <1>t, <2>2
    <3>2. readPSN \in PendingPSN'
      BY <2>1, <2>2, <3>1 DEF PendingPSN
    <3>3. PendingPSN \subseteq PendingPSN'
      BY <2>2, <3>1 DEF PendingPSN
    <3>4. WindowPSN \subseteq WindowPSN' \cup {readPSN}
      BY <1>t, <2>2 DEF WindowPSN
    <3> QED
      BY <3>2, <3>3, <3>4 DEF LivePSN
  <2>4. ASSUME NEW q \in QP, NEW m \in Nat, Held(q, m) PROVE Held(q, m)'
    BY <2>2, <2>3, <2>4 DEF Held, Carries
  <2> QED
    BY <2>2, <2>4, RxStill, LossFrame
<1>8. CASE PublishReadPSN /\ UNCHANGED <<rxVars, netVars>>
  BY <1>8, <1>a, RxStill DEF PublishReadPSN, rxVars, pipeVars, streamVars
<1>9. CASE ReadSlot /\ UNCHANGED <<rxVars, netVars>>
  <2> DEFINE h == ReadBack(Head(pend))
  <2>1. /\ Head(pend) = pend[1] /\ h \in RetrHeader /\ h.pkt = hbm[Slot(Head(pend).psn)]
    <3>1. Head(pend) = pend[1] /\ Head(pend) \in [psn : Nat, status : {Refused, TimedOut}]
      BY <1>9, <1>t, HeadElement, HeadTailProperties DEF ReadSlot
    <3>2. hbm[Slot(Head(pend).psn)] \in Packet /\ RetrCount(Head(pend).status) \in Nat
      BY <3>1, RequestTypes DEF RetrCount
    <3> QED
      BY <3>1, <3>2 DEF ReadBack, RetrHeader
  <2> HIDE DEF h
  <2>2. /\ UNCHANGED <<hbm, log, readPSN, writePSN, outToWRITE, rx>>
        /\ Len(pend') = Len(pend) - 1
        /\ \A i \in 1 .. Len(pend') : pend'[i] = pend[i + 1]
        /\ Len(retrHdr') = Len(retrHdr) + 1
        /\ \A i \in 1 .. Len(retrHdr) : retrHdr'[i] = retrHdr[i]
        /\ retrHdr'[Len(retrHdr) + 1] = h
    BY <1>9, <1>t, <2>1, HeadTailProperties, AppendProperties
    DEF ReadSlot, h, rxVars, pipeVars, streamVars
  <2>3. LivePSN \subseteq LivePSN' \cup {pend[1].psn}
    <3>1. ASSUME NEW i \in 1 .. Len(pend), i # 1 PROVE pend[i].psn \in PendingPSN'
      <4>1. i - 1 \in 1 .. Len(pend') /\ (i - 1) + 1 = i
        BY <1>t, <2>2, <3>1
      <4>2. pend'[i - 1] = pend[i]
        BY <2>2, <4>1
      <4> QED
        BY <4>1, <4>2 DEF PendingPSN
    <3> QED
      BY <2>2, <3>1 DEF LivePSN, WindowPSN, PendingPSN
  <2>4. ASSUME NEW q \in QP, NEW m \in Nat, Held(q, m) PROVE Held(q, m)'
    <3>1. CASE \E p \in LivePSN : HeldInSlot(q, m, p)
      <4>1. PICK p \in LivePSN : Carries(hbm[Slot(p)], q, m)
        BY <3>1 DEF HeldInSlot
      <4>2. CASE p \in LivePSN'
        BY <2>2, <4>1, <4>2 DEF Held, Carries
      <4>3. CASE p = pend[1].psn
        <5>1. Len(retrHdr) + 1 \in 1 .. Len(retrHdr') /\ Carries(retrHdr'[Len(retrHdr) + 1].pkt, q, m)
          BY <1>t, <2>1, <2>2, <4>1, <4>3
        <5> QED
          BY <5>1 DEF Held, Carries
      <4> QED
        BY <2>3, <4>2, <4>3
    <3>2. CASE \E i \in 1 .. Len(retrHdr) : Carries(retrHdr[i].pkt, q, m)
      BY <1>t, <2>2, <3>2 DEF Held, Carries
    <3>3. CASE \E i \in 1 .. Len(outToWRITE) :
                  outToWRITE[i].type # 0 /\ Carries(outToWRITE[i].pkt, q, m)
      BY <2>2, <3>3 DEF Held, Carries
    <3> QED
      BY <2>4, <3>1, <3>2, <3>3, HeldCases
  <2> QED
    BY <2>2, <2>4, RxStill, LossFrame
<1>10. CASE TimeoutFire /\ UNCHANGED <<rxVars, netVars>>
  BY <1>10, <1>a, RxStill DEF TimeoutFire, rxVars, pipeVars, streamVars
<1>11. CASE SendUser
  BY <1>11, LossUser
<1>12. CASE SendRetransmit
  BY <1>12, LossRetransmit
<1>13. ASSUME NEW f \in net, Deliver(f) PROVE NothingLost'
  BY <1>13, <1>a, DeliverGrows DEF Deliver, ringVars, pipeVars, streamVars
<1>14. ASSUME NEW f \in net, AnswerDuplicate(f) \/ AnswerGap(f) PROVE NothingLost'
  BY <1>14, <1>a, RxStill
  DEF AnswerDuplicate, AnswerGap, RxDuplicate, RxGap, rxVars, ringVars, pipeVars, streamVars
<1>15. ASSUME NEW a \in resp, RecvAnswer(a) PROVE NothingLost'
  BY <1>15, <1>a, RxStill DEF RecvAnswer, RecvResponse, rxVars, pipeVars, streamVars
<1>16. ASSUME NEW f \in net, LoseRequest(f) PROVE NothingLost'
  BY <1>16, <1>a, RxStill DEF LoseRequest, rxVars, ringVars, pipeVars, streamVars
<1>17. ASSUME NEW a \in resp, LoseAnswer(a) PROVE NothingLost'
  BY <1>17, <1>a, RxStill DEF LoseAnswer, rxVars, ringVars, pipeVars, streamVars
<1>18. CASE SampleTimeout
  BY <1>18, <1>a, RxStill DEF SampleTimeout, TimeoutSample, rxVars, pipeVars, streamVars
<1>19. CASE UNCHANGED vars
  BY <1>19, <1>a, RxStill DEF vars, rxVars, ringVars, pipeVars, streamVars
<1> QED
  BY <1>1, <1>2, <1>3, <1>4, <1>5, <1>6, <1>7, <1>8, <1>9, <1>10, <1>11, <1>12,
     <1>13, <1>14, <1>15, <1>16, <1>17, <1>18, <1>19
  DEF Next, Engine, EngineStep, Receive

-----------------------------------------------------------------------------
\* The whole invariant: types, cursors, streams, copies, answers and packets
\* still held, for every sizing that satisfies Sized.
THEOREM InvariantHolds == ASSUME Sized, MaxRetr >= 1 PROVE Spec => []IInv
<1>1. InitEstablished => IInv
  BY TypeInit, RingInit, InStepInit, StreamInit, AnswerInit, LossInit DEF IInv
<1>2. RingInv => CursorsOrdered
  BY DEF RingInv
<1>3. /\ TypeOK /\ TypeOK' /\ RingInv /\ InStep /\ StreamInv /\ AnswerInv /\ NothingLost
      /\ GrantHasRoom /\ [Next]_vars
      => RingInv' /\ InStep' /\ StreamInv' /\ AnswerInv' /\ NothingLost'
  BY <1>2, RingStep, InStepStep, StreamStep, AnswerStep, LossStep
<1>4. IInv /\ TypeOK' /\ GrantHasRoom /\ [Next]_vars => IInv'
  BY <1>3 DEF IInv
<1> QED
  BY <1>1, <1>4, TypeCorrect, GrantsHaveRoom, PTL DEF Spec

\* tx_write takes every header with its own payload from the two streams.
THEOREM HeadersMeetPayloads == ASSUME Sized, MaxRetr >= 1 PROVE Spec => []InStep
<1>1. IInv => InStep
  BY DEF IInv
<1> QED
  BY <1>1, InvariantHolds, PTL

\* Every copy of a packet in the engine and on the wire bears the number its
\* payload was given in its stream.
THEOREM StreamsAgree == ASSUME Sized, MaxRetr >= 1 PROVE Spec => []StreamInv
<1>1. IInv => StreamInv
  BY DEF IInv
<1> QED
  BY <1>1, InvariantHolds, PTL

\* An answer that tx_checkResponce may still take is true of the packet its
\* slot holds now.
THEOREM AnswersAreTrue == ASSUME Sized, MaxRetr >= 1 PROVE Spec => []AnswerInv
<1>1. IInv => AnswerInv
  BY DEF IInv
<1> QED
  BY <1>1, InvariantHolds, PTL

\* tx_checkCurrent frees a slot as acknowledged only if its packet was delivered.
THEOREM AcksAreTrue == ASSUME Sized, MaxRetr >= 1 PROVE Spec => []AckMeansDelivered
<1>1. IInv => AckMeansDelivered
  <2> SUFFICES ASSUME IInv, NEW p \in readPSN .. wSeen - 1, status[Slot(p)] = Acked
               PROVE  hbm[Slot(p)].msn < rx[hbm[Slot(p)].qp]
    BY DEF AckMeansDelivered
  <2>1. p \in WindowPSN
    BY DEF WindowPSN, IInv, TypeOK, RingTypeOK, RingInv, CursorsOrdered
  <2> QED
    BY <2>1 DEF IInv, AnswerInv, AckedArrived, Arrived
<1> QED
  BY <1>1, InvariantHolds, PTL

\* Whatever the network and the timeouts do, a packet tx_write has numbered
\* and rx_qp has not passed on yet is held by the engine that sent it.
THEOREM NoPacketLost == ASSUME Sized, MaxRetr >= 1 PROVE Spec => []NothingLost
<1>1. IInv => NothingLost
  BY DEF IInv
<1> QED
  BY <1>1, InvariantHolds, PTL

-----------------------------------------------------------------------------
(* The reliable channel.                                                   *)

LEMMA NumberedInit == InitEstablished => NumberedInOrder
<1> SUFFICES ASSUME InitEstablished, NEW q \in QP
             PROVE  /\ Len(log[q]) <= sent[q]
                    /\ \A k \in 1 .. Len(log[q]) : log[q][k] = k - 1
                    /\ Len(log[q]) .. sent[q] - 1 = {}
                    /\ outToWRITE = <<>>
  BY DEF NumberedInOrder
<1>1. log[q] = <<0>> /\ sent[q] = 1 /\ outToWRITE = <<>>
  BY DEF InitEstablished, EstablishedRing, IdleRing
<1> QED
  BY <1>1

\* Steps that neither take a packet nor number one.
LEMMA NumberedFrame ==
    ASSUME NumberedInOrder, UNCHANGED <<sent, log, outToWRITE>>
    PROVE  NumberedInOrder'
<1>1. log' = log /\ sent' = sent /\ outToWRITE' = outToWRITE
  OBVIOUS
<1>2. \A i, q : (First(i, q)' <=> First(i, q)) /\ Brought(i)' = Brought(i)
  BY <1>1 DEF First, Brought
<1> QED
  BY <1>1, <1>2 DEF NumberedInOrder

LEMMA NumberTypes ==
    ASSUME TypeOK
    PROVE  /\ outToWRITE \in Seq(Header) /\ Len(outToWRITE) \in Nat
           /\ retrHdr \in Seq(RetrHeader)
           /\ \A q \in QP : /\ sent[q] \in Nat
                            /\ log[q] \in Seq(Nat)
                            /\ Len(log[q]) \in Nat
           /\ \A i \in 1 .. Len(outToWRITE) : Brought(i) \in Nat
<1>1. \A i \in 1 .. Len(outToWRITE) : outToWRITE[i] \in Header
  BY ElementOfSeq DEF TypeOK, RingTypeOK
<1> QED
  BY <1>1, LenProperties DEF TypeOK, RingTypeOK, Header, Packet, Brought

\* A header joins the queue of tx_write; one of a new packet takes the next payload.
LEMMA NumberedGrant ==
    ASSUME TypeOK, NumberedInOrder, NEW h \in Header, Grant(h), log' = log,
           \/ h.type # 0 /\ sent' = sent
           \/ /\ h.type = 0
              /\ h.pkt.data = sent[h.pkt.qp]
              /\ sent' = [sent EXCEPT ![h.pkt.qp] = @ + 1]
    PROVE  NumberedInOrder'
<1>2. PICK L \in Nat : L = Len(outToWRITE)
  BY NumberTypes
<1>1. /\ Len(outToWRITE') = L + 1
      /\ \A i \in 1 .. L : outToWRITE'[i] = outToWRITE[i]
      /\ outToWRITE'[L + 1] = h
  BY <1>2, NumberTypes, AppendProperties DEF Grant
<1> SUFFICES ASSUME NEW q \in QP
             PROVE  /\ Len(log[q]) <= sent'[q]
                    /\ \A k \in 1 .. Len(log[q]) : log[q][k] = k - 1
                    /\ \A n \in Len(log[q]) .. sent'[q] - 1 :
                          \E i \in 1 .. L + 1 : First(i, q)' /\ Brought(i)' = n
                    /\ \A i \in 1 .. L + 1 :
                          First(i, q)' => Brought(i)' \in Len(log[q]) .. sent'[q] - 1
                    /\ \A i, j \in 1 .. L + 1 :
                          (i < j /\ First(i, q)' /\ First(j, q)') => Brought(i)' < Brought(j)'
  BY <1>1 DEF NumberedInOrder
<1>3. /\ sent[q] \in Nat /\ Len(log[q]) \in Nat /\ Len(log[q]) <= sent[q]
      /\ \A k \in 1 .. Len(log[q]) : log[q][k] = k - 1
      /\ \A n \in Len(log[q]) .. sent[q] - 1 : \E i \in 1 .. L : First(i, q) /\ Brought(i) = n
      /\ \A i \in 1 .. L : First(i, q) => Brought(i) \in Len(log[q]) .. sent[q] - 1
      /\ \A i, j \in 1 .. L : (i < j /\ First(i, q) /\ First(j, q)) => Brought(i) < Brought(j)
  BY <1>2, NumberTypes DEF NumberedInOrder
<1>4. \A i \in 1 .. L : (First(i, q)' <=> First(i, q)) /\ Brought(i)' = Brought(i)
  BY <1>1 DEF First, Brought
<1>5. CASE First(L + 1, q)'
  <2>1. h.type = 0 /\ h.pkt.qp = q
    BY <1>1, <1>5 DEF First
  <2>2. sent'[q] = sent[q] + 1 /\ Brought(L + 1)' = sent[q]
    BY <1>1, <2>1 DEF Brought, TypeOK, RingTypeOK
  <2>3. ASSUME NEW n \in Len(log[q]) .. sent'[q] - 1
        PROVE  \E i \in 1 .. L + 1 : First(i, q)' /\ Brought(i)' = n
    <3>1. CASE n = sent[q]
      <4>1. L + 1 \in 1 .. L + 1
        BY <1>1
      <4> QED
        BY <1>5, <2>2, <3>1, <4>1
    <3>2. CASE n # sent[q]
      <4>1. n \in Len(log[q]) .. sent[q] - 1
        BY <1>3, <2>2, <3>2
      <4>2. PICK i \in 1 .. L : First(i, q) /\ Brought(i) = n
        BY <1>3, <4>1
      <4>3. i \in 1 .. L + 1
        BY <1>1
      <4> QED
        BY <1>4, <4>2, <4>3
    <3> QED
      BY <3>1, <3>2
  <2>4. ASSUME NEW i \in 1 .. L + 1, First(i, q)'
        PROVE  Brought(i)' \in Len(log[q]) .. sent'[q] - 1
    <3>1. CASE i = L + 1
      BY <1>3, <2>2, <3>1
    <3>2. CASE i # L + 1
      <4>1. i \in 1 .. L
        BY <1>1, <3>2
      <4>2. Brought(i) \in Len(log[q]) .. sent[q] - 1 /\ Brought(i)' = Brought(i)
        BY <1>3, <1>4, <2>4, <4>1
      <4> QED
        BY <1>3, <2>2, <4>2
    <3> QED
      BY <3>1, <3>2
  <2>5. ASSUME NEW i \in 1 .. L + 1, NEW j \in 1 .. L + 1, i < j, First(i, q)', First(j, q)'
        PROVE  Brought(i)' < Brought(j)'
    <3>1. i \in 1 .. L
      BY <1>1, <2>5
    <3>2. First(i, q) /\ Brought(i)' = Brought(i) /\ Brought(i) \in Len(log[q]) .. sent[q] - 1
      BY <1>3, <1>4, <2>5, <3>1
    <3>3. CASE j = L + 1
      BY <1>3, <2>2, <3>2, <3>3
    <3>4. CASE j # L + 1
      <4>1. j \in 1 .. L
        BY <1>1, <3>4
      <4> QED
        BY <1>3, <1>4, <2>5, <3>1, <3>2, <4>1
    <3> QED
      BY <3>3, <3>4
  <2> QED
    BY <1>3, <2>2, <2>3, <2>4, <2>5
<1>6. CASE ~ First(L + 1, q)'
  <2>1. ~ (h.type = 0 /\ h.pkt.qp = q)
    BY <1>1, <1>6 DEF First
  <2>2. sent'[q] = sent[q]
    BY <2>1 DEF TypeOK, RingTypeOK
  <2>3. \A i \in 1 .. L + 1 : First(i, q)' => i \in 1 .. L
    BY <1>1, <1>6
  <2>4. 1 .. L \subseteq 1 .. L + 1
    BY <1>1
  <2>5. ASSUME NEW n \in Len(log[q]) .. sent'[q] - 1
        PROVE  \E i \in 1 .. L + 1 : First(i, q)' /\ Brought(i)' = n
    BY <1>3, <1>4, <2>2, <2>4
  <2>6. ASSUME NEW i \in 1 .. L + 1, First(i, q)'
        PROVE  Brought(i)' \in Len(log[q]) .. sent'[q] - 1
    BY <1>3, <1>4, <2>2, <2>3, <2>6
  <2>7. ASSUME NEW i \in 1 .. L + 1, NEW j \in 1 .. L + 1, i < j, First(i, q)', First(j, q)'
        PROVE  Brought(i)' < Brought(j)'
    BY <1>3, <1>4, <2>3, <2>7
  <2> QED
    BY <1>3, <2>2, <2>5, <2>6, <2>7
<1> QED
  BY <1>5, <1>6

\* The payload tx_write takes with a header is the one it was granted with.
LEMMA HeadPacket ==
    ASSUME TypeOK, InStep, outToWRITE # <<>>
    PROVE  /\ 1 \in 1 .. Len(outToWRITE)
           /\ Head(outToWRITE) = outToWRITE[1]
           /\ Outgoing \in Packet
           /\ Outgoing.qp = outToWRITE[1].pkt.qp
           /\ Outgoing.data = Brought(1)
<1>1. 1 \in 1 .. Len(outToWRITE) /\ Head(outToWRITE) = outToWRITE[1]
  BY HeadElement, NumberTypes
<1>2. Head(outData) = Brought(1)
  <2>1. outData # <<>>
    BY <1>1, EmptySeq DEF InStep, TypeOK, RingTypeOK
  <2> QED
    BY <1>1, <2>1, HeadElement DEF InStep, Brought, TypeOK, RingTypeOK
<1>3. Head(outToWRITE) \in Header /\ Outgoing \in Packet
  BY HeaderTypes
<1> QED
  BY <1>1, <1>2, <1>3 DEF Outgoing, Numbered, Header, Packet

\* The head of the queue is numbered, or was numbered before.
LEMMA NumberedTake ==
    ASSUME TypeOK, TypeOK', InStep, NumberedInOrder, sent' = sent,
           SendUser \/ SendRetransmit
    PROVE  NumberedInOrder'
<1>1. outToWRITE # <<>> /\ outToWRITE' = Tail(outToWRITE)
  BY DEF SendUser, SendRetransmit, TxAcceptUser, TxAcceptRetransmit, HeadIsUser, HeadIsRetr,
         TakePacket
<1>2. PICK L \in Nat : L = Len(outToWRITE)
  BY NumberTypes
<1>3. /\ L > 0 /\ Len(outToWRITE') = L - 1
      /\ \A i \in 1 .. L - 1 : outToWRITE'[i] = outToWRITE[i + 1]
  BY <1>1, <1>2, NumberTypes, HeadPacket, HeadTailProperties
<1>4. \A i \in 1 .. L - 1 : \A q :
          (First(i, q)' <=> First(i + 1, q)) /\ Brought(i)' = Brought(i + 1)
  BY <1>3 DEF First, Brought
<1> SUFFICES ASSUME NEW q \in QP
             PROVE  /\ Len(log'[q]) <= sent[q]
                    /\ \A k \in 1 .. Len(log'[q]) : log'[q][k] = k - 1
                    /\ \A n \in Len(log'[q]) .. sent[q] - 1 :
                          \E i \in 1 .. L - 1 : First(i, q)' /\ Brought(i)' = n
                    /\ \A i \in 1 .. L - 1 :
                          First(i, q)' => Brought(i)' \in Len(log'[q]) .. sent[q] - 1
                    /\ \A i, j \in 1 .. L - 1 :
                          (i < j /\ First(i, q)' /\ First(j, q)') => Brought(i)' < Brought(j)'
  BY <1>3 DEF NumberedInOrder
<1>5. PICK c \in Nat : c = Len(log[q])
  BY NumberTypes
<1>6. PICK s \in Nat : s = sent[q]
  BY NumberTypes
<1>7. /\ log[q] \in Seq(Nat) /\ c <= s
      /\ \A k \in 1 .. c : log[q][k] = k - 1
      /\ \A n \in c .. s - 1 : \E i \in 1 .. L : First(i, q) /\ Brought(i) = n
      /\ \A i \in 1 .. L : First(i, q) => Brought(i) \in c .. s - 1
      /\ \A i, j \in 1 .. L : (i < j /\ First(i, q) /\ First(j, q)) => Brought(i) < Brought(j)
  BY <1>2, <1>5, <1>6, NumberTypes DEF NumberedInOrder
<1>8. ASSUME NEW i \in 1 .. L - 1, NEW j \in 1 .. L - 1, i < j, First(i, q)', First(j, q)'
      PROVE  Brought(i)' < Brought(j)'
  <2>1. i + 1 \in 1 .. L /\ j + 1 \in 1 .. L /\ i + 1 < j + 1
    BY <1>8
  <2> QED
    BY <1>4, <1>7, <1>8, <2>1
<1>9. ASSUME NEW i \in 1 .. L, i # 1 PROVE i - 1 \in 1 .. L - 1 /\ (i - 1) + 1 = i
  BY <1>9
<1>10. CASE First(1, q)
  <2>1. SendUser
    BY <1>1, <1>10, HeadPacket DEF First, SendRetransmit, TxAcceptRetransmit, HeadIsRetr
  <2>2. Brought(1) \in c .. s - 1
    BY <1>3, <1>7, <1>10
  <2>3. Brought(1) = c
    <3>1. PICK i \in 1 .. L : First(i, q) /\ Brought(i) = c
      BY <1>7, <2>2
    <3>2. i # 1 => Brought(1) < Brought(i)
      BY <1>3, <1>7, <1>10, <3>1
    <3> QED
      BY <2>2, <3>1, <3>2
  <2>4. log'[q] = Append(log[q], c)
    <3>1. Outgoing.qp = q /\ Outgoing.data = c
      BY <1>1, <1>10, <2>3, HeadPacket DEF First
    <3> QED
      BY <2>1, <3>1 DEF SendUser, TxAcceptUser, TypeOK, RingTypeOK
  <2>5. /\ Len(log'[q]) = c + 1
        /\ \A k \in 1 .. c : log'[q][k] = log[q][k]
        /\ log'[q][c + 1] = c
    BY <1>5, <1>7, <2>4, AppendProperties
  <2>6. ASSUME NEW k \in 1 .. c + 1 PROVE log'[q][k] = k - 1
    <3>1. CASE k = c + 1
      BY <2>5, <3>1
    <3>2. CASE k # c + 1
      BY <1>7, <2>5, <3>2
    <3> QED
      BY <3>1, <3>2
  <2>7. ASSUME NEW n \in c + 1 .. s - 1
        PROVE  \E i \in 1 .. L - 1 : First(i, q)' /\ Brought(i)' = n
    <3>3. n \in c .. s - 1
      OBVIOUS
    <3>1. PICK i \in 1 .. L : First(i, q) /\ Brought(i) = n
      BY <1>7, <3>3
    <3>2. i # 1
      BY <2>3, <3>1
    <3> QED
      BY <1>4, <1>9, <3>1, <3>2
  <2>8. ASSUME NEW i \in 1 .. L - 1, First(i, q)' PROVE Brought(i)' \in c + 1 .. s - 1
    <3>1. i + 1 \in 1 .. L /\ First(i + 1, q) /\ Brought(i)' = Brought(i + 1)
      BY <1>4, <2>8
    <3>2. Brought(1) < Brought(i + 1)
      BY <1>3, <1>7, <1>10, <3>1
    <3> QED
      BY <1>7, <2>3, <3>1, <3>2
  <2> QED
    BY <1>6, <1>8, <2>2, <2>5, <2>6, <2>7, <2>8
<1>11. CASE ~ First(1, q)
  <2>1. log'[q] = log[q]
    <3>1. CASE SendRetransmit
      BY <3>1 DEF SendRetransmit, TxAcceptRetransmit, streamVars
    <3>2. CASE SendUser
      <4>1. Outgoing.qp # q
        BY <1>1, <1>11, <3>2, HeadPacket DEF First, SendUser, TxAcceptUser, HeadIsUser
      <4> QED
        BY <3>2, <4>1 DEF SendUser, TxAcceptUser, TypeOK, RingTypeOK
    <3> QED
      BY <3>1, <3>2
  <2>2. ASSUME NEW n \in c .. s - 1
        PROVE  \E i \in 1 .. L - 1 : First(i, q)' /\ Brought(i)' = n
    <3>1. PICK i \in 1 .. L : First(i, q) /\ Brought(i) = n
      BY <1>7
    <3> QED
      BY <1>4, <1>9, <1>11, <3>1
  <2>3. ASSUME NEW i \in 1 .. L - 1, First(i, q)' PROVE Brought(i)' \in c .. s - 1
    <3>1. i + 1 \in 1 .. L /\ First(i + 1, q) /\ Brought(i)' = Brought(i + 1)
      BY <1>4, <2>3
    <3> QED
      BY <1>7, <3>1
  <2> QED
    BY <1>5, <1>6, <1>7, <1>8, <2>1, <2>2, <2>3
<1> QED
  BY <1>10, <1>11

LEMMA NumberedStep ==
    ASSUME MaxRetr >= 1
    PROVE  /\ TypeOK /\ TypeOK' /\ InStep /\ StreamInv /\ GrantHasRoom /\ NumberedInOrder
           /\ [Next]_vars
           => NumberedInOrder'
<1> SUFFICES ASSUME TypeOK, TypeOK', InStep, StreamInv, GrantHasRoom, NumberedInOrder,
                    [Next]_vars
             PROVE  NumberedInOrder'
  OBVIOUS
<1>1. CASE UNCHANGED <<sent, log, outToWRITE>>
  BY <1>1, NumberedFrame
<1>2. ASSUME NEW q \in QP, SyncUser(q) PROVE NumberedInOrder'
  <2>1. /\ UserHeader(q) \in Header /\ UserHeader(q).type = 0
        /\ UserHeader(q).pkt.qp = q /\ UserHeader(q).pkt.data = sent[q]
    BY NumberTypes DEF UserHeader, Header, Packet
  <2>2. Grant(UserHeader(q)) /\ log' = log /\ sent' = [sent EXCEPT ![q] = @ + 1]
    BY <1>2 DEF SyncUser, streamVars
  <2> QED
    BY <2>1, <2>2, NumberedGrant
<1>3. CASE SyncRetransmit
  <2>1. Head(retrHdr) \in Header /\ Head(retrHdr).type # 0
    BY <1>3, NumberTypes, HeadTailProperties, RetrHeaders DEF SyncRetransmit
  <2>2. Grant(Head(retrHdr)) /\ log' = log /\ sent' = sent
    BY <1>3 DEF SyncRetransmit, streamVars
  <2> QED
    BY <2>1, <2>2, NumberedGrant
<1>4. CASE TxDiscard
  BY <1>4, NoDiscard
<1>5. CASE TxReject
  BY <1>5 DEF TxReject, GrantHasRoom, HeadIsUser, HeadIsRetr
<1>6. CASE SendUser \/ SendRetransmit
  <2>1. sent' = sent
    BY <1>6 DEF SendUser, SendRetransmit, TxAcceptUser, TxAcceptRetransmit
  <2> QED
    BY <1>6, <2>1, NumberedTake
<1> QED
  BY <1>1, <1>2, <1>3, <1>4, <1>5, <1>6
  DEF Next, Engine, EngineStep, Receive, AnnounceWritePSN, SkipAcked, HandOver,
      PublishReadPSN, ReadSlot, TimeoutFire, Deliver, AnswerDuplicate, AnswerGap, RecvAnswer,
      RecvResponse, LoseRequest, LoseAnswer, SampleTimeout, TimeoutSample, vars, ringVars,
      pipeVars, streamVars

\* tx_write numbers the packets of a kernel in the order the arbiter took them.
THEOREM NumbersFollowKernel ==
    ASSUME Sized, MaxRetr >= 1 PROVE Spec => []NumberedInOrder
<1>1. IInv => InStep /\ StreamInv
  BY DEF IInv
<1> QED
  BY <1>1, NumberedInit, NumberedStep, TypeCorrect, InvariantHolds, GrantsHaveRoom, PTL
  DEF Spec
-----------------------------------------------------------------------------
\* The established connections are a channel that has delivered one payload.
LEMMA ChannelInit == InitEstablished => Channel!Init
<1> SUFFICES ASSUME InitEstablished PROVE Channel!Init
  OBVIOUS
<1>1. sent = [q \in QP |-> 1] /\ delivered = [q \in QP |-> <<0>>]
  BY DEF InitEstablished, EstablishedRing, EstablishedRx
<1>2. ASSUME NEW q \in QP PROVE Taken[q] = <<0>>
  <2>1. Taken[q] = [i \in 1 .. 1 |-> i - 1]
    BY <1>1 DEF Taken
  <2>2. [i \in 1 .. 1 |-> i - 1] = <<0>>
    OBVIOUS
  <2> QED
    BY <2>1, <2>2
<1>3. Taken = delivered
  BY <1>1, <1>2 DEF Taken
<1> QED
  BY <1>1, <1>3 DEF Channel!Init

LEMMA ChannelStep ==
    /\ TypeOK /\ StreamInv /\ NumberedInOrder /\ [Next]_vars
    => [Channel!Next]_(Channel!chVars)
<1> SUFFICES ASSUME TypeOK, StreamInv, NumberedInOrder, [Next]_vars
             PROVE  [Channel!Next]_(Channel!chVars)
  OBVIOUS
<1>1. CASE UNCHANGED <<sent, delivered>>
  BY <1>1 DEF Channel!chVars, Taken
<1>2. ASSUME NEW q \in QP, SyncUser(q), UNCHANGED rxVars PROVE Channel!Next
  <2>1. /\ sent' = [sent EXCEPT ![q] = sent[q] + 1] /\ sent[q] < MaxData
        /\ delivered' = delivered
    BY <1>2 DEF SyncUser, rxVars
  <2>2. sent \in [QP -> Nat] /\ MaxData \in Nat
    BY RingAssumption DEF TypeOK, RingTypeOK
  <2>3. Taken' = [Taken EXCEPT ![q] = Append(Taken[q], sent[q])]
    <3>1. ASSUME NEW n \in Nat
          PROVE  [i \in 1 .. n + 1 |-> i - 1] = Append([i \in 1 .. n |-> i - 1], n)
      <4>1. [i \in 1 .. n |-> i - 1] \in Seq(Int) /\ Len([i \in 1 .. n |-> i - 1]) = n
        OBVIOUS
      <4> QED
        BY <4>1
    <3>2. ASSUME NEW r \in QP
          PROVE  Taken'[r] = IF r = q THEN Append(Taken[q], sent[q]) ELSE Taken[r]
      BY <2>1, <2>2, <3>1 DEF Taken
    <3> QED
      BY <3>2 DEF Taken
  <2>4. Channel!Accept(q, sent[q]) /\ sent[q] \in 0 .. MaxData
    BY <2>1, <2>2, <2>3 DEF Channel!Accept
  <2> QED
    BY <2>4 DEF Channel!Next
<1>3. ASSUME NEW f \in net, Deliver(f) PROVE Channel!Next
  <2> DEFINE q == f.pkt.qp
  <2>1. f.pkt \in Packet /\ q \in QP /\ f.pkt.msn \in Nat
    BY DEF TypeOK, Requests, Packet
  <2>2. /\ f.pkt.msn = Len(delivered[q])
        /\ f.pkt.msn < Len(log[q])
        /\ f.pkt.data = log[q][f.pkt.msn + 1]
    BY <1>3, <2>1
    DEF Deliver, RxAccept, InSequence, StreamInv, CopiesAgree, CountersFollow, Copy
  <2>3. f.pkt.msn < sent[q] /\ f.pkt.data = f.pkt.msn /\ sent[q] \in Nat
    <3>1. /\ sent[q] \in Nat /\ Len(log[q]) \in Nat /\ Len(log[q]) <= sent[q]
          /\ \A k \in 1 .. Len(log[q]) : log[q][k] = k - 1
      BY <2>1, NumberTypes DEF NumberedInOrder
    <3>2. f.pkt.msn + 1 \in 1 .. Len(log[q]) /\ (f.pkt.msn + 1) - 1 = f.pkt.msn
      BY <2>1, <2>2, <3>1
    <3> HIDE DEF q
    <3> QED
      BY <2>1, <2>2, <3>1, <3>2
  <2>4. Taken[q] = [i \in 1 .. sent[q] |-> i - 1] /\ Len(Taken[q]) = sent[q]
    BY <2>1, <2>3 DEF Taken
  <2>5. Taken[q][f.pkt.msn + 1] = f.pkt.data
    BY <2>1, <2>3, <2>4
  <2>6. delivered' = [delivered EXCEPT ![q] = Append(@, f.pkt.data)] /\ Taken' = Taken
    BY <1>3 DEF Deliver, RxAccept, ringVars, Taken
  <2> HIDE DEF q
  <2>7. /\ Len(delivered[q]) < Len(Taken[q])
        /\ f.pkt.data = Taken[q][Len(delivered[q]) + 1]
    BY <2>1, <2>2, <2>3, <2>4, <2>5
  <2>8. delivered' = [delivered EXCEPT ![q] = Append(@, Taken[q][Len(@) + 1])]
    BY <2>6, <2>7
  <2>9. Channel!Deliver(q)
    BY <2>6, <2>7, <2>8 DEF Channel!Deliver
  <2> QED
    BY <2>1, <2>9 DEF Channel!Next
<1> QED
  BY <1>1, <1>2, <1>3
  DEF Next, Engine, EngineStep, Receive, SyncRetransmit, TxDiscard, TxReject,
      AnnounceWritePSN, SkipAcked, HandOver, PublishReadPSN, ReadSlot, TimeoutFire,
      SendUser, SendRetransmit, TxAcceptUser, TxAcceptRetransmit, AnswerDuplicate,
      AnswerGap, RxDuplicate, RxGap, RecvAnswer, RecvResponse, LoseRequest, LoseAnswer,
      SampleTimeout, TimeoutSample, vars, ringVars, rxVars

\* Seen from the kernels the engine, the faulty network and the receivers are
\* a reliable channel.
THEOREM ChannelImplemented ==
    ASSUME Sized, MaxRetr >= 1 PROVE Spec => RefinesChannel
<1>1. IInv => TypeOK /\ StreamInv
  BY DEF IInv
<1> QED
  BY <1>1, ChannelInit, ChannelStep, InvariantHolds, NumbersFollowKernel, PTL
  DEF Spec, RefinesChannel, Channel!Spec
=============================================================================
