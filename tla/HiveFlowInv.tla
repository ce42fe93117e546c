---------------------------- MODULE HiveFlowInv ----------------------------
(***************************************************************************)
(* The inductive invariant behind the safety properties of HiveFlow.  It   *)
(* holds from InitEstablished, for limits that satisfy Sized and a         *)
(* retransmission limit of at least one.                                   *)
(***************************************************************************)
EXTENDS HiveFlow

CursorsOrdered ==
    /\ rSeen <= readPSN
    /\ readPSN <= wSeen
    /\ wSeen <= writePSN

Gate(h) == IF h.type = 0 THEN UserGate ELSE RetrGate

\* The i-th header in front of tx_write will be stored i - 1 PSNs from now;
\* what was granted on an old view is at most PipeCap - 1 beyond the gate.
GrantsFit ==
    /\ Len(outToWRITE) + (writePSN - wSeen) <= PipeCap
    /\ \A i \in 1 .. Len(outToWRITE) :
          (writePSN + i) - rSeen <= Gate(outToWRITE[i]) + PipeCap

WindowFits == writePSN - rSeen <= RetrGate + PipeCap

PendingClose ==
    \A i \in 1 .. Len(pend) :
        pend[i].psn < readPSN /\ readPSN - pend[i].psn <= ReadLead

RingInv == CursorsOrdered /\ GrantsFit /\ WindowFits /\ PendingClose

-----------------------------------------------------------------------------
\* A copy of a numbered packet bears the number its payload was given.
Copy(pkt) ==
    /\ ~ pkt.rst
    /\ pkt.msn < Len(log[pkt.qp])
    /\ pkt.data = log[pkt.qp][pkt.msn + 1]

HeaderInv(h) ==
    /\ h.nRetrans <= 1
    /\ h.type # 0 => Copy(h.pkt)

CopiesAgree ==
    /\ \A f \in net : Copy(f.pkt)
    /\ \A p \in LivePSN : Copy(hbm[Slot(p)])
    /\ \A i \in 1 .. Len(retrHdr) : HeaderInv(retrHdr[i])
    /\ \A i \in 1 .. Len(outToWRITE) : HeaderInv(outToWRITE[i])

\* Both counters follow the histories, and no stream is being reset.
CountersFollow ==
    \A q \in QP :
        /\ ~ rst[q]
        /\ msn[q] = Len(log[q])
        /\ rx[q] = Len(delivered[q])

\* Every header in front of tx_write meets its own payload.
InStep ==
    /\ Len(outData) = Len(outToWRITE)
    /\ \A i \in 1 .. Len(outToWRITE) : outData[i] = outToWRITE[i].pkt.data

StreamInv == CountersFollow /\ CopiesAgree /\ InOrderDelivery

\* The i-th header in front of tx_write brings a packet of q for the first time.
First(i, q) == outToWRITE[i].type = 0 /\ outToWRITE[i].pkt.qp = q

Brought(i) == outToWRITE[i].pkt.data

\* The payloads taken from a kernel are numbered in the order they were taken:
\* the first ones are in log, the others still in front of tx_write, in order.
NumberedInOrder ==
    \A q \in QP :
        /\ Len(log[q]) <= sent[q]
        /\ \A k \in 1 .. Len(log[q]) : log[q][k] = k - 1
        /\ \A n \in Len(log[q]) .. sent[q] - 1 :
              \E i \in 1 .. Len(outToWRITE) : First(i, q) /\ Brought(i) = n
        /\ \A i \in 1 .. Len(outToWRITE) :
              First(i, q) => Brought(i) \in Len(log[q]) .. sent[q] - 1
        /\ \A i, j \in 1 .. Len(outToWRITE) :
              (i < j /\ First(i, q) /\ First(j, q)) => Brought(i) < Brought(j)

-----------------------------------------------------------------------------
Arrived(pkt) == pkt.msn < rx[pkt.qp]

\* The slot of a PSN is its own for the N PSNs that follow.
StillStored(psn) == writePSN - psn <= N

RequestsStored ==
    \A f \in net :
        /\ f.psn < writePSN
        /\ StillStored(f.psn) => hbm[Slot(f.psn)] = f.pkt

AnswersTrue ==
    \A a \in resp :
        /\ a.psn < writePSN
        /\ (~ a.nak /\ StillStored(a.psn)) => Arrived(hbm[Slot(a.psn)])

AckedArrived ==
    \A p \in WindowPSN : status[Slot(p)] = Acked => Arrived(hbm[Slot(p)])

AnswerInv == RequestsStored /\ AnswersTrue /\ AckedArrived

IInv == TypeOK /\ RingInv /\ InStep /\ StreamInv /\ AnswerInv /\ NothingLost
=============================================================================
