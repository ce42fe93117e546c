------------------------------ MODULE HiveFlow ------------------------------
(***************************************************************************)
(* One sending engine (TxRing), the receivers of its destinations (RxQp)   *)
(* and the Ethernet between them, which may lose and reorder requests and  *)
(* answers but does not copy them.  rx_rdma_hdr and tx_rdma_hdr carry the  *)
(* fields over the wire: a request its PSN, MSN and reset flag, an answer  *)
(* the PSN of the request and ACK or NAK.                                  *)
(***************************************************************************)
EXTENDS TxRing, RxQp

CONSTANTS
    MaxLoss,   \* bound: messages the network, or the view test, loses
    MaxEarly   \* bound: timeouts of a packet whose answer is still possible

ASSUME FlowAssumption == {MaxLoss, MaxEarly} \subseteq Nat

VARIABLES
    net,    \* requests on the wire
    resp,   \* answers on the wire
    lost,   \* messages lost so far
    early   \* early timeouts so far

netVars == <<net, resp, lost, early>>

vars == <<ringVars, rxVars, netVars>>

QuietNet ==
    /\ net = {}
    /\ resp = {}
    /\ lost = 0
    /\ early = 0

InitPowerOn == PowerOnRing /\ PowerOnRx /\ QuietNet

\* Power on, with every loss and early timeout already used up: a link that
\* loses nothing while the connections are set up.
InitPowerOnClean ==
    /\ PowerOnRing
    /\ PowerOnRx
    /\ net = {}
    /\ resp = {}
    /\ lost = MaxLoss
    /\ early = MaxEarly

InitEstablished == EstablishedRing /\ EstablishedRx /\ QuietNet

-----------------------------------------------------------------------------
\* What tx_write stores it also sends.
SendUser ==
    /\ TxAcceptUser
    /\ net' = net \cup {Request(writePSN, Outgoing)}
    /\ UNCHANGED <<rxVars, resp, lost, early>>

SendRetransmit ==
    /\ TxAcceptRetransmit
    /\ net' = net \cup {Request(writePSN, Outgoing)}
    /\ UNCHANGED <<rxVars, resp, lost, early>>

Deliver(f) ==
    /\ RxAccept(f.pkt)
    /\ net' = net \ {f}
    /\ resp' = resp \cup {Answer(f.psn, FALSE)}
    /\ UNCHANGED <<ringVars, lost, early>>

AnswerDuplicate(f) ==
    /\ RxDuplicate(f.pkt)
    /\ net' = net \ {f}
    /\ resp' = resp \cup {Answer(f.psn, FALSE)}
    /\ UNCHANGED <<ringVars, lost, early>>

AnswerGap(f) ==
    /\ RxGap(f.pkt)
    /\ net' = net \ {f}
    /\ resp' = resp \cup {Answer(f.psn, TRUE)}
    /\ UNCHANGED <<ringVars, lost, early>>

\* An answer that overtakes the announcement of its PSN may fail the view
\* test; it is lost like one the network dropped.
Overtakes(a) == ~ InView(a.psn) /\ a.psn >= wSeen

RecvAnswer(a) ==
    /\ RecvResponse(a.psn, a.nak)
    /\ IF Overtakes(a) THEN lost < MaxLoss /\ lost' = lost + 1 ELSE UNCHANGED lost
    /\ resp' = resp \ {a}
    /\ UNCHANGED <<rxVars, net, early>>

LoseRequest(f) ==
    /\ lost < MaxLoss
    /\ lost' = lost + 1
    /\ net' = net \ {f}
    /\ UNCHANGED <<ringVars, rxVars, resp, early>>

LoseAnswer(a) ==
    /\ lost < MaxLoss
    /\ lost' = lost + 1
    /\ resp' = resp \ {a}
    /\ UNCHANGED <<ringVars, rxVars, net, early>>

\* An answer to psn can still come.
InFlight(psn) ==
    \/ \E f \in net : f.psn = psn
    \/ \E a \in resp : a.psn = psn

\* The timeout is due: the oldest packet waits for an answer that cannot come.
TimeoutDue == rSeen = readPSN /\ ~ InFlight(rSeen)

\* Time is not modelled: a slot may be found late at any moment, also while
\* its answer is still on the way or when the cursor has already left it, but
\* at most MaxEarly times when the timeout is not due.
SampleTimeout ==
    /\ TimeoutSample
    /\ IF TimeoutDue THEN UNCHANGED early
                     ELSE early < MaxEarly /\ early' = early + 1
    /\ UNCHANGED <<rxVars, net, resp, lost>>

\* Steps inside the engine that touch neither the wire nor the receivers.
EngineStep ==
    \/ \E q \in QP : SyncUser(q)
    \/ SyncRetransmit
    \/ TxDiscard
    \/ TxReject
    \/ AnnounceWritePSN
    \/ SkipAcked
    \/ HandOver
    \/ PublishReadPSN
    \/ ReadSlot
    \/ TimeoutFire

Engine == EngineStep /\ UNCHANGED <<rxVars, netVars>>

Receive == \E f \in net : Deliver(f) \/ AnswerDuplicate(f) \/ AnswerGap(f)

Next ==
    \/ Engine
    \/ SendUser
    \/ SendRetransmit
    \/ Receive
    \/ \E a \in resp : RecvAnswer(a)
    \/ \E f \in net : LoseRequest(f)
    \/ \E a \in resp : LoseAnswer(a)
    \/ SampleTimeout

ColdSpec == InitPowerOn /\ [][Next]_vars

Spec == InitEstablished /\ [][Next]_vars

\* Established connections on a faulty link, and a power on over a clean one.
AnyStartSpec == (InitEstablished \/ InitPowerOnClean) /\ [][Next]_vars

-----------------------------------------------------------------------------
(* Fairness: the blocks are free-running pipelines, so each of them takes    *)
(* its step when it keeps having one to take; the network delivers what it   *)
(* does not lose; a packet whose answer cannot come is found late in the     *)
(* end.  Nothing obliges a kernel to send or the network to lose.            *)

FairSpec ==
    /\ Spec
    /\ WF_vars(SyncRetransmit /\ UNCHANGED <<rxVars, netVars>>)
    /\ WF_vars(SendUser)
    /\ WF_vars(SendRetransmit)
    /\ WF_vars(AnnounceWritePSN /\ UNCHANGED <<rxVars, netVars>>)
    /\ WF_vars(SkipAcked /\ UNCHANGED <<rxVars, netVars>>)
    /\ WF_vars(HandOver /\ UNCHANGED <<rxVars, netVars>>)
    /\ WF_vars(PublishReadPSN /\ UNCHANGED <<rxVars, netVars>>)
    /\ WF_vars(ReadSlot /\ UNCHANGED <<rxVars, netVars>>)
    /\ WF_vars(TimeoutFire /\ UNCHANGED <<rxVars, netVars>>)
    /\ WF_vars(SampleTimeout /\ TimeoutDue)
    /\ WF_vars(Receive)
    /\ WF_vars(\E a \in resp : RecvAnswer(a))

-----------------------------------------------------------------------------
(* Properties *)

TypeOK ==
    /\ RingTypeOK
    /\ RxTypeOK
    /\ net \subseteq Requests
    /\ resp \subseteq Answers
    /\ lost \in Nat
    /\ early \in Nat

\* The payloads passed to a kernel are, in order and without a gap or a
\* repetition, the first ones tx_write numbered for it - whatever the network
\* loses or reorders and however early or late the timeouts come.
InOrderDelivery ==
    \A q \in QP :
        /\ Len(delivered[q]) <= Len(log[q])
        /\ \A i \in 1 .. Len(delivered[q]) : delivered[q][i] = log[q][i]

\* PSNs whose slot still has to keep its packet.
WindowPSN == readPSN .. writePSN - 1

PendingPSN == {pend[i].psn : i \in 1 .. Len(pend)}

LivePSN == WindowPSN \cup PendingPSN

Carries(pkt, q, m) == pkt.qp = q /\ pkt.msn = m

\* The sender still has packet m of q somewhere it will be sent from again.
Held(q, m) ==
    \/ \E p \in LivePSN : Carries(hbm[Slot(p)], q, m)
    \/ \E i \in 1 .. Len(retrHdr) : Carries(retrHdr[i].pkt, q, m)
    \/ \E i \in 1 .. Len(outToWRITE) :
           outToWRITE[i].type # 0 /\ Carries(outToWRITE[i].pkt, q, m)

\* A packet that was accepted and not yet delivered is never forgotten: it is
\* in the window of the ring, handed over for retransmission, or on its way
\* back to tx_write.
NothingLost ==
    \A q \in QP : \A m \in rx[q] .. Len(log[q]) - 1 : Held(q, m)

\* A slot in the window counts as acknowledged only if its own packet has
\* been delivered: no late, repeated or overtaken answer reaches a slot that
\* meanwhile holds another packet.
AckMeansDelivered ==
    \A p \in readPSN .. wSeen - 1 :
        status[Slot(p)] = Acked =>
            hbm[Slot(p)].msn < rx[hbm[Slot(p)].qp]

\* What the arbiter has granted finds room at tx_write, although the arbiter
\* decides with cursors that are out of date.
GrantHasRoom ==
    /\ HeadIsUser => UserFits
    /\ HeadIsRetr => RetrFits

\* tx_write never stores a packet over one that may still be read back.
NoOverwrite ==
    [][writePSN' # writePSN => \A p \in LivePSN : Slot(p) # Slot(writePSN)]_vars

\* What the arbiter has taken from the kernel for each destination.
Taken == [q \in QP |-> [i \in 1 .. sent[q] |-> i - 1]]

\* The engine, the network and the receivers together are a reliable channel:
\* what it accepts is what the arbiter takes from the sending kernel.
Channel == INSTANCE ReliableChannel WITH Payload <- 0 .. MaxData, accepted <- Taken

RefinesChannel == Channel!Spec

\* Every packet taken from a kernel is passed to the kernel at the other end
\* in the end.
EventuallyDelivered ==
    \A q \in QP : \A n \in 1 .. MaxData :
        (sent[q] >= n) ~> (Len(delivered[q]) >= n)
=============================================================================
