----------------------------- MODULE GenColPair -----------------------------
(***************************************************************************)
(* One generator and one collector that the host has started with the same *)
(* id, over a channel that may be worse than HiveNet: the question is what *)
(* the collector's error bit is worth.                                     *)
(***************************************************************************)
EXTENDS GenColKernel

CONSTANTS
    Generator, Collector,
    Ids,        \* id_i
    NumPkts,    \* packets_num
    MaxFaults   \* bound: packets out of their place

ASSUME PairAssumption ==
    /\ CU = {Generator, Collector} /\ Generator # Collector
    /\ Ids \subseteq 0 .. IdRange - 1
    /\ ByteRange <= IdRange
    /\ {NumPkts, MaxFaults} \subseteq Nat

\* A packet has at most as many bytes as a byte has values, and not too few for
\* the pattern: 64 and 256, and 256 divides 64 * 64.
ASSUME PatternAssumption ==
    /\ ByteRange % Bytes = 0
    /\ (Bytes * Bytes) % ByteRange = 0

VARIABLE faults

pairVars == <<kernelVars, channelVars, faults>>

PairArgs(id) ==
    [c \in CU |-> [gen_col |-> IF c = Generator THEN 1 ELSE 0, id |-> id,
                   packets_num |-> NumPkts]]

\* Both have been started by the host.
PairInit ==
    /\ faults = 0
    /\ state = [c \in CU |-> "busy"]
    /\ \E id \in Ids : args = PairArgs(id)
    /\ count = [c \in CU |-> 0]
    /\ byte_counter = [c \in CU |-> 0]
    /\ error = [c \in CU |-> 0]
    /\ error_o = [c \in CU |-> 0]
    /\ accepted = [c \in CU |-> <<>>]
    /\ delivered = [c \in CU |-> <<>>]

\* A packet that is not the next one: others were lost, or are still to come,
\* or it comes once more.
DeliverOther ==
    /\ faults < MaxFaults
    /\ HasRoom(Collector)
    /\ \E k \in DOMAIN accepted[Collector] :
          /\ k # Len(delivered[Collector]) + 1
          /\ delivered' =
                [delivered EXCEPT ![Collector] = Append(@, accepted[Collector][k])]
    /\ faults' = faults + 1
    /\ UNCHANGED <<kernelVars, accepted>>

PairStep ==
    \/ Generate(Generator, Collector)
    \/ Collect(Collector)
    \/ \E c \in CU : WriteOutputs(c)
    \/ DeliverNext(Collector)

PairNext == (PairStep /\ UNCHANGED faults) \/ DeliverOther

PairSpec == PairInit /\ [][PairNext]_pairVars

-----------------------------------------------------------------------------
Got(k) == delivered[Collector][k].number

\* The packets read so far are those that were to come.
InPlace == \A k \in 1 .. count[Collector] : Got(k) = k - 1

InPlaceMod == \A k \in 1 .. count[Collector] : Byte(Got(k)) = Byte(k - 1)

PairTypeOK == KernelTypeOK /\ faults \in 0 .. MaxFaults

\* A collector that is done without an error has found every packet in its
\* place: a lost, repeated or swapped packet is noticed, unless it is a
\* multiple of 256 packets away from where it belongs.
ErrorSound ==
    state[Collector] = "done" /\ error_o[Collector] = 0 => InPlaceMod

\* README.md of the example: the collector "checks for errors inside them.
\* Then it outputs the number of received packets and indicates whether there
\* is an error in the data."  When every packet is in its place there is none.
NoFalseAlarm == error[Collector] = 1 => ~ InPlace
=============================================================================
