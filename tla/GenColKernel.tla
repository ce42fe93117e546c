---------------------------- MODULE GenColKernel ----------------------------
(***************************************************************************)
(* The kernel generator_collector of the example: as a generator it sends  *)
(* packets with a pattern, as a collector it checks the pattern of what it *)
(* gets.  Between them is what HiveNet promises, ReliableChannel.  One     *)
(* iteration of the packet loop is one step.                               *)
(***************************************************************************)
EXTENDS Integers, Sequences, FiniteSets

CONSTANTS
    CU,         \* the kernels, and the engines they are attached to
    Bytes,      \* bytes of a packet                     (64)
    ByteRange,  \* values of a byte and of byte_counter  (2^8)
    IdRange,    \* values of id_i                        (2^13)
    ExclOr(_, _), \* the operator ^ of the code
    Room        \* bound: packets inside the channel, and in front of a kernel

ASSUME KernelAssumption ==
    /\ CU # {}
    /\ {Bytes, ByteRange, IdRange, Room} \subseteq Nat \ {0}

\* Bitwise exclusive or, of as many bits as an id has.  Bytes and ByteRange are
\* powers of two: the low bits of the result come from the low bits.
ASSUME XorAssumption ==
    /\ \A a, b \in 0 .. IdRange - 1 :
          /\ ExclOr(a, b) \in 0 .. IdRange - 1
          /\ ExclOr(a, b) = ExclOr(b, a)
          /\ \A m \in {Bytes, ByteRange} : ExclOr(a, b) % m = ExclOr(a % m, b % m)
          /\ \A c \in 0 .. IdRange - 1 : ExclOr(ExclOr(a, b), c) = ExclOr(a, ExclOr(b, c))
    /\ \A a \in 0 .. IdRange - 1 : ExclOr(a, a) = 0 /\ ExclOr(a, 0) = a

VARIABLES
    state,         \* idle, busy or done
    args,          \* scalar arguments: gen_col_i, id_i, packets_num
    count,         \* iterations of the packet loop
    byte_counter,
    error,         \* the kernel's local error bit
    error_o,       \* its output register
    accepted,      \* accepted[c]: packets the channel took for the engine at c
    delivered      \* delivered[c]: packets it has handed to the kernel at c

kernelVars == <<state, args, count, byte_counter, error, error_o>>

channelVars == <<accepted, delivered>>

Args == [gen_col : {0, 1}, id : Nat, packets_num : Nat]

\* What a packet is made from.
Packets == [id : Nat, number : Nat, from : 0 .. ByteRange - 1]

Channel == INSTANCE ReliableChannel WITH QP <- CU, Payload <- Packets

KernelsIdle ==
    /\ state = [c \in CU |-> "idle"]
    /\ args = [c \in CU |-> [gen_col |-> 0, id |-> 0, packets_num |-> 0]]
    /\ count = [c \in CU |-> 0]
    /\ byte_counter = [c \in CU |-> 0]
    /\ error = [c \in CU |-> 0]
    /\ error_o = [c \in CU |-> 0]
    /\ accepted = [c \in CU |-> <<>>]
    /\ delivered = [c \in CU |-> <<>>]

-----------------------------------------------------------------------------
Byte(x) == x % ByteRange

\* Byte i of the run of bytes in a packet with that number, as the generator
\* writes it: cut off to a byte.
PatternByte(id, number, i) == Byte(ExclOr(ExclOr(id, Byte(i)), Byte(number)))

DataByte(pkt, i) == PatternByte(pkt.id, pkt.number, pkt.from + i)

\* Mutant: the collector counts a packet before it looks at it.
ByteWrongNext(c, pkt, i) ==
    ExclOr(ExclOr(DataByte(pkt, i), Byte(count[c] + 1)), Byte(byte_counter[c] + i)) # args[c].id

\* The collector takes number and position away again and compares what is
\* left with the whole id.
ByteWrong(c, pkt, i) ==
    ExclOr(ExclOr(DataByte(pkt, i), Byte(count[c])), Byte(byte_counter[c] + i)) # args[c].id

WrongPacket(c, pkt) == \E i \in 0 .. Bytes - 1 : ByteWrong(c, pkt, i)

\* Mutant: only the last packet counts.
ErrorLast(c, pkt) == IF WrongPacket(c, pkt) THEN 1 ELSE 0

ErrorAfter(c, pkt) == IF WrongPacket(c, pkt) THEN 1 ELSE error[c]

\* Mutant: one round too many.
MoreByOne(c) == state[c] = "busy" /\ count[c] <= args[c].packets_num

More(c) == state[c] = "busy" /\ count[c] < args[c].packets_num

\* Mutant: the byte counter is not cut off.
NextPacketWide(c) ==
    /\ count' = [count EXCEPT ![c] = @ + 1]
    /\ byte_counter' = [byte_counter EXCEPT ![c] = @ + Bytes]

\* The loop counter and the byte counter after one packet.
NextPacket(c) ==
    /\ count' = [count EXCEPT ![c] = @ + 1]
    /\ byte_counter' = [byte_counter EXCEPT ![c] = Byte(@ + Bytes)]

\* A packet for the engine at dest; HiveNet stops the kernel when it is full.
Generate(c, dest) ==
    /\ More(c)
    /\ args[c].gen_col = 1
    /\ Len(accepted[dest]) - Len(delivered[dest]) < Room
    /\ Channel!Accept(dest, [id |-> args[c].id, number |-> count[c],
                             from |-> byte_counter[c]])
    /\ NextPacket(c)
    /\ UNCHANGED <<state, args, error, error_o>>

Collect(c) ==
    /\ More(c)
    /\ args[c].gen_col = 0
    /\ count[c] < Len(delivered[c])
    /\ error' = [error EXCEPT ![c] = ErrorAfter(c, delivered[c][count[c] + 1])]
    /\ NextPacket(c)
    /\ UNCHANGED <<state, args, error_o, channelVars>>

\* The loop is over: the outputs are written and the kernel is done.
WriteOutputs(c) ==
    /\ state[c] = "busy"
    /\ count[c] = args[c].packets_num
    /\ error_o' = [error_o EXCEPT ![c] = error[c]]
    /\ state' = [state EXCEPT ![c] = "done"]
    /\ UNCHANGED <<args, count, byte_counter, error, channelVars>>

\* Setting the arguments and starting the kernel; its locals start afresh.
StartKernel(c, a) ==
    /\ args' = [args EXCEPT ![c] = a]
    /\ state' = [state EXCEPT ![c] = "busy"]
    /\ count' = [count EXCEPT ![c] = 0]
    /\ byte_counter' = [byte_counter EXCEPT ![c] = 0]
    /\ error' = [error EXCEPT ![c] = 0]
    /\ UNCHANGED <<error_o, channelVars>>

\* The kernel's input stream is finite, too.
HasRoom(c) == Len(delivered[c]) - count[c] < Room

DeliverNext(c) ==
    /\ HasRoom(c)
    /\ Channel!Deliver(c)
    /\ UNCHANGED kernelVars

KernelTypeOK ==
    /\ state \in [CU -> {"idle", "busy", "done"}]
    /\ args \in [CU -> Args]
    /\ count \in [CU -> Nat]
    /\ byte_counter \in [CU -> 0 .. ByteRange - 1]
    /\ error \in [CU -> {0, 1}]
    /\ error_o \in [CU -> {0, 1}]
    /\ accepted \in [CU -> Seq(Packets)]
    /\ delivered \in [CU -> Seq(Packets)]
=============================================================================
