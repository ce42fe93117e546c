---------------------------- MODULE HiveNetRegs ----------------------------
(***************************************************************************)
(* The registers of the HiveNet engines as the host driver writes them and *)
(* as the engines use them, which they do all the time: also between the   *)
(* two register writes of one 64 bit setting.                              *)
(*                                                                         *)
(* The host is one thread; a setter is a sequence of register writes and   *)
(* `pending' holds those still to be made.  A write is seen by the engine  *)
(* before the next one: it crosses to the engine's clock in a few cycles,  *)
(* a write from the host takes hundreds.                                   *)
(***************************************************************************)
EXTENDS Naturals, Sequences

CONSTANTS
    Port,          \* the network ports
    Byte,          \* 2^8; a register is four bytes, half of it two
    IdSpan,        \* 2^13
    Ids, Timeouts, IpSubnets, MacSubnets,  \* values the program passes to the setters
    Peers,         \* ids that answer ARP requests
    DefaultTimeout, DefaultRetr, DefaultPort,  \* the values initCU passes
    MaxCalls       \* bound: setters called

Word == Byte * Byte * Byte * Byte
Half == Byte * Byte

ASSUME RegsAssumption ==
    /\ Byte \in Nat \ {0, 1}
    /\ IdSpan \in Nat \ {0}
    /\ IdSpan <= Word
    /\ Ids \cup Timeouts \cup IpSubnets \cup MacSubnets \subseteq Nat
    /\ {DefaultTimeout, DefaultRetr, DefaultPort, MaxCalls} \subseteq Nat

\* The offsets of HiveNet.hpp.
localID_off == 16
timeout_off == 24
IPsubnet_off == 36
MACSubnet_off == 44
retranssmitions_off == 56
UDPPort_off == 64
resetARP_off == 72

Offsets == {localID_off, timeout_off, timeout_off + 4, IPsubnet_off, MACSubnet_off,
            MACSubnet_off + 4, retranssmitions_off, UDPPort_off, resetARP_off}

\* Mutant: the register of the id is one bit narrower.
CapacityNarrow(off) == IF off = localID_off THEN IdSpan \div 2 ELSE Word

\* What a register can hold: writes lose the bits it does not have.
Capacity(off) ==
    IF off = localID_off THEN IdSpan
    ELSE IF off \in {MACSubnet_off + 4, retranssmitions_off, UDPPort_off} THEN Half
    ELSE IF off = resetARP_off THEN 2 ELSE Word

VARIABLES
    reg,      \* the registers of every port
    pending,  \* register writes of the call under way, per port
    table,    \* the ids whose entry of the port's ARP table is valid
    asked,    \* history: the last values passed to the setters
    before,   \* history: the values those replaced
    calls     \* calls made

regsVars == <<reg, pending, table, asked, before, calls>>

-----------------------------------------------------------------------------
(* What the getters compute from the registers they read.                  *)

getTimeOut(r) == r[timeout_off + 4] * Word + r[timeout_off]

\* The mask 0xffffffffffffe000
Masked(mac) == mac - (mac % IdSpan)

getMACSubnet(r) == Masked(r[MACSubnet_off + 4] * Word + r[MACSubnet_off])

getMACAddress(r) ==
    Masked(r[MACSubnet_off + 4] * Word + r[MACSubnet_off]) + r[localID_off]

\* The bytes of a word in the opposite order.
Swapped(w) ==
    (w % Byte) * Byte * Half + ((w \div Byte) % Byte) * Half
    + ((w \div Half) % Byte) * Byte + ((w \div (Byte * Half)) % Byte)

\* Mutant: the id is added without regard to the byte order.
getIPAddressUnswapped(r) == (r[IPsubnet_off] + r[localID_off]) % Word

getIPAddress(r) == Swapped((Swapped(r[IPsubnet_off]) + r[localID_off]) % Word)

-----------------------------------------------------------------------------
(* What the engine makes of the same registers.                            *)

\* Bits 47 to 13 of the subnet in front of the 13 bits of the id.
EngineMAC(r) ==
    ((r[MACSubnet_off + 4] * Word + r[MACSubnet_off]) \div IdSpan) * IdSpan
    + r[localID_off]

\* Byte n of a word.
ByteOf(w, n) == (w \div [i \in 0..3 |-> IF i = 0 THEN 1 ELSE IF i = 1 THEN Byte
                                        ELSE IF i = 2 THEN Half ELSE Byte * Half][n]) % Byte

\* Four bytes joined, the first one highest.
Joined(b3, b2, b1, b0) == b3 * Byte * Half + b2 * Half + b1 * Byte + b0

\* The adder between two byte swaps, 32 bits wide.
EngineIP(r) ==
    LET s == r[IPsubnet_off]
        sum == (Joined(ByteOf(s, 0), ByteOf(s, 1), ByteOf(s, 2), ByteOf(s, 3))
                + r[localID_off]) % Word
    IN Joined(ByteOf(sum, 0), ByteOf(sum, 1), ByteOf(sum, 2), ByteOf(sum, 3))

-----------------------------------------------------------------------------
(* Calls of the driver.                                                    *)

Settled(p) == pending[p] = <<>>

\* A setter begins: its writes are to be made.
Call(p, writes, values) ==
    /\ \A q \in Port : Settled(q)
    /\ calls < MaxCalls
    /\ calls' = calls + 1
    /\ pending' = [pending EXCEPT ![p] = writes]
    /\ before' = [before EXCEPT ![p] = asked[p]]
    /\ asked' = [asked EXCEPT ![p] = values]
    /\ UNCHANGED <<reg, table>>

Write(off, value) == [off |-> off, value |-> value]

\* Mutant: the high half goes first, to the low offset.
WideSwapped(off, value) ==
    <<Write(off, value \div Word), Write(off + 4, value % Word)>>

\* A 64 bit value: the low half, then the high half.
Wide(off, value) ==
    <<Write(off, value % Word), Write(off + 4, value \div Word)>>

setLocalID(p, id) ==
    Call(p, <<Write(localID_off, id)>>, [asked[p] EXCEPT !.id = id])
setTimeOut(p, t) ==
    Call(p, Wide(timeout_off, t), [asked[p] EXCEPT !.timeout = t])
setIPSubnet(p, s) ==
    Call(p, <<Write(IPsubnet_off, s)>>, [asked[p] EXCEPT !.ip = s])
setMACSubnet(p, s) ==
    Call(p, Wide(MACSubnet_off, s), [asked[p] EXCEPT !.mac = s])
setNretranssmitions(p, n) == Call(p, <<Write(retranssmitions_off, n)>>, asked[p])
setUDPPort(p, n) == Call(p, <<Write(UDPPort_off, n)>>, asked[p])

\* The write of 0 before this one is commented out.
resetARPTable(p) == Call(p, <<Write(resetARP_off, 1)>>, asked[p])

\* initCU: the four settings in one call.
initCU(p) ==
    Call(p, <<Write(resetARP_off, 1)>> \o Wide(timeout_off, DefaultTimeout)
            \o <<Write(retranssmitions_off, DefaultRetr), Write(UDPPort_off, DefaultPort)>>,
         [asked[p] EXCEPT !.timeout = DefaultTimeout])

\* Mutant: a register keeps more bits than it has.
StoredWhole(off, value) == value

\* A register takes the bits it has.
Stored(off, value) == value % Capacity(off)

\* writeReg.  The engine clears its table
\* while the last register, active low, is 0.
WriteReg(p) ==
    /\ ~Settled(p)
    /\ LET w == Head(pending[p])
       IN /\ reg' = [reg EXCEPT ![p][w.off] = Stored(w.off, w.value)]
          /\ table' = [table EXCEPT ![p] =
                          IF reg'[p][resetARP_off] = 0 THEN {} ELSE @]
    /\ pending' = [pending EXCEPT ![p] = Tail(@)]
    /\ UNCHANGED <<asked, before, calls>>

\* An ARP reply makes an entry valid unless the table is held clear.
Learn(p, id) ==
    /\ reg[p][resetARP_off] = 1
    /\ table' = [table EXCEPT ![p] = @ \cup {id}]
    /\ UNCHANGED <<reg, pending, asked, before, calls>>

NoValues == [id |-> 0, timeout |-> 0, ip |-> 0, mac |-> 0]

RegsInit ==
    /\ reg = [p \in Port |-> [off \in Offsets |-> 0]]
    /\ pending = [p \in Port |-> <<>>]
    /\ table = [p \in Port |-> {}]
    /\ asked = [p \in Port |-> NoValues]
    /\ before = [p \in Port |-> NoValues]
    /\ calls = 0

Setter(p) ==
    \/ initCU(p)
    \/ resetARPTable(p)
    \/ \E id \in Ids : setLocalID(p, id)
    \/ \E t \in Timeouts : setTimeOut(p, t)
    \/ \E s \in IpSubnets : setIPSubnet(p, s)
    \/ \E s \in MacSubnets : setMACSubnet(p, s)
    \/ setNretranssmitions(p, DefaultRetr)
    \/ setUDPPort(p, DefaultPort)

RegsNext == \E p \in Port : Setter(p) \/ WriteReg(p) \/ \E id \in Peers : Learn(p, id)
RegsSpec == RegsInit /\ [][RegsNext]_regsVars

-----------------------------------------------------------------------------
(* Properties.                                                             *)

\* Every register holds what fits it.
RegsTypeOK ==
    /\ \A p \in Port : reg[p] \in [Offsets -> Nat]
    /\ \A p \in Port, off \in Offsets : reg[p][off] < Capacity(off)
    /\ \A p \in Port : Len(pending[p]) <= 5
    /\ table \in [Port -> SUBSET Peers]
    /\ calls \in 0..MaxCalls

\* Of a 64 bit setting: once the setter returned the engine uses the new value;
\* while it runs the engine uses the old or the new one, unless the two differ in
\* their high halves, when it may use the new low with the old high half.
NotTorn(p, seen, old, new) ==
    /\ Settled(p) => seen = new
    /\ seen \notin {old, new} => /\ old \div Word # new \div Word
                                 /\ seen = ((old \div Word) * Word) + (new % Word)

\* The timeout and the MAC subnet, the two settings made by two writes each.
TornOnlyAcrossHalves ==
    \A p \in Port :
        /\ NotTorn(p, getTimeOut(reg[p]), before[p].timeout, asked[p].timeout)
        /\ NotTorn(p, reg[p][MACSubnet_off + 4] * Word + reg[p][MACSubnet_off],
                   before[p].mac, asked[p].mac)

\* At every moment, settled or not, the addresses the host computes from the
\* registers are those the engine sends with.
GettersAgree ==
    \A p \in Port : /\ getMACAddress(reg[p]) = EngineMAC(reg[p])
                    /\ getIPAddress(reg[p]) = EngineIP(reg[p])

\* Two ports that were given different ids below 2^13 have different MAC and IP
\* addresses under the same subnets, whatever low bits the MAC subnet has and
\* however the addition carries.
AddressesDistinct ==
    \A p, q \in Port :
        /\ Settled(p) /\ Settled(q)
        /\ {asked[p].id, asked[q].id} \subseteq 0..(IdSpan - 1)
        /\ asked[p].id # asked[q].id
        => /\ getMACSubnet(reg[p]) = getMACSubnet(reg[q]) =>
                 EngineMAC(reg[p]) # EngineMAC(reg[q])
           /\ reg[p][IPsubnet_off] = reg[q][IPsubnet_off] =>
                 EngineIP(reg[p]) # EngineIP(reg[q])
=============================================================================
