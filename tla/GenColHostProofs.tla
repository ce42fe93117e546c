-------------------------- MODULE GenColHostProofs --------------------------
(***************************************************************************)
(* The host program for any number of ports and packets: no generator is   *)
(* started before every engine is set up and its partner waits for it      *)
(* (ReadyToSend), and a passed test has delivered every packet in its      *)
(* place (PassMeansDelivered).                                             *)
(***************************************************************************)
EXTENDS GenColHost, SequenceTheorems, TLAPS

\* The two loops have passed a port.
Passed(c) == c[1] < dev \/ (c[1] = dev /\ c[2] < port)

\* The phases after the loop over a phase.
AfterFinish == {"errors", "end"}
AfterGenerate == {"finish"} \cup AfterFinish
AfterCollect == {"generate"} \cup AfterGenerate
AfterFec == {"links", "count", "collect"} \cup AfterCollect
AfterSet == {"fec"} \cup AfterFec

Loops == /\ phase \in {"init", "count", "errors", "end"} => port = 0
         /\ result # "none" => phase = "end"

HasID(c) == phase \in AfterSet \/ (phase \in {"init", "set"} /\ Passed(c))
HasLimit(c) == phase \in AfterSet \/ c[1] < dev \/ (phase = "set" /\ c[1] = dev)
HasFec(c) == phase \in AfterFec \/ (phase = "fec" /\ Passed(c))

\* What the registers of an engine hold.
EnginesSet ==
    \A c \in CU : /\ HasID(c) => localID[c] = IdOf(c[1], c[2])
                  /\ HasLimit(c) => limit[c] = 3
                  /\ HasFec(c) => fec[c] = 3

Collects(c) == GenCol(c[1]) = 0

Started(c) ==
    IF Collects(c) THEN phase \in AfterCollect \/ (phase = "collect" /\ Passed(c))
    ELSE phase \in AfterGenerate \/ (phase = "generate" /\ Passed(c))

Waited(c) == phase \in AfterFinish \/ (phase = "finish" /\ Passed(c))

\* The engine a generator sends to, and the one it is sent from.
Peer(c) == <<1 - c[1], c[2]>>

\* The arguments main passes to a kernel.
MainArgs(c) ==
    [gen_col |-> GenCol(c[1]),
     id |-> IF Collects(c) THEN IdOf(c[1], c[2]) ELSE IdOfPeer(c[1], c[2]),
     packets_num |-> NumPkts]

KernelsStarted ==
    \A c \in CU :
        /\ Started(c) => state[c] # "idle" /\ args[c] = MainArgs(c)
        /\ ~ Started(c) => state[c] = "idle" /\ count[c] = 0
        /\ Waited(c) => state[c] = "done"

\* How far a kernel is, and what it means for the channel to its engine.
KernelsCount ==
    \A c \in CU :
        /\ count[c] <= NumPkts
        /\ state[c] = "done" => count[c] = NumPkts

Numbered(s) == \A k \in 1 .. Len(s) : s[k].number = k - 1

IsPrefixOf(s, t) == Len(s) <= Len(t) /\ \A k \in 1 .. Len(s) : s[k] = t[k]

ChannelsInOrder ==
    \A c \in CU :
        /\ Collects(c) => /\ Len(accepted[c]) = count[Peer(c)]
                          /\ count[c] <= Len(delivered[c])
        /\ ~ Collects(c) => accepted[c] = <<>>
        /\ Numbered(accepted[c])
        /\ IsPrefixOf(delivered[c], accepted[c])

SysInv ==
    /\ HostTypeOK
    /\ Loops
    /\ EnginesSet
    /\ KernelsStarted
    /\ KernelsCount
    /\ ChannelsInOrder

-----------------------------------------------------------------------------
(* Ports and ids.                                                          *)

LEMMA Ports ==
    /\ NumPorts \in Nat \ {0} /\ NumPkts \in Nat /\ Sender \in {0, 1}
    /\ \A c \in CU : c[1] \in {0, 1} /\ c[2] \in 0 .. NumPorts - 1 /\ c = <<c[1], c[2]>>
    /\ \A i \in {0, 1}, j \in 0 .. NumPorts - 1 :
          <<i, j>> \in CU /\ <<i, j>>[1] = i /\ <<i, j>>[2] = j
    /\ MaxFlaps \in Nat
  BY HostAssumption

\* No two ports have the same id.
LEMMA IdsDiffer ==
    ASSUME NEW i \in {0, 1}, NEW k \in {0, 1},
           NEW j \in 0 .. NumPorts - 1, NEW l \in 0 .. NumPorts - 1
    PROVE  /\ IdOf(i, j) \in Nat
           /\ IdOf(i, j) = IdOf(k, l) => i = k /\ j = l
<1>1. NumPorts \in Nat \ {0} /\ 0 * NumPorts = 0 /\ 1 * NumPorts = NumPorts
  BY Ports
<1>2. IdOf(i, j) = (IF i = 0 THEN 0 ELSE NumPorts) + j
  BY <1>1 DEF IdOf
<1>3. IdOf(k, l) = (IF k = 0 THEN 0 ELSE NumPorts) + l
  BY <1>1 DEF IdOf
<1> QED
  BY <1>1, <1>2, <1>3

\* A generator's peer is on the other card, and has the id it is given.
LEMMA Peers ==
    ASSUME NEW c \in CU
    PROVE  /\ Peer(c) \in CU /\ Peer(Peer(c)) = c /\ Peer(c)[1] # c[1]
           /\ Peer(c)[1] = 1 - c[1] /\ Peer(c)[2] = c[2]
           /\ Collects(Peer(c)) <=> ~ Collects(c)
           /\ GenCol(c[1]) = IF Collects(c) THEN 0 ELSE 1
           /\ ~ Collects(c) => MainArgs(c).id = IdOf(Peer(c)[1], Peer(c)[2])
           /\ MainArgs(c).gen_col = GenCol(c[1]) /\ MainArgs(c).packets_num = NumPkts
           /\ MainArgs(c) \in Args
<1>1. c[1] \in {0, 1} /\ c[2] \in 0 .. NumPorts - 1 /\ c = <<c[1], c[2]>> /\ 1 - c[1] \in {0, 1}
  BY Ports
<1>2. Peer(c) \in CU /\ Peer(c)[1] = 1 - c[1] /\ Peer(c)[2] = c[2]
  BY <1>1, Ports DEF Peer
<1>3. 1 - (1 - c[1]) = c[1] /\ 1 - c[1] # c[1]
  BY <1>1
<1>4. Peer(Peer(c)) = c
  BY <1>1, <1>2, <1>3 DEF Peer
<1>5. Collects(Peer(c)) <=> ~ Collects(c)
  BY <1>1, <1>2, <1>3, Ports DEF Collects, GenCol
<1>6. GenCol(c[1]) = IF Collects(c) THEN 0 ELSE 1
  BY DEF Collects, GenCol
<1>7. ~ Collects(c) => MainArgs(c).id = IdOf(Peer(c)[1], Peer(c)[2])
  BY <1>2 DEF MainArgs, IdOfPeer
<1>8. IdOf(c[1], c[2]) \in Nat /\ IdOf(1 - c[1], c[2]) \in Nat
  BY <1>1, IdsDiffer
<1>9. MainArgs(c) \in Args
  BY <1>6, <1>8, Ports DEF MainArgs, Args, IdOfPeer
<1> QED
  BY <1>2, <1>3, <1>4, <1>5, <1>6, <1>7, <1>9 DEF MainArgs

-----------------------------------------------------------------------------
(* Types, packed and unpacked.                                             *)

HostTypes ==
    /\ phase \in {"init", "set"} \cup AfterSet
    /\ dev \in {0, 1} /\ port \in 0 .. NumPorts - 1
    /\ localID \in [CU -> Nat] /\ limit \in [CU -> Nat] /\ fec \in [CU -> Nat]
    /\ aligned \in [CU -> BOOLEAN]
    /\ flaps \in 0 .. MaxFlaps
    /\ \A c \in CU : status[c] \in {<<>>} \cup [{"rx_aligned"} -> BOOLEAN]
    /\ result \in {"none", "pass", "fail"}

LEMMA TypesUnpack == HostTypeOK <=> KernelTypeOK /\ HostTypes
<1>1. Here \in CU <=> dev \in {0, 1} /\ port \in 0 .. NumPorts - 1
  BY HostAssumption DEF Here
<1> QED
  BY <1>1 DEF HostTypeOK, HostTypes, Registers, AfterSet, AfterFec, AfterCollect,
              AfterGenerate, AfterFinish

LEMMA SysStarts == SysInit => SysInv
<1> SUFFICES ASSUME SysInit PROVE SysInv
  OBVIOUS
<1> USE DEF SysInit, HostInit, KernelsIdle
<1>1. HostTypes
  BY Ports DEF HostTypes
<1>2. KernelTypeOK
  <2>1. <<>> \in Seq(Packets) /\ 0 \in 0 .. ByteRange - 1
    BY KernelAssumption
  <2>2. [gen_col |-> 0, id |-> 0, packets_num |-> 0] \in Args
    BY DEF Args
  <2> QED
    BY <2>1, <2>2 DEF KernelTypeOK
<1>3. Loops
  BY DEF Loops
<1>4. phase = "init" /\ dev = 0 /\ port = 0
  OBVIOUS
<1>5. \A c \in CU : ~ Passed(c) /\ ~ (c[1] < dev)
  BY Ports DEF Passed
<1>6. EnginesSet
  BY <1>4, <1>5 DEF EnginesSet, HasID, HasLimit, HasFec, AfterSet, AfterFec,
                    AfterCollect, AfterGenerate, AfterFinish
<1>7. KernelsStarted
  BY <1>4, <1>5 DEF KernelsStarted, Started, Waited, AfterCollect, AfterGenerate, AfterFinish
<1>8. KernelsCount
  BY Ports DEF KernelsCount
<1>9. ChannelsInOrder
  <2>1. Len(<<>>) = 0
    OBVIOUS
  <2>2. \A c \in CU : accepted[c] = <<>> /\ delivered[c] = <<>> /\ count[c] = 0 /\ count[Peer(c)] = 0
    BY Peers
  <2> QED
    BY <2>1, <2>2 DEF ChannelsInOrder, Numbered, IsPrefixOf
<1> QED
  BY <1>1, <1>2, <1>3, <1>6, <1>7, <1>8, <1>9, TypesUnpack DEF SysInv

-----------------------------------------------------------------------------
(* Steps of the host.                                                      *)

LEMMA QuietKernels ==
    ASSUME SysInv, UNCHANGED <<kernelVars, channelVars>>
    PROVE  KernelTypeOK' /\ KernelsCount' /\ ChannelsInOrder'
<1>1. UNCHANGED <<state, args, count, byte_counter, error, error_o, accepted, delivered>>
  BY DEF kernelVars, channelVars
<1>2. KernelTypeOK' /\ KernelsCount'
  BY <1>1, TypesUnpack DEF SysInv, KernelTypeOK, KernelsCount
<1>3. ChannelsInOrder'
  BY <1>1 DEF SysInv, ChannelsInOrder, Numbered, IsPrefixOf
<1> QED
  BY <1>2, <1>3

\* Going on to the next port, or after the last one to the next phase.
LEMMA AdvanceStep ==
    ASSUME HostTypes, NEW next, Advance(next)
    PROVE  /\ dev' \in {0, 1} /\ port' \in 0 .. NumPorts - 1
           /\ \/ phase' = phase /\ \A c \in CU : Passed(c)' <=> Passed(c) \/ c = Here
              \/ /\ phase' = next /\ dev' = 0 /\ port' = 0
                 /\ \A c \in CU : (Passed(c) \/ c = Here) /\ ~ Passed(c)'
<1>1. \A c \in CU : c = Here <=> c[1] = dev /\ c[2] = port
  BY Ports DEF Here, HostTypes
<1>2. dev \in {0, 1} /\ port \in 0 .. NumPorts - 1
  BY DEF HostTypes
<1>3. CASE port < NumPorts - 1 /\ port' = port + 1 /\ UNCHANGED <<phase, dev>>
  BY <1>1, <1>2, <1>3, Ports DEF Passed
<1>4. CASE /\ port = NumPorts - 1 /\ dev = 0
           /\ port' = 0 /\ dev' = 1 /\ UNCHANGED phase
  BY <1>1, <1>2, <1>4, Ports DEF Passed
<1>5. CASE /\ port = NumPorts - 1 /\ dev = 1
           /\ port' = 0 /\ dev' = 0 /\ phase' = next
  BY <1>1, <1>2, <1>5, Ports DEF Passed
<1> QED
  BY <1>3, <1>4, <1>5 DEF Advance

\* A step of the host that starts no kernel and ends no loop over the kernels.
LEMMA SetUpKernels ==
    ASSUME SysInv, UNCHANGED <<kernelVars, channelVars>>,
           \A c \in CU : (Started(c)' <=> Started(c)) /\ (Waited(c)' => Waited(c) \/ state[c] = "done")
    PROVE  KernelsStarted'
<1>1. UNCHANGED <<state, args, count>> /\ \A c \in CU : MainArgs(c)' = MainArgs(c)
  BY DEF kernelVars, MainArgs
<1> QED
  BY <1>1 DEF SysInv, KernelsStarted

LEMMA SetUpStep ==
    ASSUME SysInv, UNCHANGED <<kernelVars, channelVars>>, HostTypes', Loops', EnginesSet',
           \A c \in CU : Started(c)' <=> Started(c),
           \A c \in CU : Waited(c)' => Waited(c) \/ state[c] = "done"
    PROVE  SysInv'
<1>1. KernelTypeOK' /\ KernelsCount' /\ ChannelsInOrder'
  BY QuietKernels
<1>2. KernelsStarted'
  BY SetUpKernels
<1>3. HostTypeOK'
  BY <1>1, TypesUnpack, PTL
<1> QED
  BY <1>1, <1>2, <1>3 DEF SysInv

LEMMA InitDeviceStep ==
    ASSUME SysInv, InitDevice, UNCHANGED <<kernelVars, channelVars, linkVars>> PROVE SysInv'
<1> USE DEF AfterSet, AfterFec, AfterCollect, AfterGenerate, AfterFinish
<1>1. HostTypes /\ phase = "init" /\ phase' = "set" /\ port = 0
  BY TypesUnpack DEF SysInv, Loops, InitDevice
<1>2. UNCHANGED <<dev, port, localID, fec, status, result, aligned, flaps>>
  BY DEF InitDevice, linkVars
<1>3. limit' = [c \in CU |-> IF c[1] = dev THEN 3 ELSE limit[c]]
  BY DEF InitDevice
<1>4. HostTypes'
  BY <1>1, <1>2, <1>3 DEF HostTypes
<1>5. Loops'
  BY <1>1, <1>2 DEF SysInv, Loops
<1>6. \A c \in CU : Passed(c)' <=> Passed(c)
  BY <1>2 DEF Passed
<1>7. EnginesSet'
  BY <1>1, <1>2, <1>3, <1>6 DEF SysInv, EnginesSet, HasID, HasLimit, HasFec
<1>8. \A c \in CU : (Started(c)' <=> Started(c)) /\ ~ Waited(c)'
  BY <1>1 DEF Started, Waited
<1> QED
  BY <1>4, <1>5, <1>7, <1>8, SetUpStep

LEMMA SetPortStep ==
    ASSUME SysInv, SetPort, UNCHANGED <<kernelVars, channelVars, linkVars>> PROVE SysInv'
<1> USE DEF AfterSet, AfterFec, AfterCollect, AfterGenerate, AfterFinish
<1>1. HostTypes /\ phase = "set"
  BY TypesUnpack DEF SysInv, SetPort
<1>2. UNCHANGED <<limit, fec, status, result, aligned, flaps>>
  BY DEF SetPort, linkVars
<1>3. Here \in CU /\ localID' = [localID EXCEPT ![Here] = IdOf(dev, port)] /\ IdOf(dev, port) \in Nat
  BY <1>1, Ports, IdsDiffer DEF SetPort, HostTypes, Here
<1>4. \/ port < NumPorts - 1 /\ port' = port + 1 /\ dev' = dev /\ phase' = phase
      \/ port = NumPorts - 1 /\ port' = 0 /\ dev = 0 /\ dev' = 1 /\ phase' = "init"
      \/ port = NumPorts - 1 /\ port' = 0 /\ dev = 1 /\ dev' = 0 /\ phase' = "fec"
  <2>1. dev \in {0, 1} /\ port \in 0 .. NumPorts - 1 /\ NumPorts \in Nat \ {0}
    BY <1>1, Ports DEF HostTypes
  <2>2. IF port < NumPorts - 1
        THEN port' = port + 1 /\ UNCHANGED <<phase, dev>>
        ELSE port' = 0 /\ dev' = 1 - dev /\ phase' = IF dev = 0 THEN "init" ELSE "fec"
    BY DEF SetPort
  <2>3. CASE port < NumPorts - 1
    BY <2>2, <2>3
  <2>4. CASE ~ (port < NumPorts - 1)
    <3>1. port = NumPorts - 1 /\ port' = 0
      BY <2>1, <2>2, <2>4
    <3>2. CASE dev = 0
      BY <2>2, <2>4, <3>1, <3>2
    <3>3. CASE dev = 1
      BY <2>2, <2>4, <3>1, <3>3
    <3> QED
      BY <2>1, <3>2, <3>3
  <2> QED
    BY <2>3, <2>4
<1>5. HostTypes'
  <2>1. localID' \in [CU -> Nat]
    BY <1>1, <1>3 DEF HostTypes
  <2>2. dev' \in {0, 1} /\ port' \in 0 .. NumPorts - 1
    BY <1>1, <1>4, Ports DEF HostTypes
  <2>3. phase' \in {"init", "set", "fec"}
    BY <1>1, <1>4
  <2> QED
    BY <1>1, <1>2, <2>1, <2>2, <2>3 DEF HostTypes
<1>6. Loops'
  BY <1>1, <1>2, <1>4 DEF SysInv, Loops
<1>7. \A c \in CU : c = Here <=> c[1] = dev /\ c[2] = port
  BY <1>1, Ports DEF Here, HostTypes
<1>8. \A c \in CU : HasID(c)' => Passed(c) \/ c = Here
  BY <1>1, <1>4, <1>7, Ports DEF HasID, Passed, HostTypes
<1>9. \A c \in CU : localID'[c] = IF c = Here THEN IdOf(c[1], c[2]) ELSE localID[c]
  BY <1>1, <1>3, <1>7 DEF HostTypes
<1>10. \A c \in CU : HasID(c)' => localID'[c] = IdOf(c[1], c[2])
  BY <1>1, <1>8, <1>9 DEF SysInv, EnginesSet, HasID
<1>11. \A c \in CU : HasLimit(c)' => HasLimit(c)
  BY <1>1, <1>4, Ports DEF HasLimit, HostTypes
<1>12. \A c \in CU : ~ HasFec(c)'
  <2>1. CASE phase' = "fec"
    BY <1>1, <1>4, <2>1, Ports DEF HasFec, Passed
  <2>2. CASE phase' # "fec"
    BY <1>1, <1>4, <2>2 DEF HasFec
  <2> QED
    BY <2>1, <2>2
<1>13. EnginesSet'
  BY <1>2, <1>10, <1>11, <1>12 DEF SysInv, EnginesSet
<1>14. \A c \in CU : (Started(c)' <=> Started(c)) /\ ~ Waited(c)'
  BY <1>1, <1>4 DEF Started, Waited
<1> QED
  BY <1>5, <1>6, <1>13, <1>14, SetUpStep

LEMMA TurnOnFecStep ==
    ASSUME SysInv, TurnOnFec, UNCHANGED <<kernelVars, channelVars, linkVars>> PROVE SysInv'
<1> USE DEF AfterSet, AfterFec, AfterCollect, AfterGenerate, AfterFinish
<1>1. HostTypes /\ phase = "fec" /\ Advance("links")
  BY TypesUnpack DEF SysInv, TurnOnFec
<1>2. UNCHANGED <<localID, limit, status, result, aligned, flaps>>
  BY DEF TurnOnFec, linkVars
<1>3. /\ dev' \in {0, 1} /\ port' \in 0 .. NumPorts - 1
      /\ \/ phase' = "fec" /\ \A c \in CU : Passed(c)' <=> Passed(c) \/ c = Here
         \/ /\ phase' = "links" /\ dev' = 0 /\ port' = 0
            /\ \A c \in CU : (Passed(c) \/ c = Here) /\ ~ Passed(c)'
  BY <1>1, AdvanceStep
<1>4. Here \in CU /\ fec' = [fec EXCEPT ![Here] = 3]
  BY <1>1, Ports DEF TurnOnFec, HostTypes, Here
<1>5. HostTypes'
  BY <1>1, <1>2, <1>3, <1>4 DEF HostTypes
<1>6. Loops'
  BY <1>1, <1>2, <1>3 DEF SysInv, Loops
<1>7. \A c \in CU : HasFec(c)' => HasFec(c) \/ c = Here
  BY <1>1, <1>3 DEF HasFec
<1>8. \A c \in CU : HasFec(c)' => fec'[c] = 3
  BY <1>1, <1>4, <1>7 DEF SysInv, EnginesSet, HostTypes
<1>9. \A c \in CU : HasID(c) /\ HasLimit(c)
  BY <1>1 DEF HasID, HasLimit
<1>10. EnginesSet'
  BY <1>2, <1>8, <1>9 DEF SysInv, EnginesSet
<1>11. \A c \in CU : (Started(c)' <=> Started(c)) /\ ~ Waited(c)'
  BY <1>1, <1>3 DEF Started, Waited
<1> QED
  BY <1>5, <1>6, <1>10, <1>11, SetUpStep

LEMMA ReadStatusStep ==
    ASSUME SysInv, ReadStatus, UNCHANGED <<kernelVars, channelVars, linkVars>> PROVE SysInv'
<1> USE DEF AfterSet, AfterFec, AfterCollect, AfterGenerate, AfterFinish
<1>1. HostTypes /\ phase = "links"
  BY TypesUnpack DEF SysInv, ReadStatus
<1>2. UNCHANGED <<dev, localID, limit, fec, result, aligned, flaps>>
  BY DEF ReadStatus, linkVars
<1>3. \/ port < NumPorts - 1 /\ port' = port + 1 /\ phase' = "links"
      \/ port' = 0 /\ phase' = "count"
  BY <1>1 DEF ReadStatus
<1>4. Here \in CU /\ status' = [status EXCEPT ![Here] = linkStatus(Here)]
  BY <1>1, Ports DEF ReadStatus, HostTypes, Here
<1>5. linkStatus(Here) \in [{"rx_aligned"} -> BOOLEAN]
  <2>1. aligned[Here] \in BOOLEAN
    BY <1>1, <1>4 DEF HostTypes
  <2> QED
    BY <2>1 DEF linkStatus
<1>6. \A c \in CU : status'[c] \in {<<>>} \cup [{"rx_aligned"} -> BOOLEAN]
  BY <1>1, <1>4, <1>5 DEF HostTypes
<1>7. HostTypes'
  BY <1>1, <1>2, <1>3, <1>6, Ports DEF HostTypes
<1>8. Loops'
  BY <1>1, <1>2, <1>3 DEF SysInv, Loops
<1>9. \A c \in CU : HasID(c) /\ HasLimit(c) /\ HasFec(c)
  BY <1>1 DEF HasID, HasLimit, HasFec
<1>10. EnginesSet'
  BY <1>2, <1>9 DEF SysInv, EnginesSet
<1>11. \A c \in CU : (Started(c)' <=> Started(c)) /\ ~ Waited(c)'
  BY <1>1, <1>3 DEF Started, Waited
<1> QED
  BY <1>7, <1>8, <1>10, <1>11, SetUpStep

LEMMA CountLinksStep ==
    ASSUME SysInv, CountLinks, UNCHANGED <<kernelVars, channelVars, linkVars>> PROVE SysInv'
<1> USE DEF AfterSet, AfterFec, AfterCollect, AfterGenerate, AfterFinish
<1>1. HostTypes /\ phase = "count" /\ port = 0
  BY TypesUnpack DEF SysInv, Loops, CountLinks
<1>2. UNCHANGED <<port, localID, limit, fec, status, result, aligned, flaps>>
  BY DEF CountLinks, linkVars
<1>3. /\ phase' = "links" \/ (phase' = "collect" /\ dev' = 0)
      /\ dev' \in {0, 1}
  BY <1>1 DEF CountLinks, HostTypes
<1>4. HostTypes'
  BY <1>1, <1>2, <1>3 DEF HostTypes
<1>5. Loops'
  BY <1>1, <1>2, <1>3 DEF SysInv, Loops
<1>6. \A c \in CU : HasID(c) /\ HasLimit(c) /\ HasFec(c)
  BY <1>1 DEF HasID, HasLimit, HasFec
<1>7. EnginesSet'
  BY <1>2, <1>6 DEF SysInv, EnginesSet
<1>8. \A c \in CU : (Started(c)' <=> Started(c)) /\ ~ Waited(c)'
  <2>1. CASE phase' = "links"
    BY <1>1, <2>1 DEF Started, Waited
  <2>2. CASE phase' = "collect" /\ dev' = 0
    BY <1>1, <1>2, <2>2, Ports DEF Started, Waited, Passed
  <2> QED
    BY <1>3, <2>1, <2>2
<1> QED
  BY <1>4, <1>5, <1>7, <1>8, SetUpStep

LEMMA FinishStep ==
    ASSUME SysInv, Finish, UNCHANGED <<kernelVars, channelVars, linkVars>> PROVE SysInv'
<1> USE DEF AfterSet, AfterFec, AfterCollect, AfterGenerate, AfterFinish
<1>1. HostTypes /\ phase = "finish" /\ state[Here] = "done" /\ Advance("errors")
  BY TypesUnpack DEF SysInv, Finish, KernelDone
<1>2. UNCHANGED <<localID, limit, fec, status, result, aligned, flaps>>
  BY DEF Finish, linkVars
<1>3. /\ dev' \in {0, 1} /\ port' \in 0 .. NumPorts - 1
      /\ \/ phase' = "finish" /\ \A c \in CU : Passed(c)' <=> Passed(c) \/ c = Here
         \/ /\ phase' = "errors" /\ dev' = 0 /\ port' = 0
            /\ \A c \in CU : (Passed(c) \/ c = Here) /\ ~ Passed(c)'
  BY <1>1, AdvanceStep
<1>4. HostTypes'
  BY <1>1, <1>2, <1>3 DEF HostTypes
<1>5. Loops'
  BY <1>1, <1>2, <1>3 DEF SysInv, Loops
<1>6. \A c \in CU : HasID(c) /\ HasLimit(c) /\ HasFec(c)
  BY <1>1 DEF HasID, HasLimit, HasFec
<1>7. EnginesSet'
  BY <1>2, <1>6 DEF SysInv, EnginesSet
<1>8. \A c \in CU : Started(c)' <=> Started(c)
  BY <1>1, <1>3 DEF Started
<1>9. \A c \in CU : Waited(c)' => Waited(c) \/ state[c] = "done"
  BY <1>1, <1>3 DEF Waited
<1> QED
  BY <1>4, <1>5, <1>7, <1>8, <1>9, SetUpStep

LEMMA GetErrorsStep ==
    ASSUME SysInv, GetErrors, UNCHANGED <<kernelVars, channelVars, linkVars>> PROVE SysInv'
<1> USE DEF AfterSet, AfterFec, AfterCollect, AfterGenerate, AfterFinish
<1>1. HostTypes /\ phase = "errors" /\ phase' = "end" /\ port = 0 /\ result' \in {"pass", "fail"}
  BY TypesUnpack DEF SysInv, Loops, GetErrors
<1>2. UNCHANGED <<dev, port, localID, limit, fec, status, aligned, flaps>>
  BY DEF GetErrors, linkVars
<1>3. HostTypes'
  BY <1>1, <1>2 DEF HostTypes
<1>4. Loops'
  BY <1>1, <1>2 DEF Loops
<1>5. \A c \in CU : HasID(c) /\ HasLimit(c) /\ HasFec(c)
  BY <1>1 DEF HasID, HasLimit, HasFec
<1>6. EnginesSet'
  BY <1>2, <1>5 DEF SysInv, EnginesSet
<1>7. \A c \in CU : (Started(c)' <=> Started(c)) /\ (Waited(c)' => Waited(c))
  BY <1>1 DEF Started, Waited
<1> QED
  BY <1>3, <1>4, <1>6, <1>7, SetUpStep

\* One kernel is started by one of the two loops over the kernels, which goes on.
LEMMA StartedOne ==
    ASSUME SysInv, phase \in {"collect", "generate"},
           ~ Started(Here), StartKernel(Here, MainArgs(Here)),
           HostTypes', Loops', EnginesSet',
           \A c \in CU : Started(c)' <=> Started(c) \/ c = Here,
           \A c \in CU : ~ Waited(c)'
    PROVE  SysInv'
<1> DEFINE h == Here
<1>1. /\ args' = [args EXCEPT ![h] = MainArgs(h)]
      /\ state' = [state EXCEPT ![h] = "busy"]
      /\ count' = [count EXCEPT ![h] = 0]
      /\ byte_counter' = [byte_counter EXCEPT ![h] = 0]
      /\ error' = [error EXCEPT ![h] = 0]
      /\ UNCHANGED <<error_o, accepted, delivered>>
  BY DEF StartKernel, channelVars
<1>2. h \in CU /\ MainArgs(h) \in Args
  BY Peers DEF SysInv, HostTypeOK
<1>3. \A c \in CU : /\ Started(c)' <=> (Started(c) \/ c = h)
                     /\ ~ Waited(c)' /\ MainArgs(c)' = MainArgs(c)
  BY DEF MainArgs
<1>4. ~ Started(h)
  OBVIOUS
<1> HIDE DEF h
<1>5. KernelTypeOK
  BY DEF SysInv, HostTypeOK
<1>6. count[h] = 0 /\ count' = count /\ state[h] = "idle"
  BY <1>1, <1>2, <1>4, <1>5 DEF SysInv, KernelsStarted, KernelTypeOK
<1>7. KernelTypeOK'
  <2>1. 0 \in 0 .. ByteRange - 1
    BY KernelAssumption
  <2> QED
    BY <1>1, <1>2, <1>5, <1>6, <2>1 DEF KernelTypeOK
<1>8. KernelsStarted'
  <2> SUFFICES ASSUME NEW c \in CU
               PROVE  /\ Started(c)' => state'[c] # "idle" /\ args'[c] = MainArgs(c)
                      /\ ~ Started(c)' => state'[c] = "idle" /\ count'[c] = 0
                      /\ ~ Waited(c)'
    BY <1>3 DEF KernelsStarted
  <2>1. CASE c = h
    BY <1>1, <1>2, <1>3, <1>5, <2>1 DEF KernelTypeOK
  <2>2. CASE c # h
    BY <1>1, <1>2, <1>3, <1>5, <1>6, <2>2 DEF KernelTypeOK, SysInv, KernelsStarted
  <2> QED
    BY <2>1, <2>2
<1>9. KernelsCount'
  BY <1>1, <1>2, <1>5, <1>6, Ports DEF SysInv, KernelsCount, KernelTypeOK
<1>10. ChannelsInOrder'
  BY <1>1, <1>6 DEF SysInv, ChannelsInOrder, Numbered, IsPrefixOf
<1>11. HostTypeOK'
  BY <1>7, TypesUnpack, PTL
<1> QED
  BY <1>8, <1>9, <1>10, <1>11 DEF SysInv

LEMMA RunCollectorsStep ==
    ASSUME SysInv, RunCollectors, UNCHANGED linkVars PROVE SysInv'
<1> USE DEF AfterSet, AfterFec, AfterCollect, AfterGenerate, AfterFinish
<1>1. HostTypes /\ phase = "collect" /\ Advance("generate")
  BY TypesUnpack DEF SysInv, RunCollectors
<1>2. UNCHANGED <<localID, limit, fec, status, result, aligned, flaps>>
  BY DEF RunCollectors, linkVars
<1>3. /\ dev' \in {0, 1} /\ port' \in 0 .. NumPorts - 1
      /\ \/ phase' = "collect" /\ \A c \in CU : Passed(c)' <=> Passed(c) \/ c = Here
         \/ /\ phase' = "generate" /\ dev' = 0 /\ port' = 0
            /\ \A c \in CU : (Passed(c) \/ c = Here) /\ ~ Passed(c)'
  BY <1>1, AdvanceStep
<1>4. Here \in CU /\ Here[1] = dev /\ Here[2] = port /\ ~ Passed(Here)
  BY <1>1, Ports DEF HostTypes, Here, Passed
<1>5. HostTypes'
  BY <1>1, <1>2, <1>3 DEF HostTypes
<1>6. Loops'
  BY <1>1, <1>2, <1>3 DEF SysInv, Loops
<1>7. EnginesSet'
  <2>1. \A c \in CU : HasID(c) /\ HasLimit(c) /\ HasFec(c)
    BY <1>1 DEF HasID, HasLimit, HasFec
  <2> QED
    BY <1>2, <2>1 DEF SysInv, EnginesSet
<1>8. \A c \in CU : Collects(c)' <=> Collects(c)
  BY DEF Collects, GenCol
<1>9. \A c \in CU : Started(c)' <=> Started(c) \/ (c = Here /\ Collects(c))
  BY <1>1, <1>3, <1>8 DEF Started
<1>10. \A c \in CU : ~ Waited(c)'
  BY <1>1, <1>3 DEF Waited
<1>11. CASE Collects(Here)
  <2>1. StartKernel(Here, [gen_col |-> 0, id |-> IdOf(dev, port), packets_num |-> NumPkts])
    BY <1>4, <1>11 DEF RunCollectors, Collects
  <2>2. MainArgs(Here) = [gen_col |-> 0, id |-> IdOf(dev, port), packets_num |-> NumPkts]
    BY <1>4, <1>11 DEF MainArgs, Collects
  <2>3. ~ Started(Here)
    BY <1>1, <1>4, <1>11 DEF Started
  <2>4. \A c \in CU : Started(c)' <=> Started(c) \/ c = Here
    BY <1>9, <1>11
  <2> QED
    BY <1>1, <1>5, <1>6, <1>7, <1>10, <2>1, <2>2, <2>3, <2>4, StartedOne
<1>12. CASE ~ Collects(Here)
  <2>1. UNCHANGED <<kernelVars, channelVars>>
    BY <1>4, <1>12 DEF RunCollectors, Collects
  <2>2. \A c \in CU : Started(c)' <=> Started(c)
    BY <1>9, <1>12
  <2> QED
    BY <1>5, <1>6, <1>7, <1>10, <2>1, <2>2, SetUpStep
<1> QED
  BY <1>11, <1>12

LEMMA RunGeneratorsStep ==
    ASSUME SysInv, RunGenerators, UNCHANGED linkVars PROVE SysInv'
<1> USE DEF AfterSet, AfterFec, AfterCollect, AfterGenerate, AfterFinish
<1>1. HostTypes /\ phase = "generate" /\ Advance("finish")
  BY TypesUnpack DEF SysInv, RunGenerators
<1>2. UNCHANGED <<localID, limit, fec, status, result, aligned, flaps>>
  BY DEF RunGenerators, linkVars
<1>3. /\ dev' \in {0, 1} /\ port' \in 0 .. NumPorts - 1
      /\ \/ phase' = "generate" /\ \A c \in CU : Passed(c)' <=> Passed(c) \/ c = Here
         \/ /\ phase' = "finish" /\ dev' = 0 /\ port' = 0
            /\ \A c \in CU : (Passed(c) \/ c = Here) /\ ~ Passed(c)'
  BY <1>1, AdvanceStep
<1>4. Here \in CU /\ Here[1] = dev /\ Here[2] = port /\ ~ Passed(Here)
  BY <1>1, Ports DEF HostTypes, Here, Passed
<1>5. HostTypes'
  BY <1>1, <1>2, <1>3 DEF HostTypes
<1>6. Loops'
  BY <1>1, <1>2, <1>3 DEF SysInv, Loops
<1>7. EnginesSet'
  <2>1. \A c \in CU : HasID(c) /\ HasLimit(c) /\ HasFec(c)
    BY <1>1 DEF HasID, HasLimit, HasFec
  <2> QED
    BY <1>2, <2>1 DEF SysInv, EnginesSet
<1>8. \A c \in CU : Collects(c)' <=> Collects(c)
  BY DEF Collects, GenCol
<1>9. \A c \in CU : Started(c)' <=> Started(c) \/ (c = Here /\ ~ Collects(c))
  BY <1>1, <1>3, <1>8 DEF Started
<1>10. \A c \in CU : ~ Waited(c)'
  BY <1>1, <1>3 DEF Waited
<1>11. CASE ~ Collects(Here)
  <2>1. StartKernel(Here, [gen_col |-> 1, id |-> IdOfPeer(dev, port), packets_num |-> NumPkts])
    BY <1>4, <1>11, Peers DEF RunGenerators
  <2>2. MainArgs(Here) = [gen_col |-> 1, id |-> IdOfPeer(dev, port), packets_num |-> NumPkts]
    BY <1>4, <1>11, Peers DEF MainArgs
  <2>3. ~ Started(Here)
    BY <1>1, <1>4, <1>11 DEF Started
  <2>4. \A c \in CU : Started(c)' <=> Started(c) \/ c = Here
    BY <1>9, <1>11
  <2> QED
    BY <1>1, <1>5, <1>6, <1>7, <1>10, <2>1, <2>2, <2>3, <2>4, StartedOne
<1>12. CASE Collects(Here)
  <2>1. UNCHANGED <<kernelVars, channelVars>>
    BY <1>4, <1>12 DEF RunGenerators, Collects
  <2>2. \A c \in CU : Started(c)' <=> Started(c)
    BY <1>9, <1>12
  <2> QED
    BY <1>5, <1>6, <1>7, <1>10, <2>1, <2>2, SetUpStep
<1> QED
  BY <1>11, <1>12

-----------------------------------------------------------------------------
(* Steps of kernels, channel and links.                                    *)

\* A step that leaves main alone and no kernel idle or started again.
LEMMA KernelSide ==
    ASSUME SysInv, UNCHANGED <<hostVars, aligned, args>>, flaps' \in 0 .. MaxFlaps,
           \A c \in CU : (state'[c] = "idle" <=> state[c] = "idle")
                         /\ (state[c] = "done" => state'[c] = "done")
                         /\ (state[c] = "idle" => count'[c] = count[c]),
           KernelTypeOK', KernelsCount', ChannelsInOrder'
    PROVE  SysInv'
<1>1. UNCHANGED <<phase, dev, port, localID, limit, fec, status, result>>
  BY DEF hostVars
<1>2. HostTypes'
  <2>1. HostTypes
    BY TypesUnpack DEF SysInv
  <2> QED
    BY <1>1, <2>1 DEF HostTypes
<1>3. HostTypeOK'
  BY <1>2, TypesUnpack, PTL
<1>4. Loops' /\ EnginesSet'
  BY <1>1 DEF SysInv, Loops, EnginesSet, HasID, HasLimit, HasFec, Passed
<1>5. \A c \in CU : /\ (Started(c)' <=> Started(c)) /\ (Waited(c)' <=> Waited(c))
                     /\ MainArgs(c)' = MainArgs(c)
  BY <1>1 DEF Started, Waited, Passed, Collects, MainArgs
<1>6. KernelsStarted'
  BY <1>5 DEF SysInv, KernelsStarted
<1> QED
  BY <1>3, <1>4, <1>6 DEF SysInv

LEMMA KernelTypes ==
    ASSUME KernelTypeOK, NEW c \in CU
    PROVE  /\ count[c] \in Nat /\ args[c] \in Args /\ byte_counter[c] \in 0 .. ByteRange - 1
           /\ args[c].id \in Nat
           /\ state[c] \in {"idle", "busy", "done"} /\ error[c] \in {0, 1}
           /\ accepted[c] \in Seq(Packets) /\ Len(accepted[c]) \in Nat
           /\ delivered[c] \in Seq(Packets) /\ Len(delivered[c]) \in Nat
           /\ \A k \in 1 .. Len(accepted[c]) : accepted[c][k] \in Packets
  BY ElementOfSeq, LenProperties DEF KernelTypeOK, Args

\* The loop of one kernel.
LEMMA LoopStep ==
    ASSUME KernelTypeOK, NEW c \in CU, NextPacket(c)
    PROVE  /\ count' \in [CU -> Nat] /\ count'[c] = count[c] + 1
           /\ \A d \in CU : d # c => count'[d] = count[d]
           /\ byte_counter' \in [CU -> 0 .. ByteRange - 1]
<1>1. /\ count' = [count EXCEPT ![c] = count[c] + 1]
      /\ byte_counter' = [byte_counter EXCEPT ![c] = Byte(byte_counter[c] + Bytes)]
  BY DEF NextPacket
<1>2. count \in [CU -> Nat] /\ byte_counter \in [CU -> 0 .. ByteRange - 1]
  BY DEF KernelTypeOK
<1>3. Byte(byte_counter[c] + Bytes) \in 0 .. ByteRange - 1
  <2>1. ByteRange \in Nat \ {0} /\ byte_counter[c] + Bytes \in Nat
    BY <1>2, KernelAssumption
  <2> QED
    BY <2>1 DEF Byte
<1>4. count'[c] = count[c] + 1 /\ count' \in [CU -> Nat] /\ \A d \in CU : d # c => count'[d] = count[d]
  BY <1>1, <1>2
<1>5. byte_counter' \in [CU -> 0 .. ByteRange - 1]
  BY <1>1, <1>2, <1>3
<1> QED
  BY <1>4, <1>5

\* A kernel that is busy is a started one, with the arguments main gave it.
LEMMA BusyStarted ==
    ASSUME SysInv, NEW c \in CU, state[c] # "idle"
    PROVE  /\ Started(c) /\ args[c] = MainArgs(c)
           /\ args[c].packets_num = NumPkts
           /\ args[c].gen_col = IF Collects(c) THEN 0 ELSE 1
           /\ ~ Collects(c) => args[c].id = IdOf(Peer(c)[1], Peer(c)[2])
<1>1. Started(c) /\ args[c] = MainArgs(c)
  BY DEF SysInv, KernelsStarted
<1> QED
  BY <1>1, Peers

\* Every engine is set up when a kernel runs.
LEMMA AllSetUp ==
    ASSUME SysInv, NEW g \in CU, Started(g)
    PROVE  /\ \A c \in CU : localID[c] = IdOf(c[1], c[2]) /\ limit[c] = 3 /\ fec[c] = 3
           /\ ~ Collects(g) => \A c \in CU : Collects(c) => Started(c)
<1> USE DEF AfterSet, AfterFec, AfterCollect, AfterGenerate, AfterFinish
<1>1. \A c \in CU : HasID(c) /\ HasLimit(c) /\ HasFec(c)
  BY DEF HasID, HasLimit, HasFec, Started
<1>2. ~ Collects(g) => \A c \in CU : Collects(c) => Started(c)
  BY DEF Started
<1> QED
  BY <1>1, <1>2 DEF SysInv, EnginesSet

\* One engine only has the id a generator sends to.
LEMMA OnePartner ==
    ASSUME SysInv, NEW g \in CU, state[g] # "idle", ~ Collects(g),
           NEW d \in CU, localID[d] = args[g].id
    PROVE  d = Peer(g)
<1>1. localID[d] = IdOf(d[1], d[2]) /\ args[g].id = IdOf(Peer(g)[1], Peer(g)[2])
  BY AllSetUp, BusyStarted
<1>2. /\ d[1] \in {0, 1} /\ d[2] \in 0 .. NumPorts - 1 /\ d = <<d[1], d[2]>>
      /\ Peer(g)[1] \in {0, 1} /\ Peer(g)[2] \in 0 .. NumPorts - 1
      /\ Peer(g) = <<Peer(g)[1], Peer(g)[2]>>
  BY Ports, Peers
<1> DEFINE i == d[1]
           j == d[2]
           k == Peer(g)[1]
           l == Peer(g)[2]
<1>3. /\ i \in {0, 1} /\ k \in {0, 1} /\ j \in 0 .. NumPorts - 1 /\ l \in 0 .. NumPorts - 1
      /\ IdOf(i, j) = IdOf(k, l)
  BY <1>1, <1>2
<1> HIDE DEF i, j, k, l
<1>4. i = k /\ j = l
  BY ONLY <1>3, IdsDiffer
<1> QED
  BY <1>2, <1>4 DEF i, j, k, l

\* One packet more, and one packet more that is the next one.
LEMMA NumberedGrows ==
    ASSUME NEW s \in Seq(Packets), Numbered(s), NEW e \in Packets, e.number = Len(s)
    PROVE  /\ Append(s, e) \in Seq(Packets) /\ Len(Append(s, e)) = Len(s) + 1
           /\ Numbered(Append(s, e))
<1>1. /\ Append(s, e) \in Seq(Packets) /\ Len(Append(s, e)) = Len(s) + 1 /\ Len(s) \in Nat
      /\ Append(s, e)[Len(s) + 1] = e
      /\ \A k \in 1 .. Len(s) : Append(s, e)[k] = s[k]
  BY AppendProperties, LenProperties
<1>2. \A k \in 1 .. Len(Append(s, e)) : k \in 1 .. Len(s) \/ (k = Len(s) + 1 /\ k - 1 = Len(s))
  BY <1>1
<1> QED
  BY <1>1, <1>2 DEF Numbered

LEMMA PrefixGrows ==
    ASSUME NEW s \in Seq(Packets), NEW t \in Seq(Packets), IsPrefixOf(s, t), NEW e \in Packets
    PROVE  /\ IsPrefixOf(s, Append(t, e))
           /\ Len(s) < Len(t) => IsPrefixOf(Append(s, t[Len(s) + 1]), t)
<1>1. Len(s) \in Nat /\ Len(t) \in Nat
  BY LenProperties
<1>2. /\ Len(Append(t, e)) = Len(t) + 1 /\ \A k \in 1 .. Len(t) : Append(t, e)[k] = t[k]
  BY <1>1, AppendProperties
<1>3. IsPrefixOf(s, Append(t, e))
  BY <1>1, <1>2 DEF IsPrefixOf
<1>4. ASSUME Len(s) < Len(t) PROVE IsPrefixOf(Append(s, t[Len(s) + 1]), t)
  <2> DEFINE f == t[Len(s) + 1]
  <2>1. f \in Packets
    BY <1>1, <1>4, ElementOfSeq
  <2> HIDE DEF f
  <2>2. /\ Len(Append(s, f)) = Len(s) + 1 /\ Append(s, f)[Len(s) + 1] = f
        /\ \A k \in 1 .. Len(s) : Append(s, f)[k] = s[k]
    BY <1>1, <2>1, AppendProperties
  <2>3. \A k \in 1 .. Len(Append(s, f)) : k \in 1 .. Len(s) \/ k = Len(s) + 1
    BY <1>1, <2>2
  <2>4. \A k \in 1 .. Len(Append(s, f)) : Append(s, f)[k] = t[k]
    BY <2>2, <2>3 DEF IsPrefixOf, f
  <2> QED
    BY <1>1, <1>4, <2>2, <2>4 DEF IsPrefixOf, f
<1> QED
  BY <1>3, <1>4

\* A generator sends a packet to its partner's engine.
LEMMA SendStep ==
    ASSUME SysInv, NEW c \in CU, Send(c), UNCHANGED <<hostVars, linkVars>> PROVE SysInv'
<1>1. PICK d \in CU : localID[d] = args[c].id /\ Generate(c, d)
  BY DEF Send
<1> DEFINE pkt == [id |-> args[c].id, number |-> count[c], from |-> byte_counter[c]]
<1>2. /\ state[c] = "busy" /\ count[c] < args[c].packets_num /\ args[c].gen_col = 1
      /\ accepted' = [accepted EXCEPT ![d] = Append(accepted[d], pkt)]
      /\ NextPacket(c)
      /\ UNCHANGED <<state, args, error, error_o, delivered>>
  BY <1>1 DEF Generate, More, Channel!Accept
<1>3. KernelTypeOK
  BY DEF SysInv, HostTypeOK
<1>4. pkt \in Packets /\ pkt.number = count[c]
  BY <1>3, KernelTypes DEF Packets
<1> HIDE DEF pkt
<1>5. ~ Collects(c) /\ d = Peer(c) /\ count[c] < NumPkts
  BY <1>1, <1>2, BusyStarted, OnePartner
<1>6. /\ count' \in [CU -> Nat] /\ count'[c] = count[c] + 1
      /\ \A e \in CU : e # c => count'[e] = count[e]
      /\ byte_counter' \in [CU -> 0 .. ByteRange - 1]
  BY <1>2, <1>3, LoopStep
<1>7. /\ Collects(d) /\ Peer(d) = c /\ \A e \in CU : Peer(e) = c => e = d
  BY <1>5, Peers
<1>8. /\ accepted[d] \in Seq(Packets) /\ Numbered(accepted[d])
      /\ Len(accepted[d]) = count[c] /\ IsPrefixOf(delivered[d], accepted[d])
      /\ delivered[d] \in Seq(Packets)
  BY <1>3, <1>7, KernelTypes DEF SysInv, ChannelsInOrder
<1>9. /\ accepted' \in [CU -> Seq(Packets)]
      /\ accepted'[d] = Append(accepted[d], pkt)
      /\ \A e \in CU : e # d => accepted'[e] = accepted[e]
  <2>1. Append(accepted[d], pkt) \in Seq(Packets)
    BY <1>4, <1>8, NumberedGrows
  <2> QED
    BY <1>2, <1>3, <2>1 DEF KernelTypeOK
<1>10. /\ Numbered(accepted'[d]) /\ Len(accepted'[d]) = count'[c]
       /\ IsPrefixOf(delivered[d], accepted'[d])
  BY <1>4, <1>6, <1>8, <1>9, NumberedGrows, PrefixGrows
<1>11. KernelTypeOK'
  BY <1>2, <1>3, <1>6, <1>9 DEF KernelTypeOK
<1>12. KernelsCount'
  <2> SUFFICES ASSUME NEW e \in CU
               PROVE  count'[e] <= NumPkts /\ (state'[e] = "done" => count'[e] = NumPkts)
    BY DEF KernelsCount
  <2>1. CASE e = c
    BY <1>2, <1>3, <1>5, <1>6, <2>1, Ports, KernelTypes
  <2>2. CASE e # c
    BY <1>2, <1>6, <2>2 DEF SysInv, KernelsCount
  <2> QED
    BY <2>1, <2>2
<1>13. ChannelsInOrder'
  <2> SUFFICES ASSUME NEW e \in CU
               PROVE  /\ Collects(e) => /\ Len(accepted'[e]) = count'[Peer(e)]
                                        /\ count'[e] <= Len(delivered'[e])
                      /\ ~ Collects(e) => accepted'[e] = <<>>
                      /\ Numbered(accepted'[e])
                      /\ IsPrefixOf(delivered'[e], accepted'[e])
    BY DEF ChannelsInOrder, Numbered, IsPrefixOf, Collects, GenCol, Peer
  <2>1. CASE e = d
    <3>1. count'[d] = count[d] /\ count[d] <= Len(delivered[d])
      BY <1>5, <1>6, <1>7 DEF SysInv, ChannelsInOrder
    <3> QED
      BY <1>2, <1>7, <1>10, <2>1, <3>1
  <2>2. CASE e # d
    <3>1. accepted'[e] = accepted[e] /\ delivered'[e] = delivered[e]
      BY <1>2, <1>9, <2>2
    <3>2. count'[Peer(e)] = count[Peer(e)]
      BY <1>6, <1>7, <2>2, Peers
    <3>3. Collects(e) => count'[e] = count[e]
      BY <1>5, <1>6
    <3> QED
      BY <3>1, <3>2, <3>3 DEF SysInv, ChannelsInOrder
  <2> QED
    BY <2>1, <2>2
<1>14. UNCHANGED <<aligned, flaps>> /\ flaps' \in 0 .. MaxFlaps
  BY DEF linkVars, SysInv, HostTypeOK
<1>15. \A e \in CU : state[e] = "idle" => count'[e] = count[e]
  BY <1>2, <1>6
<1> QED
  BY <1>2, <1>11, <1>12, <1>13, <1>14, <1>15, KernelSide

LEMMA CollectStep ==
    ASSUME SysInv, NEW c \in CU, Collect(c), UNCHANGED <<hostVars, linkVars>> PROVE SysInv'
<1>1. /\ state[c] = "busy" /\ count[c] < args[c].packets_num /\ args[c].gen_col = 0
      /\ count[c] < Len(delivered[c])
      /\ error' = [error EXCEPT ![c] = ErrorAfter(c, delivered[c][count[c] + 1])]
      /\ NextPacket(c)
      /\ UNCHANGED <<state, args, error_o, accepted, delivered>>
  BY DEF Collect, More, channelVars
<1>2. KernelTypeOK
  BY DEF SysInv, HostTypeOK
<1>3. Collects(c) /\ count[c] < NumPkts
  BY <1>1, BusyStarted
<1>4. /\ count' \in [CU -> Nat] /\ count'[c] = count[c] + 1
      /\ \A e \in CU : e # c => count'[e] = count[e]
      /\ byte_counter' \in [CU -> 0 .. ByteRange - 1]
  BY <1>1, <1>2, LoopStep
<1>5. error' \in [CU -> {0, 1}]
  BY <1>1, <1>2 DEF KernelTypeOK, ErrorAfter
<1>6. KernelTypeOK'
  BY <1>1, <1>2, <1>4, <1>5 DEF KernelTypeOK
<1>7. KernelsCount'
  <2> SUFFICES ASSUME NEW e \in CU
               PROVE  count'[e] <= NumPkts /\ (state'[e] = "done" => count'[e] = NumPkts)
    BY DEF KernelsCount
  <2>1. CASE e = c
    BY <1>1, <1>2, <1>3, <1>4, <2>1, Ports, KernelTypes
  <2>2. CASE e # c
    BY <1>1, <1>4, <2>2 DEF SysInv, KernelsCount
  <2> QED
    BY <2>1, <2>2
<1>8. ChannelsInOrder'
  <2> SUFFICES ASSUME NEW e \in CU
               PROVE  Collects(e) => /\ Len(accepted[e]) = count'[Peer(e)]
                                     /\ count'[e] <= Len(delivered[e])
    BY <1>1 DEF SysInv, ChannelsInOrder, Numbered, IsPrefixOf, Collects, GenCol, Peer
  <2>1. ASSUME Collects(e) PROVE count'[Peer(e)] = count[Peer(e)]
    <3>1. Peer(e) \in CU /\ ~ Collects(Peer(e))
      BY <2>1, Peers
    <3>2. Peer(e) # c
      BY <1>3, <3>1
    <3> QED
      BY <1>4, <3>1, <3>2
  <2>2. ASSUME Collects(e) PROVE count'[e] <= Len(delivered[e])
    <3>1. CASE e = c
      <4>1. count[c] \in Nat /\ Len(delivered[c]) \in Nat
        BY <1>2, KernelTypes
      <4> QED
        BY <1>1, <1>4, <3>1, <4>1
    <3>2. CASE e # c
      BY <1>4, <2>2, <3>2 DEF SysInv, ChannelsInOrder
    <3> QED
      BY <3>1, <3>2
  <2> QED
    BY <2>1, <2>2 DEF SysInv, ChannelsInOrder
<1>9. UNCHANGED <<aligned, flaps>> /\ flaps' \in 0 .. MaxFlaps
  BY DEF linkVars, SysInv, HostTypeOK
<1>10. \A e \in CU : state[e] = "idle" => count'[e] = count[e]
  BY <1>1, <1>4
<1> QED
  BY <1>1, <1>6, <1>7, <1>8, <1>9, <1>10, KernelSide

LEMMA OutputStep ==
    ASSUME SysInv, NEW c \in CU, WriteOutputs(c), UNCHANGED <<hostVars, linkVars>> PROVE SysInv'
<1>1. /\ state[c] = "busy" /\ count[c] = args[c].packets_num
      /\ error_o' = [error_o EXCEPT ![c] = error[c]]
      /\ state' = [state EXCEPT ![c] = "done"]
      /\ UNCHANGED <<args, count, byte_counter, error, accepted, delivered>>
  BY DEF WriteOutputs, channelVars
<1>2. KernelTypeOK
  BY DEF SysInv, HostTypeOK
<1>3. count[c] = NumPkts
  BY <1>1, BusyStarted
<1>4. KernelTypeOK'
  BY <1>1, <1>2 DEF KernelTypeOK
<1>5. /\ state'[c] = "done" /\ \A e \in CU : e # c => state'[e] = state[e]
  BY <1>1, <1>2 DEF KernelTypeOK
<1>6. KernelsCount'
  BY <1>1, <1>3, <1>5 DEF SysInv, KernelsCount
<1>7. ChannelsInOrder'
  BY <1>1 DEF SysInv, ChannelsInOrder, Numbered, IsPrefixOf, Collects, GenCol, Peer
<1>8. UNCHANGED <<aligned, flaps>> /\ flaps' \in 0 .. MaxFlaps
  BY DEF linkVars, SysInv, HostTypeOK
<1>9. \A e \in CU : (state'[e] = "idle" <=> state[e] = "idle")
                     /\ (state[e] = "done" => state'[e] = "done")
  BY <1>1, <1>5
<1> QED
  BY <1>1, <1>4, <1>6, <1>7, <1>8, <1>9, KernelSide

\* HiveNet hands over the next packet.
LEMMA DeliverStep ==
    ASSUME SysInv, NEW c \in CU, HiveNet(c) PROVE SysInv'
<1> DEFINE pkt == accepted[c][Len(delivered[c]) + 1]
<1>1. /\ Len(delivered[c]) < Len(accepted[c])
      /\ delivered' = [delivered EXCEPT ![c] = Append(delivered[c], pkt)]
      /\ UNCHANGED <<state, args, count, byte_counter, error, error_o, accepted, hostVars, linkVars>>
  BY DEF HiveNet, DeliverNext, Channel!Deliver, kernelVars
<1>2. KernelTypeOK
  BY DEF SysInv, HostTypeOK
<1>3. /\ accepted[c] \in Seq(Packets) /\ delivered[c] \in Seq(Packets)
      /\ Len(accepted[c]) \in Nat /\ Len(delivered[c]) \in Nat
      /\ IsPrefixOf(delivered[c], accepted[c])
  BY <1>2, KernelTypes DEF SysInv, ChannelsInOrder
<1>4. pkt \in Packets
  BY <1>1, <1>2, <1>3, KernelTypes
<1>5. IsPrefixOf(Append(delivered[c], pkt), accepted[c])
  BY <1>1, <1>3, <1>4, PrefixGrows
<1> HIDE DEF pkt
<1>6. Append(delivered[c], pkt) \in Seq(Packets) /\ Len(Append(delivered[c], pkt)) = Len(delivered[c]) + 1
  BY <1>3, <1>4, AppendProperties
<1>7. /\ delivered' \in [CU -> Seq(Packets)]
      /\ delivered'[c] = Append(delivered[c], pkt)
      /\ \A e \in CU : e # c => delivered'[e] = delivered[e]
  BY <1>1, <1>2, <1>6 DEF KernelTypeOK
<1>8. KernelTypeOK'
  BY <1>1, <1>2, <1>7 DEF KernelTypeOK
<1>9. KernelsCount'
  BY <1>1 DEF SysInv, KernelsCount
<1>10. ChannelsInOrder'
  <2>1. \A e \in CU : /\ Collects(e) => count[e] <= Len(delivered'[e])
                      /\ IsPrefixOf(delivered'[e], accepted[e])
    <3> SUFFICES ASSUME NEW e \in CU
                 PROVE  /\ Collects(e) => count[e] <= Len(delivered'[e])
                        /\ IsPrefixOf(delivered'[e], accepted[e])
      OBVIOUS
    <3>0. (Collects(e) => count[e] <= Len(delivered[e])) /\ IsPrefixOf(delivered[e], accepted[e])
      BY DEF SysInv, ChannelsInOrder
    <3>1. CASE e = c
      <4>1. count[c] \in Nat
        BY <1>2, KernelTypes
      <4>2. IsPrefixOf(delivered'[c], accepted[c]) /\ Len(delivered'[c]) = Len(delivered[c]) + 1
        BY <1>5, <1>6, <1>7
      <4>3. Collects(c) => count[c] <= Len(delivered[c])
        BY <3>0, <3>1
      <4>4. Collects(c) => count[c] <= Len(delivered'[c])
        BY ONLY <1>3, <4>1, <4>2, <4>3
      <4> QED
        BY <3>1, <4>2, <4>4
    <3>2. CASE e # c
      <4>1. delivered'[e] = delivered[e]
        BY <1>7, <3>2
      <4> QED
        BY <3>0, <4>1
    <3> QED
      BY <3>1, <3>2
  <2>2. \A e \in CU : IsPrefixOf(delivered[e], accepted[e])' = IsPrefixOf(delivered'[e], accepted[e])
    BY <1>1 DEF IsPrefixOf
  <2>3. \A e \in CU : /\ Collects(e) => Len(accepted[e]) = count[Peer(e)]
                      /\ ~Collects(e) => accepted[e] = <<>>
                      /\ Numbered(accepted[e])
    BY DEF SysInv, ChannelsInOrder
  <2> QED
    BY <1>1, <2>1, <2>2, <2>3 DEF ChannelsInOrder, Numbered, IsPrefixOf, Collects, GenCol, Peer
<1>11. UNCHANGED <<aligned, flaps>> /\ flaps' \in 0 .. MaxFlaps
  BY <1>1 DEF linkVars, SysInv, HostTypeOK
<1> QED
  BY <1>1, <1>8, <1>9, <1>10, <1>11, KernelSide

-----------------------------------------------------------------------------
LEMMA LinkStep ==
    ASSUME SysInv, NEW c \in CU, LinkChange(c) PROVE SysInv'
<1>1. /\ UNCHANGED <<kernelVars, channelVars, hostVars>>
      /\ flaps' = flaps + 1 /\ flaps < MaxFlaps
      /\ aligned' = [aligned EXCEPT ![c] = ~ aligned[c]]
  BY DEF LinkChange
<1>2. HostTypes
  BY TypesUnpack DEF SysInv
<1>3. UNCHANGED <<phase, dev, port, localID, limit, fec, status, result>>
  BY <1>1 DEF hostVars
<1>4. HostTypes'
  <2>1. aligned' \in [CU -> BOOLEAN]
    BY <1>1, <1>2 DEF HostTypes
  <2>2. flaps' \in 0 .. MaxFlaps
    BY <1>1, <1>2, Ports DEF HostTypes
  <2> QED
    BY <1>2, <1>3, <2>1, <2>2 DEF HostTypes
<1>5. Loops' /\ EnginesSet'
  BY <1>3 DEF SysInv, Loops, EnginesSet, HasID, HasLimit, HasFec, Passed
<1>6. \A e \in CU : (Started(e)' <=> Started(e)) /\ (Waited(e)' => Waited(e))
  BY <1>3 DEF Started, Waited, Passed, Collects
<1> QED
  BY <1>1, <1>4, <1>5, <1>6, SetUpStep

LEMMA SysStepKeeps == SysInv /\ [SysNext]_sysVars => SysInv'
<1> SUFFICES ASSUME SysInv, [SysNext]_sysVars PROVE SysInv'
  OBVIOUS
<1>1. CASE Host
  <2>1. CASE SetUp /\ UNCHANGED <<kernelVars, channelVars, linkVars>>
    BY <2>1, InitDeviceStep, SetPortStep, TurnOnFecStep, ReadStatusStep, CountLinksStep,
       FinishStep, GetErrorsStep DEF SetUp
  <2>2. CASE RunCollectors /\ UNCHANGED linkVars
    BY <2>2, RunCollectorsStep
  <2>3. CASE RunGenerators /\ UNCHANGED linkVars
    BY <2>3, RunGeneratorsStep
  <2> QED
    BY <1>1, <2>1, <2>2, <2>3 DEF Host
<1>2. ASSUME NEW c \in CU, Kernel(c) PROVE SysInv'
  BY <1>2, SendStep, CollectStep, OutputStep DEF Kernel
<1>3. ASSUME NEW c \in CU, HiveNet(c) PROVE SysInv'
  BY <1>3, DeliverStep
<1>4. ASSUME NEW c \in CU, LinkChange(c) PROVE SysInv'
  BY <1>4, LinkStep
<1>5. CASE UNCHANGED sysVars
  <2>1. UNCHANGED <<kernelVars, channelVars>> /\ UNCHANGED hostVars /\ UNCHANGED linkVars
    BY <1>5 DEF sysVars
  <2>2. UNCHANGED <<phase, dev, port, localID, limit, fec, status, result, aligned, flaps>>
    BY <2>1 DEF hostVars, linkVars
  <2>3. HostTypes
    BY TypesUnpack DEF SysInv
  <2>4. HostTypes' /\ Loops' /\ EnginesSet'
    BY <2>2, <2>3 DEF HostTypes, SysInv, Loops, EnginesSet, HasID, HasLimit, HasFec, Passed
  <2>5. \A e \in CU : (Started(e)' <=> Started(e)) /\ (Waited(e)' => Waited(e))
    BY <2>2 DEF Started, Waited, Passed, Collects
  <2> QED
    BY <2>1, <2>4, <2>5, SetUpStep
<1> QED
  BY <1>1, <1>2, <1>3, <1>4, <1>5 DEF SysNext

LEMMA SysInvHolds == SysSpec => []SysInv
<1>1. SysInit => SysInv
  BY SysStarts
<1>2. SysInv /\ [SysNext]_sysVars => SysInv'
  BY SysStepKeeps
<1> QED
  BY <1>1, <1>2, PTL DEF SysSpec

\* Registers, counters and packets keep their ranges, and the loops of main stay
\* within the cards and ports there are.
THEOREM HostTyped == SysSpec => []HostTypeOK
<1>1. SysInv => HostTypeOK
  BY DEF SysInv
<1> QED
  BY <1>1, SysInvHolds, PTL

\* Before a generator sends, all engines are set up, its id is that of one engine
\* only, on the other card, and the kernel there expects what it will send.
THEOREM GeneratorsAreExpected == SysSpec => []ReadyToSend
<1>1. SysInv => ReadyToSend
  <2> SUFFICES ASSUME SysInv, NEW g \in CU, state[g] # "idle", args[g].gen_col = 1
               PROVE  /\ \A c \in CU : SetUpDone(c)
                      /\ \E c \in CU : Partner(g, c)
                      /\ \A c, d \in CU :
                            (localID[c] = args[g].id /\ localID[d] = args[g].id) => c = d
    BY DEF ReadyToSend
  <2>1. Started(g) /\ args[g] = MainArgs(g) /\ ~ Collects(g)
    BY BusyStarted
  <2>2. \A c \in CU : SetUpDone(c)
    BY <2>1, AllSetUp DEF SetUpDone
  <2>3. Peer(g) \in CU /\ Collects(Peer(g)) /\ Started(Peer(g)) /\ Peer(g)[1] # g[1]
    BY <2>1, Peers, AllSetUp
  <2>4. state[Peer(g)] # "idle" /\ args[Peer(g)] = MainArgs(Peer(g))
    BY <2>3 DEF SysInv, KernelsStarted
  <2>5. localID[Peer(g)] = args[g].id
    BY <2>1, <2>3, AllSetUp, Peers
  <2>6. MainArgs(Peer(g)) = [MainArgs(g) EXCEPT !.gen_col = 0]
    <3>1. MainArgs(g).id = IdOf(Peer(g)[1], Peer(g)[2]) /\ GenCol(Peer(g)[1]) = 0
      BY <2>1, <2>3, Peers
    <3>2. MainArgs(Peer(g)).id = MainArgs(g).id
      BY <2>3, <3>1 DEF MainArgs
    <3> QED
      BY <3>1, <3>2 DEF MainArgs
  <2>7. Partner(g, Peer(g))
    BY <2>1, <2>3, <2>4, <2>5, <2>6 DEF Partner
  <2>8. \A d \in CU : localID[d] = args[g].id => d = Peer(g)
    BY <2>1, OnePartner
  <2> QED
    BY <2>2, <2>3, <2>7, <2>8
<1> QED
  BY <1>1, SysInvHolds, PTL

\* When main prints that the test passed, every collector has got every packet of
\* its generator once and in order: the verdict is never given too early.
THEOREM PassIsTrue == SysSpec => []PassMeansDelivered
<1>1. SysInv => PassMeansDelivered
  <2> SUFFICES ASSUME SysInv, result = "pass", NEW c \in CU, GenCol(c[1]) = 0
               PROVE  /\ Len(delivered[c]) = NumPkts
                      /\ \A k \in 1 .. NumPkts : delivered[c][k].number = k - 1
    BY DEF PassMeansDelivered
  <2>1. Collects(c) /\ Waited(c)
    BY DEF Collects, SysInv, Loops, Waited, AfterFinish
  <2>2. state[c] = "done" /\ count[c] = NumPkts
    BY <2>1 DEF SysInv, KernelsStarted, KernelsCount
  <2>3. Peer(c) \in CU /\ count[Peer(c)] <= NumPkts
    BY Peers DEF SysInv, KernelsCount
  <2>4. /\ Len(accepted[c]) = count[Peer(c)] /\ count[c] <= Len(delivered[c])
        /\ Numbered(accepted[c]) /\ IsPrefixOf(delivered[c], accepted[c])
    BY <2>1 DEF SysInv, ChannelsInOrder
  <2>5. Len(delivered[c]) \in Nat /\ Len(accepted[c]) \in Nat
    BY KernelTypes DEF SysInv, HostTypeOK
  <2>6. Len(delivered[c]) = NumPkts /\ Len(accepted[c]) = NumPkts
    BY <2>2, <2>3, <2>4, <2>5, Ports DEF IsPrefixOf
  <2> QED
    BY <2>4, <2>6 DEF IsPrefixOf, Numbered
<1> QED
  BY <1>1, SysInvHolds, PTL
=============================================================================
