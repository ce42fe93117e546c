----------------------------- MODULE GenColHost -----------------------------
(***************************************************************************)
(* The host program of the example: two cards, on each of them NumPorts    *)
(* engines with a kernel.  It sets up the engines, waits for the links,    *)
(* starts the collectors on one card and the generators on the other,      *)
(* waits for all of them and reads the collectors' error registers.  It is *)
(* one thread; the kernels, the channel and the links go on beside it.     *)
(***************************************************************************)
EXTENDS GenColKernel

CONSTANTS
    NumPorts,   \* ports of a card                (2)
    Sender,     \* card of the generators         (option -s)
    NumPkts,    \* packets of each generator      (option -c)
    MaxFlaps    \* bound: times a link comes up or goes down

ASSUME HostAssumption ==
    /\ NumPorts \in Nat \ {0}
    /\ CU = {0, 1} \X (0 .. NumPorts - 1)
    /\ Sender \in {0, 1}
    /\ {NumPkts, MaxFlaps} \subseteq Nat

VARIABLES
    phase,     \* which loop of main
    dev, port, \* where in the loop
    localID,   \* register of an engine, 0 after loading
    limit,     \* register of an engine: retransmissions
    fec,       \* register of a CMAC: RS-FEC
    aligned,   \* the link of a port is aligned
    flaps,
    status,    \* l_linkStatus: what linkStatus returned for a port
    result     \* none, pass or fail

hostVars == <<phase, dev, port, localID, limit, fec, status, result>>

linkVars == <<aligned, flaps>>

sysVars == <<kernelVars, channelVars, hostVars, linkVars>>

HostInit ==
    /\ phase = "init"
    /\ dev = 0
    /\ port = 0
    /\ localID = [c \in CU |-> 0]
    /\ limit = [c \in CU |-> 0]
    /\ fec = [c \in CU |-> 0]
    /\ aligned = [c \in CU |-> FALSE]
    /\ flaps = 0
    /\ status = [c \in CU |-> <<>>]
    /\ result = "none"

SysInit == KernelsIdle /\ HostInit

-----------------------------------------------------------------------------
Here == <<dev, port>>

\* The next port of the two nested loops, then the next part of main.
Advance(next) ==
    \/ /\ port < NumPorts - 1
       /\ port' = port + 1
       /\ UNCHANGED <<phase, dev>>
    \/ /\ port = NumPorts - 1
       /\ dev = 0
       /\ port' = 0
       /\ dev' = 1
       /\ UNCHANGED phase
    \/ /\ port = NumPorts - 1
       /\ dev = 1
       /\ port' = 0
       /\ dev' = 0
       /\ phase' = next

\* NetLayer::init for the ports of one card; initCU sets the limit.
InitDevice ==
    /\ phase = "init"
    /\ limit' = [c \in CU |-> IF c[1] = dev THEN 3 ELSE limit[c]]
    /\ phase' = "set"
    /\ UNCHANGED <<dev, port, localID, fec, status, result>>

IdOf(i, j) == (i * NumPorts) + j

\* Subnets and ID; then the next card is initialised.
SetPort ==
    /\ phase = "set"
    /\ localID' = [localID EXCEPT ![Here] = IdOf(dev, port)]
    /\ IF port < NumPorts - 1
       THEN port' = port + 1 /\ UNCHANGED <<phase, dev>>
       ELSE /\ port' = 0
            /\ dev' = 1 - dev
            /\ phase' = IF dev = 0 THEN "init" ELSE "fec"
    /\ UNCHANGED <<limit, fec, status, result>>

TurnOnFec ==
    /\ phase = "fec"
    /\ fec' = [fec EXCEPT ![Here] = 3]
    /\ Advance("links")
    /\ UNCHANGED <<localID, limit, status, result>>

\* KernelCMAC::linkStatus: a map with an entry for every status bit.
linkStatus(c) == [rx_aligned |-> aligned[c]]

\* linksUp reads the status of one port after the other ...
ReadStatus ==
    /\ phase = "links"
    /\ status' = [status EXCEPT ![Here] = linkStatus(Here)]
    /\ IF port < NumPorts - 1
       THEN port' = port + 1 /\ UNCHANGED phase
       ELSE port' = 0 /\ phase' = "count"
    /\ UNCHANGED <<dev, localID, limit, fec, result>>

\* ... and counts the maps that have the key.
linksUp == \A j \in 0 .. NumPorts - 1 : "rx_aligned" \in DOMAIN status[<<dev, j>>]

\* Card by card, again and again until its links are up.
CountLinks ==
    /\ phase = "count"
    /\ phase' = IF linksUp /\ dev = 1 THEN "collect" ELSE "links"
    /\ dev' = IF linksUp THEN 1 - dev ELSE dev
    /\ UNCHANGED <<port, localID, limit, fec, status, result>>

GenCol(i) == IF i = Sender THEN 1 ELSE 0

\* Mutant: the generators are given the ids of their own card.
IdOfOwn(i, j) == IdOf(i, j)

IdOfPeer(i, j) == IdOf(1 - i, j)

RunCollectors ==
    /\ phase = "collect"
    /\ IF GenCol(dev) = 0
       THEN StartKernel(Here, [gen_col |-> 0, id |-> IdOf(dev, port),
                               packets_num |-> NumPkts])
       ELSE UNCHANGED <<kernelVars, channelVars>>
    /\ Advance("generate")
    /\ UNCHANGED <<localID, limit, fec, status, result>>

RunGenerators ==
    /\ phase = "generate"
    /\ IF GenCol(dev) = 1
       THEN StartKernel(Here, [gen_col |-> 1, id |-> IdOfPeer(dev, port),
                               packets_num |-> NumPkts])
       ELSE UNCHANGED <<kernelVars, channelVars>>
    /\ Advance("finish")
    /\ UNCHANGED <<localID, limit, fec, status, result>>

\* Mutant: nobody waits.
NoWait(c) == TRUE

KernelDone(c) == state[c] = "done"

Finish ==
    /\ phase = "finish"
    /\ KernelDone(Here)
    /\ Advance("errors")
    /\ UNCHANGED <<localID, limit, fec, status, result>>

ErrorSeen == \E c \in CU : GenCol(c[1]) = 0 /\ error_o[c] # 0

GetErrors ==
    /\ phase = "errors"
    /\ result' = IF ErrorSeen THEN "fail" ELSE "pass"
    /\ phase' = "end"
    /\ UNCHANGED <<dev, port, localID, limit, fec, status>>

-----------------------------------------------------------------------------
\* Steps of main that touch the registers only.
SetUp ==
    \/ InitDevice
    \/ SetPort
    \/ TurnOnFec
    \/ ReadStatus
    \/ CountLinks
    \/ Finish
    \/ GetErrors

Host ==
    /\ \/ SetUp /\ UNCHANGED <<kernelVars, channelVars>>
       \/ RunCollectors
       \/ RunGenerators
    /\ UNCHANGED linkVars

LinkChange(c) ==
    /\ flaps < MaxFlaps
    /\ flaps' = flaps + 1
    /\ aligned' = [aligned EXCEPT ![c] = ~ @]
    /\ UNCHANGED <<kernelVars, channelVars, hostVars>>

\* A packet goes to the engine that has the id.
Send(c) == \E d \in CU : localID[d] = args[c].id /\ Generate(c, d)

Kernel(c) ==
    /\ Send(c) \/ Collect(c) \/ WriteOutputs(c)
    /\ UNCHANGED <<hostVars, linkVars>>

HiveNet(c) == DeliverNext(c) /\ UNCHANGED <<hostVars, linkVars>>

SysNext ==
    \/ Host
    \/ \E c \in CU : Kernel(c) \/ HiveNet(c) \/ LinkChange(c)

SysSpec == SysInit /\ [][SysNext]_sysVars

\* The thread goes on, and while a kernel can go on or HiveNet has a packet to
\* deliver one of them does.
SysFairSpec ==
    /\ SysSpec
    /\ WF_sysVars(Host)
    /\ WF_sysVars(\E c \in CU : Kernel(c) \/ HiveNet(c))

-----------------------------------------------------------------------------
Registers == [CU -> Nat]

HostTypeOK ==
    /\ KernelTypeOK
    /\ phase \in {"init", "set", "fec", "links", "count", "collect", "generate",
                  "finish", "errors", "end"}
    /\ Here \in CU
    /\ {localID, limit, fec} \subseteq Registers
    /\ aligned \in [CU -> BOOLEAN]
    /\ flaps \in 0 .. MaxFlaps
    /\ \A c \in CU : status[c] \in {<<>>} \cup [{"rx_aligned"} -> BOOLEAN]
    /\ result \in {"none", "pass", "fail"}

\* An engine that is set up: HiveFlow's claims need a limit of at least one.
SetUpDone(c) == limit[c] >= 1 /\ fec[c] = 3

Partner(g, c) ==
    /\ localID[c] = args[g].id
    /\ c[1] # g[1]
    /\ state[c] # "idle"
    /\ args[c] = [args[g] EXCEPT !.gen_col = 0]

\* Before a generator sends, every engine is set up, and the id it sends to is
\* that of one engine only, on the other card, whose kernel is a collector that
\* expects that id and as many packets.
ReadyToSend ==
    \A g \in CU : (state[g] # "idle" /\ args[g].gen_col = 1) =>
        /\ \A c \in CU : SetUpDone(c)
        /\ \E c \in CU : Partner(g, c)
        /\ \A c, d \in CU : (localID[c] = args[g].id /\ localID[d] = args[g].id) => c = d

\* "Test pass!" is printed only if every collector has read all its packets,
\* each in its place.
PassMeansDelivered ==
    result = "pass" =>
        \A c \in CU : GenCol(c[1]) = 0 =>
            /\ Len(delivered[c]) = NumPkts
            /\ \A k \in 1 .. NumPkts : delivered[c][k].number = k - 1

\* Over a reliable channel the program comes to its end, and the test passes.
EventuallyPasses == <>(result = "pass")

\* README.md of the example: the host "Configures CMACs by enabling RS-FEC and
\* waiting for link to be up from the switch side": it leaves a card only when
\* all its ports were aligned at the last reading.
WaitsForLinks ==
    [][(phase = "count" /\ dev' # dev) =>
          \A j \in 0 .. NumPorts - 1 : status[<<dev, j>>].rx_aligned]_sysVars
=============================================================================
