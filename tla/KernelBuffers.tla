--------------------------- MODULE KernelBuffers ---------------------------
(***************************************************************************)
(* A KERNEL handle of the host driver: the map m_bos from argument to      *)
(* buffer object, the run object with its bound arguments, and the kernel, *)
(* which runs beside the host.  A buffer has a host side, which the        *)
(* program writes through its pointer, and a device side, which the kernel *)
(* uses; a sync copies one over the other.                                 *)
(*                                                                         *)
(* Buffers are numbered as they are created; 0 is none.  A content is a    *)
(* sequence: <<>> as allocated, <<"in", k>> the program's k-th filling,    *)
(* <<"out", r>> the output of run r.                                       *)
(***************************************************************************)
EXTENDS Naturals, Sequences

CONSTANTS
    Arg,         \* the memory arguments of the kernel
    In, Out,     \* those it reads, and those it writes
    MaxBO,       \* bound: buffers created
    MaxFill,     \* bound: fillings
    MaxRun       \* bound: runs

ASSUME BuffersAssumption ==
    /\ In \cup Out \subseteq Arg
    /\ {MaxBO, MaxFill, MaxRun} \subseteq Nat

VARIABLES
    bos,      \* m_bos: the buffer of every argument
    buffer,   \* the buffers: both contents, and whose memory the host side is
    pointer,  \* the buffer whose host side the program's pointer is in
    bound,    \* the arguments of m_run for the next start
    active,   \* the arguments of the run under way or finished
    kernel,   \* state of the run, its number, the outputs written so far
    fills,    \* fillings made
    last,     \* the last call of the program and how it ended
    stage,    \* history: how far an argument's filling has come in the order
              \* filled, sent, bound; the filling it is about
    resent    \* history: the buffers sent since the last run began

bufferVars == <<bos, buffer, pointer, bound, active, kernel, fills, last, stage, resent>>

None == [a \in Arg |-> 0]
InMap(a) == bos[a] # 0
NotStarted == [state |-> "new", run |-> 0, written |-> {}]
NoStage == [at |-> "none", filling |-> 0]

\* How a call ended; which call it was is kept for run and getBO only.
Ended(result) == last' = [call |-> "other", arg |-> "none", result |-> result]
Returned(name, a) == last' = [call |-> name, arg |-> a, result |-> "ok"]

\* The program goes on until a call on a missing buffer crashes it.
Alive == last.result # "crash"

-----------------------------------------------------------------------------
(* Creation.                                                               *)

\* Mutant: an index counted from one past the end.
InsertedNext(a, b) == [bos EXCEPT ![a] = b + 1]

\* map::insert: an argument that is in the map keeps the buffer it has.
Inserted(a, b) == [bos EXCEPT ![a] = IF @ = 0 THEN b ELSE @]

Create(a, content, ownMemory) ==
    /\ Alive
    /\ Len(buffer) < MaxBO
    /\ buffer' = Append(buffer, [host |-> content, device |-> <<>>, own |-> ownMemory])
    /\ bos' = Inserted(a, Len(buffer) + 1)
    /\ pointer' = [pointer EXCEPT ![a] = Len(buffer) + 1]
    /\ Ended("ok")

\* createBO: the pointer returned is that of the new buffer, in the map or not.
createBO(a) ==
    /\ Create(a, <<>>, FALSE)
    /\ stage' = [stage EXCEPT ![a] = NoStage]
    /\ UNCHANGED <<bound, active, kernel, fills, resent>>

\* createBOfromHostPtr: around memory the program has filled.
createBOfromHostPtr(a) ==
    /\ fills < MaxFill
    /\ Create(a, <<"in", fills + 1>>, TRUE)
    /\ fills' = fills + 1
    /\ stage' = [stage EXCEPT ![a] = IF InMap(a) THEN NoStage
                                     ELSE [at |-> "filled", filling |-> fills + 1]]
    /\ UNCHANGED <<bound, active, kernel, resent>>

\* createKernel: a new run object; the map is left as it is.
createKernel ==
    /\ Alive
    /\ kernel.state # "running"
    /\ bound' = None
    /\ active' = None
    /\ kernel' = [NotStarted EXCEPT !.run = kernel.run]
    /\ stage' = [a \in Arg |-> IF stage[a].at = "bound" THEN [stage[a] EXCEPT !.at = "sent"]
                               ELSE stage[a]]
    /\ Ended("ok")
    /\ UNCHANGED <<bos, buffer, pointer, fills, resent>>

\* A buffer exists while the map or a run refers to it.
Exists(b) == \E a \in Arg : b \in {bos[a], bound[a], active[a]}

\* The program fills a buffer through its pointer.
Fill(a) ==
    /\ Alive
    /\ pointer[a] # 0
    /\ fills < MaxFill
    /\ IF buffer[pointer[a]].own \/ Exists(pointer[a])
       THEN /\ buffer' = [buffer EXCEPT ![pointer[a]].host = <<"in", fills + 1>>]
            /\ Ended("ok")
       ELSE /\ Ended("crash")
            /\ UNCHANGED buffer
    /\ fills' = fills + 1
    /\ stage' = [stage EXCEPT ![a] = IF pointer[a] = bos[a]
                                     THEN [at |-> "filled", filling |-> fills + 1]
                                     ELSE NoStage]
    /\ UNCHANGED <<bos, pointer, bound, active, kernel, resent>>

-----------------------------------------------------------------------------
(* Transfers and arguments.                                                *)

\* Mutant: the sync goes the wrong way.
ToDeviceReversed(b) == [buffer EXCEPT ![b].host = buffer[b].device]

\* XCL_BO_SYNC_BO_TO_DEVICE
ToDevice(b) == [buffer EXCEPT ![b].device = buffer[b].host]

\* XCL_BO_SYNC_BO_FROM_DEVICE
FromDevice(b) == [buffer EXCEPT ![b].host = buffer[b].device]

\* sendBO: no look whether the argument is in the map.
sendBO(a) ==
    /\ Alive
    /\ IF InMap(a)
       THEN /\ buffer' = ToDevice(bos[a])
            /\ Ended("ok")
            /\ stage' = [stage EXCEPT ![a].at =
                            IF @ = "filled" THEN "sent" ELSE @]
            /\ resent' = resent \cup {bos[a]}
       ELSE /\ Ended("crash")
            /\ UNCHANGED <<buffer, stage, resent>>
    /\ UNCHANGED <<bos, pointer, bound, active, kernel, fills>>

\* setMemArg(arg), and setMemArg(arg1, arg2) with one buffer for both.
setMemArg(a, args) ==
    /\ Alive
    /\ IF InMap(a)
       THEN /\ bound' = [x \in Arg |-> IF x \in args THEN bos[a] ELSE bound[x]]
            /\ Ended("ok")
            /\ stage' = [x \in Arg |->
                            IF x = a /\ stage[a].at = "sent" THEN [stage[a] EXCEPT !.at = "bound"]
                            ELSE IF x \in args \ {a} THEN NoStage ELSE stage[x]]
       ELSE /\ Ended("thrown")
            /\ UNCHANGED <<bound, stage>>
    /\ UNCHANGED <<bos, buffer, pointer, active, kernel, fills, resent>>

\* clearBOMap
clearBOMap ==
    /\ Alive
    /\ bos' = None
    /\ Ended("ok")
    /\ stage' = [a \in Arg |-> NoStage]
    /\ UNCHANGED <<buffer, pointer, bound, active, kernel, fills, resent>>

-----------------------------------------------------------------------------
(* Runs.                                                                   *)

\* run: start with the arguments bound so far; refused while one is under way.
run ==
    /\ Alive
    /\ kernel.run < MaxRun
    /\ IF kernel.state = "running"
       THEN /\ Ended("thrown")
            /\ UNCHANGED <<active, kernel, resent>>
       ELSE /\ active' = bound
            /\ kernel' = [state |-> "running", run |-> kernel.run + 1, written |-> {}]
            /\ resent' = {}
            /\ Returned("run", "none")
    /\ UNCHANGED <<bos, buffer, pointer, bound, fills, stage>>

\* The kernel writes one output, after it has used its inputs; an input in the
\* same buffer is gone.
KernelWrite(a) ==
    /\ kernel.state = "running"
    /\ a \in Out \ kernel.written
    /\ kernel' = [kernel EXCEPT !.written = @ \cup {a}]
    /\ buffer' = IF active[a] = 0 THEN buffer
                 ELSE [buffer EXCEPT ![active[a]].device = <<"out", kernel.run>>]
    /\ stage' = [x \in Arg |->
                    IF stage[x].at # "filled" /\ bos[x] = active[a] THEN NoStage ELSE stage[x]]
    /\ UNCHANGED <<bos, pointer, bound, active, fills, last, resent>>

KernelDone ==
    /\ kernel.state = "running"
    /\ kernel.written = Out
    /\ kernel' = [kernel EXCEPT !.state = "done"]
    /\ UNCHANGED <<bos, buffer, pointer, bound, active, fills, last, stage, resent>>

\* Mutant: getBO does not wait for the run.
WaitedNot == TRUE

\* m_run.wait() returns when no run is under way.
Waited == kernel.state # "running"

\* wait() aside: copy the buffer of the argument, or throw.
Fetch(name, a) ==
    /\ Alive
    /\ IF InMap(a)
       THEN buffer' = FromDevice(bos[a]) /\ Returned(name, a)
       ELSE Ended("thrown") /\ UNCHANGED buffer
    /\ stage' = [stage EXCEPT ![a] = NoStage]
    /\ UNCHANGED <<bos, pointer, bound, active, kernel, fills, resent>>

\* getBO waits first, syncBO does not.
getBO(a) == Waited /\ Fetch("getBO", a)
syncBO(a) == Fetch("other", a)

\* wait
wait ==
    /\ Alive
    /\ Waited
    /\ Ended("ok")
    /\ UNCHANGED <<bos, buffer, pointer, bound, active, kernel, fills, stage, resent>>

-----------------------------------------------------------------------------
BuffersInit ==
    /\ bos = None /\ pointer = None /\ bound = None /\ active = None
    /\ buffer = <<>>
    /\ kernel = NotStarted
    /\ fills = 0
    /\ last = [call |-> "none", arg |-> "none", result |-> "ok"]
    /\ stage = [a \in Arg |-> NoStage]
    /\ resent = {}

Program ==
    \/ createKernel \/ clearBOMap \/ run \/ wait
    \/ \E a \in In : createBOfromHostPtr(a) \/ Fill(a)
    \/ \E a \in Arg :
          \/ createBO(a) \/ sendBO(a) \/ getBO(a) \/ syncBO(a)
          \/ \E b \in Arg : setMemArg(a, {a, b})

Kernel == KernelDone \/ \E a \in Arg : KernelWrite(a)
BuffersNext == Program \/ Kernel
BuffersSpec == BuffersInit /\ [][BuffersNext]_bufferVars

-----------------------------------------------------------------------------
(* Properties.                                                             *)

\* Buffers named anywhere were created.
BuffersTypeOK ==
    /\ \A f \in {bos, pointer, bound, active} : f \in [Arg -> 0..Len(buffer)]
    /\ kernel.state \in {"new", "running", "done"}
    /\ kernel.written \subseteq Out
    /\ fills \in 0..MaxFill

\* When getBO returns for an output whose buffer the last run was started with,
\* and which the program has not sent to the device since, the program reads the
\* whole output of that run; syncBO does not promise this.
ResultComplete ==
    /\ last.call = "getBO" /\ last.result = "ok"
    /\ last.arg \in Out
    /\ active[last.arg] # 0 /\ active[last.arg] = bos[last.arg]
    /\ bos[last.arg] \notin resent
    => /\ kernel.state = "done"
       /\ buffer[bos[last.arg]].host = <<"out", kernel.run>>

\* When a run starts, an input the program has filled, sent and set in this order
\* has that filling on the device, whatever happened to other arguments, to the
\* map or to earlier runs in between.
InputsArrive ==
    last.call = "run" /\ last.result = "ok" /\ kernel.written = {} =>
        \A a \in Arg : stage[a].at = "bound" =>
            buffer[active[a]].device = <<"in", stage[a].filling>>
=============================================================================
