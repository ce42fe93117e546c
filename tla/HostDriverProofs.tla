-------------------------- MODULE HostDriverProofs --------------------------
(***************************************************************************)
(* The host driver.  First what a KERNEL handle promises for any number of *)
(* arguments, buffers and runs: inputs filled, sent and set reach the run  *)
(* (InputsArrive), and getBO brings back the whole output                  *)
(* (ResultComplete).  Then the registers of an engine for any sizes of a   *)
(* byte, of an id and of the settings: what a register holds, what the     *)
(* engine can see of a setting made by two writes, and that host and       *)
(* engine compute the same addresses.  At the end the driver as a whole.   *)
(***************************************************************************)
EXTENDS HostDriver, PsnArithProofs, SequenceTheorems, TLAPS

\* The program's k-th filling, and the output of run r.
Filling(k) == <<"in", k>>
Output(r) == <<"out", r>>

Content == {<<>>} \cup ({"in", "out"} \X Nat)

BufferObject == [host : Content, device : Content, own : BOOLEAN]

Stage == [at : {"none", "filled", "sent", "bound"}, filling : Nat]

BufferTypes ==
    /\ buffer \in Seq(BufferObject)
    /\ bos \in [Arg -> 0 .. Len(buffer)]
    /\ pointer \in [Arg -> 0 .. Len(buffer)]
    /\ bound \in [Arg -> 0 .. Len(buffer)]
    /\ active \in [Arg -> 0 .. Len(buffer)]
    /\ kernel \in [state : {"new", "running", "done"}, run : Nat, written : SUBSET Out]
    /\ fills \in 0 .. MaxFill
    /\ stage \in [Arg -> Stage]

\* The buffers of two arguments, in the map or behind a pointer, are not shared.
BuffersApart ==
    \A a, b \in Arg : a # b =>
        /\ bos[a] # 0 => bos[a] # bos[b] /\ bos[a] # pointer[b]
        /\ pointer[a] # 0 => pointer[a] # bos[b]

\* How far a filling has come, and where it is.
FillingThere ==
    \A a \in Arg : stage[a].at # "none" =>
        /\ bos[a] # 0
        /\ buffer[bos[a]].host = Filling(stage[a].filling)
        /\ stage[a].at # "filled" => buffer[bos[a]].device = Filling(stage[a].filling)
        /\ stage[a].at = "bound" => bound[a] = bos[a]

\* A run that has just begun has the arguments bound for it.
JustBegun ==
    (last.call = "run" /\ last.result = "ok" /\ kernel.written = {}) => active = bound

\* What the kernel has written is on the device until it is sent over.
OutputThere ==
    /\ kernel.state = "done" => kernel.written = Out
    /\ kernel.state = "new" => active = None
    /\ \A a \in kernel.written :
          (active[a] # 0 /\ active[a] \notin resent) => buffer[active[a]].device = Output(kernel.run)

LEMMA OutIn == Out \subseteq Arg /\ In \subseteq Arg /\ MaxFill \in Nat /\ MaxBO \in Nat
  BY BuffersAssumption

LEMMA ContentTypes ==
    /\ <<>> \in Content
    /\ \A k \in Nat : Filling(k) \in Content /\ Output(k) \in Content
  BY DEF Content, Filling, Output

LEMMA TypesInit == BuffersInit => BufferTypes
<1> SUFFICES ASSUME BuffersInit PROVE BufferTypes
  OBVIOUS
<1>1. buffer = <<>> /\ Len(buffer) = 0 /\ buffer \in Seq(BufferObject)
  BY DEF BuffersInit
<1>2. None \in [Arg -> 0 .. Len(buffer)]
  BY <1>1 DEF None
<1>3. stage \in [Arg -> Stage]
  BY DEF BuffersInit, NoStage, Stage
<1> QED
  BY <1>1, <1>2, <1>3, OutIn DEF BuffersInit, BufferTypes, NotStarted

\* A new buffer.
LEMMA CreateTypes ==
    ASSUME BufferTypes, NEW a \in Arg, NEW c \in Content, NEW own \in BOOLEAN,
           Create(a, c, own)
    PROVE  /\ buffer' \in Seq(BufferObject) /\ Len(buffer') = Len(buffer) + 1
           /\ Len(buffer) \in Nat
           /\ \A b \in 1 .. Len(buffer) : buffer'[b] = buffer[b]
           /\ buffer'[Len(buffer) + 1].host = c
           /\ bos' = [bos EXCEPT ![a] = IF bos[a] = 0 THEN Len(buffer) + 1 ELSE bos[a]]
           /\ pointer' = [pointer EXCEPT ![a] = Len(buffer) + 1]
           /\ bos' \in [Arg -> 0 .. Len(buffer')]
           /\ pointer' \in [Arg -> 0 .. Len(buffer')]
           /\ \A f \in [Arg -> 0 .. Len(buffer)] : f \in [Arg -> 0 .. Len(buffer')]
           /\ last'.call = "other"
<1> DEFINE new == [host |-> c, device |-> <<>>, own |-> own]
<1>1. new \in BufferObject
  BY ContentTypes DEF BufferObject
<1>2. buffer \in Seq(BufferObject) /\ buffer' = Append(buffer, new) /\ Len(buffer) \in Nat
  BY LenProperties DEF BufferTypes, Create
<1>h. new.host = c
  OBVIOUS
<1> HIDE DEF new
<1>3. /\ buffer' \in Seq(BufferObject) /\ Len(buffer') = Len(buffer) + 1
      /\ \A b \in 1 .. Len(buffer) : buffer'[b] = buffer[b]
      /\ buffer'[Len(buffer) + 1] = new
  BY <1>1, <1>2, AppendProperties
<1>4. /\ bos' = [bos EXCEPT ![a] = IF bos[a] = 0 THEN Len(buffer) + 1 ELSE bos[a]]
      /\ pointer' = [pointer EXCEPT ![a] = Len(buffer) + 1]
  BY DEF Create, Inserted
<1>5. \A f \in [Arg -> 0 .. Len(buffer)] : f \in [Arg -> 0 .. Len(buffer')]
  BY <1>2, <1>3
<1>6. bos' \in [Arg -> 0 .. Len(buffer')] /\ pointer' \in [Arg -> 0 .. Len(buffer')]
  BY <1>2, <1>3, <1>4 DEF BufferTypes
<1> QED
  BY <1>h, <1>2, <1>3, <1>4, <1>5, <1>6 DEF Create, Ended

\* One side of a buffer is overwritten.
SetDevice(b, c) == [buffer EXCEPT ![b].device = c]
SetHost(b, c) == [buffer EXCEPT ![b].host = c]

LEMMA SyncTypes ==
    ASSUME BufferTypes, NEW b \in 1 .. Len(buffer), NEW c \in Content
    PROVE  /\ SetDevice(b, c) \in Seq(BufferObject) /\ Len(SetDevice(b, c)) = Len(buffer)
           /\ SetHost(b, c) \in Seq(BufferObject) /\ Len(SetHost(b, c)) = Len(buffer)
           /\ \A d \in 1 .. Len(buffer) :
                 d # b => SetDevice(b, c)[d] = buffer[d] /\ SetHost(b, c)[d] = buffer[d]
           /\ SetDevice(b, c)[b].device = c /\ SetDevice(b, c)[b].host = buffer[b].host
           /\ SetHost(b, c)[b].host = c /\ SetHost(b, c)[b].device = buffer[b].device
<1>1. buffer \in Seq(BufferObject) /\ buffer[b] \in BufferObject
  BY ElementOfSeq DEF BufferTypes
<1>2. /\ [buffer[b] EXCEPT !.device = c] \in BufferObject
      /\ [buffer[b] EXCEPT !.host = c] \in BufferObject
      /\ [buffer[b] EXCEPT !.device = c].device = c
      /\ [buffer[b] EXCEPT !.device = c].host = buffer[b].host
      /\ [buffer[b] EXCEPT !.host = c].host = c
      /\ [buffer[b] EXCEPT !.host = c].device = buffer[b].device
  BY <1>1 DEF BufferObject
<1>3. ASSUME NEW x \in BufferObject
      PROVE  /\ [buffer EXCEPT ![b] = x] \in Seq(BufferObject)
             /\ Len([buffer EXCEPT ![b] = x]) = Len(buffer)
             /\ \A d \in 1 .. Len(buffer) : d # b => [buffer EXCEPT ![b] = x][d] = buffer[d]
             /\ [buffer EXCEPT ![b] = x][b] = x
  BY <1>1, ExceptSeq
<1>4. /\ SetDevice(b, c) = [buffer EXCEPT ![b] = [buffer[b] EXCEPT !.device = c]]
      /\ SetHost(b, c) = [buffer EXCEPT ![b] = [buffer[b] EXCEPT !.host = c]]
  BY DEF SetDevice, SetHost
<1> QED
  BY <1>2, <1>3, <1>4

\* The buffer of an argument that is in the map.
LEMMA MapTypes ==
    ASSUME BufferTypes
    PROVE  /\ Len(buffer) \in Nat
           /\ \A a \in Arg : /\ bos[a] \in 0 .. Len(buffer)
                             /\ bos[a] # 0 => bos[a] \in 1 .. Len(buffer)
                             /\ pointer[a] # 0 => pointer[a] \in 1 .. Len(buffer)
                             /\ active[a] # 0 => active[a] \in 1 .. Len(buffer)
           /\ \A b \in 1 .. Len(buffer) :
                 buffer[b].host \in Content /\ buffer[b].device \in Content
<1>1. Len(buffer) \in Nat
  BY LenProperties DEF BufferTypes
<1>2. \A b \in 1 .. Len(buffer) : buffer[b] \in BufferObject
  BY ElementOfSeq DEF BufferTypes
<1> QED
  BY <1>1, <1>2 DEF BufferTypes, BufferObject

LEMMA TypesStep == BufferTypes /\ [BuffersNext]_bufferVars => BufferTypes'
<1> SUFFICES ASSUME BufferTypes, [BuffersNext]_bufferVars PROVE BufferTypes'
  OBVIOUS
<1>m. MaxFill \in Nat /\ fills \in Nat /\ NoStage \in Stage
  BY OutIn DEF BufferTypes, NoStage, Stage
<1>n. None \in [Arg -> 0 .. Len(buffer)] /\ stage \in [Arg -> Stage]
  BY MapTypes DEF None, BufferTypes
<1>1. ASSUME NEW a \in Arg, createBO(a) PROVE BufferTypes'
  <2>1. stage' \in [Arg -> Stage]
    BY <1>1, <1>m DEF createBO, BufferTypes
  <2> QED
    BY <1>1, <2>1, CreateTypes, ContentTypes DEF createBO, BufferTypes
<1>2. ASSUME NEW a \in In, createBOfromHostPtr(a) PROVE BufferTypes'
  <2>1. Filling(fills + 1) \in Content /\ a \in Arg /\ fills + 1 \in Nat
    BY <1>m, ContentTypes, OutIn
  <2>2. Create(a, Filling(fills + 1), TRUE)
    BY <1>2 DEF createBOfromHostPtr, Filling
  <2>3. fills' \in 0 .. MaxFill
    BY <1>2, <1>m DEF createBOfromHostPtr
  <2>4. stage' \in [Arg -> Stage]
    BY <1>2, <1>m, <1>n, <2>1 DEF createBOfromHostPtr, Stage
  <2> QED
    BY <1>2, <2>1, <2>2, <2>3, <2>4, CreateTypes DEF createBOfromHostPtr, BufferTypes
<1>3. CASE createKernel
  <2>1. stage' \in [Arg -> Stage]
    BY <1>3, <1>n DEF createKernel, Stage
  <2>2. kernel' \in [state : {"new", "running", "done"}, run : Nat, written : SUBSET Out]
    BY <1>3 DEF createKernel, BufferTypes, NotStarted
  <2> QED
    BY <1>3, <1>n, <2>1, <2>2 DEF createKernel, BufferTypes
<1>4. ASSUME NEW a \in In, Fill(a) PROVE BufferTypes'
  <2>1. a \in Arg /\ Filling(fills + 1) \in Content /\ fills + 1 \in Nat
    BY <1>m, ContentTypes, OutIn
  <2>2. stage' \in [Arg -> Stage] /\ fills' \in 0 .. MaxFill
    BY <1>4, <1>m, <1>n, <2>1 DEF Fill, Stage
  <2>3. buffer' \in Seq(BufferObject) /\ Len(buffer') = Len(buffer)
    <3>1. pointer[a] \in 1 .. Len(buffer)
      BY <1>4, <2>1, MapTypes DEF Fill
    <3>2. buffer' = buffer \/ buffer' = SetHost(pointer[a], Filling(fills + 1))
      BY <1>4 DEF Fill, Filling, SetHost
    <3> QED
      BY <2>1, <3>1, <3>2, SyncTypes DEF BufferTypes
  <2> QED
    BY <1>4, <2>2, <2>3 DEF Fill, BufferTypes
<1>5. ASSUME NEW a \in Arg, sendBO(a) PROVE BufferTypes'
  <2>1. buffer' \in Seq(BufferObject) /\ Len(buffer') = Len(buffer)
    <3>1. CASE InMap(a)
      <4>1. bos[a] \in 1 .. Len(buffer) /\ buffer[bos[a]].host \in Content
        BY <3>1, MapTypes DEF InMap
      <4>2. buffer' = SetDevice(bos[a], buffer[bos[a]].host)
        BY <1>5, <3>1 DEF sendBO, ToDevice, SetDevice
      <4> QED
        BY <4>1, <4>2, SyncTypes
    <3>2. CASE ~ InMap(a)
      BY <1>5, <3>2 DEF sendBO, BufferTypes
    <3> QED
      BY <3>1, <3>2
  <2>2. stage' \in [Arg -> Stage]
    BY <1>5, <1>n DEF sendBO, Stage
  <2> QED
    BY <1>5, <2>1, <2>2 DEF sendBO, BufferTypes
<1>6. ASSUME NEW a \in Arg, NEW b \in Arg, setMemArg(a, {a, b}) PROVE BufferTypes'
  <2>1. bound' \in [Arg -> 0 .. Len(buffer)]
    BY <1>6 DEF setMemArg, BufferTypes
  <2>2. stage' \in [Arg -> Stage]
    <3>1. [stage[a] EXCEPT !.at = "bound"] \in Stage
      BY <1>n DEF Stage
    <3> QED
      BY <1>6, <1>m, <1>n, <3>1 DEF setMemArg
  <2> QED
    BY <1>6, <2>1, <2>2 DEF setMemArg, BufferTypes
<1>7. CASE clearBOMap
  BY <1>7, <1>m, <1>n DEF clearBOMap, BufferTypes
<1>8. CASE run
  BY <1>8 DEF run, BufferTypes
<1>9. ASSUME NEW a \in Arg, KernelWrite(a) PROVE BufferTypes'
  <2>1. buffer' \in Seq(BufferObject) /\ Len(buffer') = Len(buffer)
    <3>1. Output(kernel.run) \in Content
      BY ContentTypes DEF BufferTypes
    <3>2. \/ buffer' = buffer
          \/ active[a] # 0 /\ buffer' = SetDevice(active[a], Output(kernel.run))
      BY <1>9 DEF KernelWrite, Output, SetDevice
    <3>3. active[a] # 0 => active[a] \in 1 .. Len(buffer)
      BY MapTypes, <1>9, OutIn DEF KernelWrite
    <3> QED
      BY <3>1, <3>2, <3>3, SyncTypes DEF BufferTypes
  <2>2. stage' \in [Arg -> Stage]
    BY <1>9, <1>m, <1>n DEF KernelWrite
  <2>3. kernel' \in [state : {"new", "running", "done"}, run : Nat, written : SUBSET Out]
    BY <1>9 DEF KernelWrite, BufferTypes
  <2> QED
    BY <1>9, <2>1, <2>2, <2>3 DEF KernelWrite, BufferTypes
<1>10. CASE KernelDone
  BY <1>10 DEF KernelDone, BufferTypes
<1>11. ASSUME NEW a \in Arg, NEW name, Fetch(name, a) PROVE BufferTypes'
  <2>1. buffer' \in Seq(BufferObject) /\ Len(buffer') = Len(buffer)
    <3>1. CASE InMap(a)
      <4>1. bos[a] \in 1 .. Len(buffer) /\ buffer[bos[a]].device \in Content
        BY <3>1, MapTypes DEF InMap
      <4>2. buffer' = SetHost(bos[a], buffer[bos[a]].device)
        BY <1>11, <3>1 DEF Fetch, FromDevice, SetHost
      <4> QED
        BY <4>1, <4>2, SyncTypes
    <3>2. CASE ~ InMap(a)
      BY <1>11, <3>2 DEF Fetch, BufferTypes
    <3> QED
      BY <3>1, <3>2
  <2>2. stage' \in [Arg -> Stage]
    BY <1>11, <1>m, <1>n DEF Fetch
  <2> QED
    BY <1>11, <2>1, <2>2 DEF Fetch, BufferTypes
<1>12. CASE wait
  BY <1>12 DEF wait, BufferTypes
<1>13. CASE UNCHANGED bufferVars
  BY <1>13 DEF bufferVars, BufferTypes
<1> QED
  BY <1>1, <1>2, <1>3, <1>4, <1>5, <1>6, <1>7, <1>8, <1>9, <1>10, <1>11, <1>12, <1>13
  DEF BuffersNext, Program, Kernel, getBO, syncBO

-----------------------------------------------------------------------------
\* A new buffer is a new number; nothing else puts a buffer in the map.
LEMMA ApartStep == BufferTypes /\ BuffersApart /\ [BuffersNext]_bufferVars => BuffersApart'
<1> SUFFICES ASSUME BufferTypes, BuffersApart, [BuffersNext]_bufferVars PROVE BuffersApart'
  OBVIOUS
<1>1. CASE UNCHANGED <<bos, pointer>>
  BY <1>1 DEF BuffersApart
<1>2. ASSUME NEW a \in Arg, NEW c, NEW own, Create(a, c, own)
      PROVE  BuffersApart'
  <2>1. /\ bos' = [bos EXCEPT ![a] = IF bos[a] = 0 THEN Len(buffer) + 1 ELSE bos[a]]
        /\ pointer' = [pointer EXCEPT ![a] = Len(buffer) + 1]
    BY <1>2 DEF Create, Inserted
  <2>2. PICK n \in Nat : n = Len(buffer)
    BY MapTypes
  <2>3. bos \in [Arg -> 0 .. n] /\ pointer \in [Arg -> 0 .. n]
    BY <2>2 DEF BufferTypes
  <2>4. /\ \A x \in Arg : bos[x] \in 0 .. n /\ pointer[x] \in 0 .. n
        /\ pointer'[a] = n + 1 /\ bos'[a] = IF bos[a] = 0 THEN n + 1 ELSE bos[a]
        /\ \A x \in Arg : x # a => bos'[x] = bos[x] /\ pointer'[x] = pointer[x]
    BY <2>1, <2>2, <2>3
  <2>5. ASSUME NEW x \in Arg, NEW y \in Arg, x # y
        PROVE  /\ bos'[x] # 0 => bos'[x] # bos'[y] /\ bos'[x] # pointer'[y]
               /\ pointer'[x] # 0 => pointer'[x] # bos'[y]
    <3>1. /\ bos[x] # 0 => bos[x] # bos[y] /\ bos[x] # pointer[y]
          /\ pointer[x] # 0 => pointer[x] # bos[y]
          /\ bos[y] # 0 => bos[y] # bos[x] /\ bos[y] # pointer[x]
      BY <2>5 DEF BuffersApart
    <3>2. CASE x = a
      BY <2>4, <2>5, <3>1, <3>2
    <3>3. CASE y = a
      BY <2>4, <2>5, <3>1, <3>3
    <3>4. CASE x # a /\ y # a
      BY <2>4, <3>1, <3>4
    <3> QED
      BY <3>2, <3>3, <3>4
  <2> QED
    BY <2>5 DEF BuffersApart
<1>3. ASSUME NEW a \in In, createBOfromHostPtr(a) PROVE BuffersApart'
  <2>1. Filling(fills + 1) \in Content /\ a \in Arg
    BY OutIn, ContentTypes DEF BufferTypes
  <2> QED
    BY <1>2, <1>3, <2>1 DEF createBOfromHostPtr, Filling
<1>4. CASE clearBOMap
  BY <1>4 DEF clearBOMap, None, BuffersApart
<1> QED
  BY <1>1, <1>2, <1>3, <1>4, ContentTypes
  DEF BuffersNext, Program, Kernel, createBO, createKernel, Fill, sendBO, setMemArg, run,
      KernelWrite, KernelDone, getBO, syncBO, Fetch, wait, bufferVars

\* A filling follows its argument through the calls in their order.
LEMMA FillingStep ==
    BufferTypes /\ BuffersApart /\ FillingThere /\ [BuffersNext]_bufferVars => FillingThere'
<1> SUFFICES ASSUME BufferTypes, BuffersApart, FillingThere, [BuffersNext]_bufferVars
             PROVE  FillingThere'
  OBVIOUS
<1>n. stage \in [Arg -> Stage]
  BY DEF BufferTypes
<1>a. \A x \in Arg : bos[x] # 0 => bos[x] \in 1 .. Len(buffer)
  BY MapTypes
<1>1. ASSUME NEW a \in Arg, createBO(a) PROVE FillingThere'
  <2>1. /\ \A b \in 1 .. Len(buffer) : buffer'[b] = buffer[b]
        /\ bos' = [bos EXCEPT ![a] = IF bos[a] = 0 THEN Len(buffer) + 1 ELSE bos[a]]
    BY <1>1, CreateTypes, ContentTypes DEF createBO
  <2>2. bound' = bound /\ stage' = [stage EXCEPT ![a] = NoStage] /\ NoStage.at = "none"
    BY <1>1 DEF createBO, NoStage
  <2>3. bos \in [Arg -> 0 .. Len(buffer)]
    BY DEF BufferTypes
  <2> QED
    BY <1>n, <1>a, <2>1, <2>2, <2>3 DEF FillingThere
<1>2. ASSUME NEW a \in In, createBOfromHostPtr(a) PROVE FillingThere'
  <2>1. a \in Arg /\ Filling(fills + 1) \in Content
    BY OutIn, ContentTypes DEF BufferTypes
  <2>2. Create(a, Filling(fills + 1), TRUE)
    BY <1>2 DEF createBOfromHostPtr, Filling
  <2>3. /\ \A b \in 1 .. Len(buffer) : buffer'[b] = buffer[b]
        /\ buffer'[Len(buffer) + 1].host = Filling(fills + 1)
        /\ bos' = [bos EXCEPT ![a] = IF bos[a] = 0 THEN Len(buffer) + 1 ELSE bos[a]]
        /\ Len(buffer) \in Nat
    BY <2>1, <2>2, CreateTypes
  <2>4. bound' = bound
        /\ stage' = [stage EXCEPT ![a] = IF bos[a] # 0 THEN NoStage
                                         ELSE [at |-> "filled", filling |-> fills + 1]]
    BY <1>2 DEF createBOfromHostPtr, InMap
  <2>5. bos \in [Arg -> 0 .. Len(buffer)] /\ NoStage.at = "none"
    BY DEF BufferTypes, NoStage
  <2>6. ASSUME NEW x \in Arg, x # a, stage'[x].at # "none"
        PROVE  /\ bos'[x] # 0
               /\ buffer'[bos'[x]].host = Filling(stage'[x].filling)
               /\ stage'[x].at # "filled" => buffer'[bos'[x]].device = Filling(stage'[x].filling)
               /\ stage'[x].at = "bound" => bound'[x] = bos'[x]
    BY <1>n, <1>a, <2>3, <2>4, <2>5, <2>6 DEF FillingThere
  <2>7. ASSUME stage'[a].at # "none"
        PROVE  /\ bos'[a] # 0
               /\ buffer'[bos'[a]].host = Filling(stage'[a].filling)
               /\ stage'[a].at = "filled"
    BY <1>n, <2>1, <2>3, <2>4, <2>5, <2>7
  <2> QED
    BY <2>6, <2>7 DEF FillingThere
<1>3. CASE createKernel
  <2>1. /\ UNCHANGED <<bos, buffer>>
        /\ stage' = [x \in Arg |-> IF stage[x].at = "bound" THEN [stage[x] EXCEPT !.at = "sent"]
                                   ELSE stage[x]]
    BY <1>3 DEF createKernel
  <2>2. \A x \in Arg : /\ stage'[x].filling = stage[x].filling
                       /\ stage'[x].at # "bound"
                       /\ stage'[x].at = "none" <=> stage[x].at = "none"
                       /\ stage'[x].at = "filled" <=> stage[x].at = "filled"
    BY <1>n, <2>1 DEF Stage
  <2>3. ASSUME NEW x \in Arg, stage'[x].at # "none"
        PROVE  /\ bos[x] # 0
               /\ buffer[bos[x]].host = Filling(stage'[x].filling)
               /\ stage'[x].at # "filled" => buffer[bos[x]].device = Filling(stage'[x].filling)
               /\ stage'[x].at # "bound"
    <3>1. /\ stage[x].at # "none" /\ stage'[x].filling = stage[x].filling
          /\ stage'[x].at # "bound"
          /\ stage'[x].at # "filled" => stage[x].at # "filled"
      BY <2>2, <2>3
    <3> QED
      BY <3>1 DEF FillingThere
  <2> QED
    BY <2>1, <2>3 DEF FillingThere
<1>4. ASSUME NEW a \in In, Fill(a) PROVE FillingThere'
  <2>0. a \in Arg /\ fills + 1 \in Nat /\ pointer[a] # 0
    BY <1>4, OutIn DEF BufferTypes, Fill
  <2>1. a \in Arg /\ Filling(fills + 1) \in Content /\ pointer[a] \in 1 .. Len(buffer)
    BY <2>0, ContentTypes, MapTypes
  <2>2. /\ UNCHANGED <<bos, bound>> /\ pointer[a] # 0
        /\ stage' = [stage EXCEPT ![a] = IF pointer[a] = bos[a]
                                         THEN [at |-> "filled", filling |-> fills + 1]
                                         ELSE NoStage]
    BY <1>4 DEF Fill
  <2>3. buffer' = buffer \/ buffer' = SetHost(pointer[a], Filling(fills + 1))
    BY <1>4 DEF Fill, Filling, SetHost
  <2>4. ASSUME NEW x \in Arg, x # a, stage[x].at # "none"
        PROVE  buffer'[bos[x]] = buffer[bos[x]]
    <3>1. bos[x] \in 1 .. Len(buffer) /\ bos[x] # pointer[a]
      BY <1>a, <2>1, <2>4 DEF FillingThere, BuffersApart
    <3> QED
      BY <2>1, <2>3, <3>1, SyncTypes
  <2>5. ASSUME pointer[a] = bos[a] PROVE buffer'[bos[a]].host = Filling(fills + 1)
    <3>1. Exists(pointer[a])
      BY <2>1, <2>5 DEF Exists
    <3>2. buffer' = SetHost(pointer[a], Filling(fills + 1))
      BY <1>4, <3>1 DEF Fill, Filling, SetHost
    <3> QED
      BY <2>1, <2>5, <3>2, SyncTypes
  <2>6. NoStage.at = "none"
    BY DEF NoStage
  <2>7. ASSUME NEW x \in Arg, x # a, stage'[x].at # "none"
        PROVE  /\ bos'[x] # 0
               /\ buffer'[bos'[x]].host = Filling(stage'[x].filling)
               /\ stage'[x].at # "filled" => buffer'[bos'[x]].device = Filling(stage'[x].filling)
               /\ stage'[x].at = "bound" => bound'[x] = bos'[x]
    BY <1>n, <2>2, <2>4, <2>7 DEF FillingThere
  <2>8. ASSUME stage'[a].at # "none"
        PROVE  /\ bos'[a] # 0
               /\ buffer'[bos'[a]].host = Filling(stage'[a].filling)
               /\ stage'[a].at = "filled"
    BY <1>n, <2>1, <2>2, <2>5, <2>6, <2>8
  <2> QED
    BY <2>7, <2>8 DEF FillingThere
<1>5. ASSUME NEW a \in Arg, sendBO(a) PROVE FillingThere'
  <2>1. CASE InMap(a)
    <3>1. bos[a] \in 1 .. Len(buffer) /\ buffer[bos[a]].host \in Content
      BY <2>1, MapTypes DEF InMap
    <3>2. /\ UNCHANGED <<bos, bound>> /\ buffer' = SetDevice(bos[a], buffer[bos[a]].host)
          /\ stage' = [stage EXCEPT ![a].at = IF @ = "filled" THEN "sent" ELSE @]
      BY <1>5, <2>1 DEF sendBO, ToDevice, SetDevice
    <3>3. /\ buffer'[bos[a]].device = buffer[bos[a]].host
          /\ buffer'[bos[a]].host = buffer[bos[a]].host
      BY <3>1, <3>2, SyncTypes
    <3>4. ASSUME NEW x \in Arg, x # a, stage[x].at # "none"
          PROVE  buffer'[bos[x]] = buffer[bos[x]]
      <4>1. bos[x] \in 1 .. Len(buffer) /\ bos[x] # bos[a]
        BY <1>a, <3>4 DEF FillingThere, BuffersApart
      <4> QED
        BY <3>1, <3>2, <4>1, SyncTypes
    <3>5. /\ stage'[a].filling = stage[a].filling
          /\ stage'[a].at = "none" <=> stage[a].at = "none"
          /\ stage'[a].at = "bound" <=> stage[a].at = "bound"
          /\ \A x \in Arg : x # a => stage'[x] = stage[x]
      BY <1>n, <3>2 DEF Stage
    <3>6. ASSUME NEW x \in Arg, x # a, stage'[x].at # "none"
          PROVE  /\ bos'[x] # 0
                 /\ buffer'[bos'[x]].host = Filling(stage'[x].filling)
                 /\ stage'[x].at # "filled" => buffer'[bos'[x]].device = Filling(stage'[x].filling)
                 /\ stage'[x].at = "bound" => bound'[x] = bos'[x]
      BY <3>2, <3>4, <3>5, <3>6 DEF FillingThere
    <3>7. ASSUME stage'[a].at # "none"
          PROVE  /\ bos'[a] # 0
                 /\ buffer'[bos'[a]].host = Filling(stage'[a].filling)
                 /\ buffer'[bos'[a]].device = Filling(stage'[a].filling)
                 /\ stage'[a].at = "bound" => bound'[a] = bos'[a]
      BY <3>2, <3>3, <3>5, <3>7 DEF FillingThere
    <3> QED
      BY <3>6, <3>7 DEF FillingThere
  <2>2. CASE ~ InMap(a)
    BY <1>5, <2>2 DEF sendBO, FillingThere
  <2> QED
    BY <2>1, <2>2
<1>6. ASSUME NEW a \in Arg, NEW b \in Arg, setMemArg(a, {a, b}) PROVE FillingThere'
  <2>1. CASE InMap(a)
    <3>1. /\ UNCHANGED <<bos, buffer>>
          /\ bound' = [x \in Arg |-> IF x \in {a, b} THEN bos[a] ELSE bound[x]]
          /\ stage' = [x \in Arg |->
                 IF x = a /\ stage[a].at = "sent" THEN [stage[a] EXCEPT !.at = "bound"]
                 ELSE IF x \in {a, b} \ {a} THEN NoStage ELSE stage[x]]
      BY <1>6, <2>1 DEF setMemArg
    <3>2. /\ stage'[a].filling = stage[a].filling
          /\ stage'[a].at = "none" <=> stage[a].at = "none"
          /\ stage'[a].at = "filled" <=> stage[a].at = "filled"
      BY <1>n, <3>1 DEF Stage
    <3>3. \A x \in Arg : x # a => stage'[x] = IF x = b THEN NoStage ELSE stage[x]
      BY <3>1
    <3>4. NoStage.at = "none" /\ bound'[a] = bos[a]
      BY <3>1 DEF NoStage
    <3>5. \A x \in Arg : (x # a /\ x # b) => bound'[x] = bound[x]
      BY <3>1
    <3> QED
      BY <3>1, <3>2, <3>3, <3>4, <3>5 DEF FillingThere
  <2>2. CASE ~ InMap(a)
    BY <1>6, <2>2 DEF setMemArg, FillingThere
  <2> QED
    BY <2>1, <2>2
<1>7. CASE clearBOMap
  BY <1>7 DEF clearBOMap, FillingThere, NoStage
<1>8. CASE run \/ KernelDone \/ wait \/ UNCHANGED bufferVars
  BY <1>8 DEF run, KernelDone, wait, bufferVars, FillingThere
<1>9. ASSUME NEW a \in Arg, KernelWrite(a) PROVE FillingThere'
  <2>1. UNCHANGED <<bos, bound>> /\ NoStage.at = "none"
        /\ stage' = [x \in Arg |-> IF stage[x].at # "filled" /\ bos[x] = active[a]
                                   THEN NoStage ELSE stage[x]]
    BY <1>9 DEF KernelWrite, NoStage
  <2>2. ASSUME NEW x \in Arg, stage'[x].at # "none"
        PROVE  /\ stage'[x] = stage[x]
               /\ buffer'[bos[x]].host = buffer[bos[x]].host
               /\ stage[x].at # "filled" => buffer'[bos[x]].device = buffer[bos[x]].device
    <3>1. stage'[x] = stage[x] /\ (stage[x].at # "filled" => bos[x] # active[a])
      BY <2>1, <2>2
    <3>2. bos[x] \in 1 .. Len(buffer)
      BY <1>a, <2>2, <3>1 DEF FillingThere
    <3>3. CASE active[a] = 0
      BY <1>9, <3>1, <3>3 DEF KernelWrite
    <3>4. CASE active[a] # 0
      <4>1. active[a] \in 1 .. Len(buffer) /\ Output(kernel.run) \in Content
        BY <3>4, MapTypes, ContentTypes DEF BufferTypes
      <4>2. buffer' = SetDevice(active[a], Output(kernel.run))
        BY <1>9, <3>4 DEF KernelWrite, Output, SetDevice
      <4> QED
        BY <3>1, <3>2, <4>1, <4>2, SyncTypes
    <3> QED
      BY <3>3, <3>4
  <2> QED
    BY <2>1, <2>2 DEF FillingThere
<1>10. ASSUME NEW a \in Arg, NEW name, Fetch(name, a) PROVE FillingThere'
  <2>1. UNCHANGED <<bos, bound>> /\ stage' = [stage EXCEPT ![a] = NoStage] /\ NoStage.at = "none"
    BY <1>10 DEF Fetch, NoStage
  <2>2. ASSUME NEW x \in Arg, x # a, stage[x].at # "none"
        PROVE  buffer'[bos[x]] = buffer[bos[x]]
    <3>1. bos[x] \in 1 .. Len(buffer) /\ bos[x] # bos[a]
      BY <1>a, <2>2 DEF FillingThere, BuffersApart
    <3>2. CASE ~ InMap(a)
      BY <1>10, <3>2 DEF Fetch
    <3>3. CASE InMap(a)
      <4>1. bos[a] \in 1 .. Len(buffer) /\ buffer[bos[a]].device \in Content
        BY <3>3, MapTypes DEF InMap
      <4>2. buffer' = SetHost(bos[a], buffer[bos[a]].device)
        BY <1>10, <3>3 DEF Fetch, FromDevice, SetHost
      <4> QED
        BY <3>1, <4>1, <4>2, SyncTypes
    <3> QED
      BY <3>2, <3>3
  <2> QED
    BY <1>n, <2>1, <2>2 DEF FillingThere
<1> QED
  BY <1>1, <1>2, <1>3, <1>4, <1>5, <1>6, <1>7, <1>8, <1>9, <1>10
  DEF BuffersNext, Program, Kernel, getBO, syncBO

\* Only run says run, and the arguments of a run are those bound at its start.
LEMMA BegunStep == JustBegun /\ [BuffersNext]_bufferVars => JustBegun'
<1> SUFFICES ASSUME JustBegun, [BuffersNext]_bufferVars PROVE JustBegun'
  OBVIOUS
<1>1. CASE last'.call # "run"
  BY <1>1 DEF JustBegun
<1>2. CASE run
  BY <1>2 DEF run, Ended, Returned, JustBegun
<1>3. ASSUME NEW a \in Arg, KernelWrite(a) PROVE JustBegun'
  <2>1. kernel'.written # {} \/ UNCHANGED <<last, kernel, active, bound>>
    BY <1>3 DEF KernelWrite
  <2> QED
    BY <2>1 DEF JustBegun
<1>4. CASE KernelDone
  <2>1. UNCHANGED <<last, active, bound>> /\ kernel'.written = kernel.written
    BY <1>4 DEF KernelDone
  <2> QED
    BY <2>1 DEF JustBegun
<1>5. CASE UNCHANGED bufferVars
  BY <1>5 DEF bufferVars, JustBegun
<1>6. ASSUME NEW a \in Arg, getBO(a) \/ syncBO(a) PROVE last'.call # "run"
  BY <1>6 DEF getBO, syncBO, Fetch, Ended, Returned
<1>7. ASSUME NEW a \in Arg, createBO(a) \/ createBOfromHostPtr(a) \/ Fill(a) \/ sendBO(a)
      PROVE  last'.call # "run"
  BY <1>7 DEF createBO, createBOfromHostPtr, Create, Fill, sendBO, Ended
<1>8. ASSUME NEW a \in Arg, NEW b \in Arg, setMemArg(a, {a, b}) PROVE last'.call # "run"
  BY <1>8 DEF setMemArg, Ended
<1>9. createKernel \/ clearBOMap \/ wait => last'.call # "run"
  BY DEF createKernel, clearBOMap, wait, Ended
<1> QED
  BY <1>1, <1>2, <1>3, <1>4, <1>5, <1>6, <1>7, <1>8, <1>9, OutIn DEF BuffersNext, Program, Kernel

\* What the kernel has written stays on the device.
LEMMA OutputStep == BufferTypes /\ OutputThere /\ [BuffersNext]_bufferVars => OutputThere'
<1> SUFFICES ASSUME BufferTypes, OutputThere, [BuffersNext]_bufferVars PROVE OutputThere'
  OBVIOUS
<1>t. /\ kernel.written \subseteq Arg
      /\ \A a \in Arg : active[a] # 0 => active[a] \in 1 .. Len(buffer)
  BY MapTypes, OutIn DEF BufferTypes
<1>a. ASSUME UNCHANGED <<kernel, active>>, resent \subseteq resent',
             \A b \in 1 .. Len(buffer) : b \notin resent' => buffer'[b].device = buffer[b].device
      PROVE  OutputThere'
  BY <1>a, <1>t DEF OutputThere, None
<1>1. ASSUME NEW a \in Arg, NEW c \in Content, NEW own \in BOOLEAN, Create(a, c, own),
             UNCHANGED <<kernel, active, resent>>
      PROVE  OutputThere'
  <2>1. \A b \in 1 .. Len(buffer) : buffer'[b] = buffer[b]
    BY <1>1, CreateTypes
  <2> QED
    BY <1>1, <1>a, <2>1
<1>2. ASSUME NEW a \in In, createBOfromHostPtr(a) PROVE OutputThere'
  <2>1. Filling(fills + 1) \in Content /\ a \in Arg
    BY OutIn, ContentTypes DEF BufferTypes
  <2> QED
    BY <1>1, <1>2, <2>1 DEF createBOfromHostPtr, Filling
<1>3. CASE createKernel
  <2>1. kernel' = [NotStarted EXCEPT !.run = kernel.run] /\ active' = None
    BY <1>3 DEF createKernel
  <2>2. kernel'.state = "new" /\ kernel'.written = {}
    BY <2>1 DEF NotStarted
  <2> QED
    BY <2>1, <2>2 DEF OutputThere, None
<1>4. ASSUME NEW a \in In, Fill(a) PROVE OutputThere'
  <2>1. a \in Arg /\ fills + 1 \in Nat /\ pointer[a] # 0
    BY <1>4, OutIn DEF BufferTypes, Fill
  <2>2. Filling(fills + 1) \in Content /\ pointer[a] \in 1 .. Len(buffer)
    BY <2>1, ContentTypes, MapTypes
  <2>3. buffer' = buffer \/ buffer' = SetHost(pointer[a], Filling(fills + 1))
    BY <1>4 DEF Fill, Filling, SetHost
  <2>4. UNCHANGED <<kernel, active, resent>>
    BY <1>4 DEF Fill
  <2>5. \A b \in 1 .. Len(buffer) : buffer'[b].device = buffer[b].device
    BY <2>2, <2>3, SyncTypes
  <2> QED
    BY <1>a, <2>4, <2>5
<1>5. ASSUME NEW a \in Arg, sendBO(a) PROVE OutputThere'
  <2>1. CASE InMap(a)
    <3>1. bos[a] \in 1 .. Len(buffer) /\ buffer[bos[a]].host \in Content
      BY <2>1, MapTypes DEF InMap
    <3>2. /\ UNCHANGED <<kernel, active>> /\ resent' = resent \cup {bos[a]}
          /\ buffer' = SetDevice(bos[a], buffer[bos[a]].host)
      BY <1>5, <2>1 DEF sendBO, ToDevice, SetDevice
    <3>3. \A b \in 1 .. Len(buffer) : b # bos[a] => buffer'[b] = buffer[b]
      BY <3>1, <3>2, SyncTypes
    <3> QED
      BY <1>a, <3>2, <3>3
  <2>2. CASE ~ InMap(a)
    BY <1>5, <1>a, <2>2 DEF sendBO
  <2> QED
    BY <2>1, <2>2
<1>6. CASE run
  <2>1. CASE kernel.state = "running"
    BY <1>6, <1>a, <2>1 DEF run
  <2>2. CASE kernel.state # "running"
    <3>1. kernel'.state = "running" /\ kernel'.written = {}
      BY <1>6, <2>2 DEF run
    <3> QED
      BY <3>1 DEF OutputThere
  <2> QED
    BY <2>1, <2>2
<1>7. ASSUME NEW a \in Arg, KernelWrite(a) PROVE OutputThere'
  <2>1. /\ UNCHANGED <<active, resent>> /\ kernel'.written = kernel.written \cup {a}
        /\ kernel'.run = kernel.run /\ kernel'.state = "running"
    BY <1>7 DEF KernelWrite, BufferTypes
  <2>2. CASE active[a] = 0
    <3>1. buffer' = buffer
      BY <1>7, <2>2 DEF KernelWrite
    <3> QED
      BY <2>1, <2>2, <3>1 DEF OutputThere, Output
  <2>3. CASE active[a] # 0
    <3>1. active[a] \in 1 .. Len(buffer) /\ Output(kernel.run) \in Content
      BY <2>3, MapTypes, ContentTypes DEF BufferTypes
    <3>2. buffer' = SetDevice(active[a], Output(kernel.run))
      BY <1>7, <2>3 DEF KernelWrite, Output, SetDevice
    <3>3. /\ buffer'[active[a]].device = Output(kernel.run)
          /\ \A b \in 1 .. Len(buffer) : b # active[a] => buffer'[b] = buffer[b]
      BY <3>1, <3>2, SyncTypes
    <3> QED
      BY <1>t, <2>1, <3>3 DEF OutputThere, Output
  <2> QED
    BY <2>2, <2>3
<1>8. CASE KernelDone
  <2>1. /\ UNCHANGED <<active, resent, buffer>> /\ kernel'.written = kernel.written
        /\ kernel.written = Out /\ kernel'.run = kernel.run /\ kernel'.state = "done"
    BY <1>8 DEF KernelDone, BufferTypes
  <2> QED
    BY <2>1 DEF OutputThere, Output
<1>9. ASSUME NEW a \in Arg, NEW name, Fetch(name, a) PROVE OutputThere'
  <2>1. UNCHANGED <<kernel, active, resent>>
    BY <1>9 DEF Fetch
  <2>2. CASE InMap(a)
    <3>1. bos[a] \in 1 .. Len(buffer) /\ buffer[bos[a]].device \in Content
      BY <2>2, MapTypes DEF InMap
    <3>2. buffer' = SetHost(bos[a], buffer[bos[a]].device)
      BY <1>9, <2>2 DEF Fetch, FromDevice, SetHost
    <3>3. \A b \in 1 .. Len(buffer) : buffer'[b].device = buffer[b].device
      BY <3>1, <3>2, SyncTypes
    <3> QED
      BY <1>a, <2>1, <3>3
  <2>3. CASE ~ InMap(a)
    BY <1>9, <1>a, <2>1, <2>3 DEF Fetch
  <2> QED
    BY <2>2, <2>3
<1>10. CASE UNCHANGED <<kernel, active, resent, buffer>>
  BY <1>10, <1>a
<1> QED
  BY <1>1, <1>2, <1>3, <1>4, <1>5, <1>6, <1>7, <1>8, <1>9, <1>10, ContentTypes
  DEF BuffersNext, Program, Kernel, createBO, setMemArg, clearBOMap, getBO, syncBO, wait,
      bufferVars

-----------------------------------------------------------------------------
HandleInv == BufferTypes /\ BuffersApart /\ FillingThere /\ JustBegun /\ OutputThere

LEMMA HandleInit == BuffersInit => HandleInv
<1> SUFFICES ASSUME BuffersInit PROVE HandleInv
  OBVIOUS
<1>1. BuffersApart
  BY DEF BuffersInit, None, BuffersApart
<1>2. FillingThere
  BY DEF BuffersInit, NoStage, FillingThere
<1>3. JustBegun /\ OutputThere
  BY DEF BuffersInit, NotStarted, JustBegun, OutputThere
<1> QED
  BY <1>1, <1>2, <1>3, TypesInit DEF HandleInv

LEMMA HandleStep == HandleInv /\ [BuffersNext]_bufferVars => HandleInv'
  BY TypesStep, ApartStep, FillingStep, BegunStep, OutputStep DEF HandleInv

\* An input of the example that was filled, sent and set in this order is on the
\* device when the run starts, whatever happened to the other arguments.
THEOREM InputsReachRun == BuffersSpec => []InputsArrive
<1>1. HandleInv => InputsArrive
  <2> SUFFICES ASSUME HandleInv, last.call = "run", last.result = "ok", kernel.written = {},
                      NEW a \in Arg, stage[a].at = "bound"
               PROVE  buffer[active[a]].device = <<"in", stage[a].filling>>
    BY DEF InputsArrive
  <2>1. active = bound
    BY DEF HandleInv, JustBegun
  <2>2. bound[a] = bos[a] /\ buffer[bos[a]].device = Filling(stage[a].filling)
    BY DEF HandleInv, FillingThere
  <2> QED
    BY <2>1, <2>2 DEF Filling
<1> QED
  BY <1>1, HandleInit, HandleStep, PTL DEF BuffersSpec

\* getBO waits for the run and brings the whole of its output back.
THEOREM ResultsComeBack == BuffersSpec => []ResultComplete
<1>1. BuffersInit => ResultComplete
  BY DEF BuffersInit, ResultComplete
<1>2. HandleInv /\ ResultComplete /\ [BuffersNext]_bufferVars => ResultComplete'
  <2> SUFFICES ASSUME HandleInv, ResultComplete, [BuffersNext]_bufferVars
               PROVE  ResultComplete'
    OBVIOUS
  <2>1. CASE last'.call # "getBO"
    BY <2>1 DEF ResultComplete
  <2>2. CASE UNCHANGED bufferVars
    BY <2>2 DEF bufferVars, ResultComplete
  <2>3. CASE Kernel /\ last' = last
    <3>1. UNCHANGED <<active, bos, resent>> /\ kernel.state = "running"
      BY <2>3 DEF Kernel, KernelDone, KernelWrite
    <3> QED
      BY <2>3, <3>1 DEF ResultComplete
  <2>4. ASSUME NEW a \in Arg, getBO(a) PROVE ResultComplete'
    <3> SUFFICES ASSUME last'.result = "ok", last'.arg \in Out, active'[last'.arg] # 0,
                        active'[last'.arg] = bos'[last'.arg], bos'[last'.arg] \notin resent'
                 PROVE  /\ kernel'.state = "done"
                        /\ buffer'[bos'[last'.arg]].host = <<"out", kernel'.run>>
      BY DEF ResultComplete
    <3>1. UNCHANGED <<bos, active, kernel, resent>> /\ kernel.state # "running"
      BY <2>4 DEF getBO, Waited, Fetch
    <3>2. InMap(a) /\ last'.arg = a /\ buffer' = SetHost(bos[a], buffer[bos[a]].device)
      BY <2>4 DEF getBO, Fetch, FromDevice, SetHost, Ended, Returned
    <3>3. bos[a] \in 1 .. Len(buffer) /\ buffer[bos[a]].device \in Content
      BY <3>2, MapTypes DEF InMap, HandleInv
    <3>4. kernel.state = "done"
      BY <3>1, <3>2 DEF HandleInv, BufferTypes, OutputThere, None
    <3>5. buffer[bos[a]].device = Output(kernel.run)
      BY <3>1, <3>2, <3>4 DEF HandleInv, OutputThere
    <3>6. buffer'[bos[a]].host = buffer[bos[a]].device
      BY <3>2, <3>3, SyncTypes DEF HandleInv
    <3> QED
      BY <3>1, <3>2, <3>4, <3>5, <3>6 DEF Output
  <2>5. ASSUME NEW a \in Arg, createBO(a) \/ createBOfromHostPtr(a) \/ Fill(a) \/ sendBO(a)
        PROVE  last'.call # "getBO"
    BY <2>5 DEF createBO, createBOfromHostPtr, Create, Fill, sendBO, Ended
  <2>6. ASSUME NEW a \in Arg, NEW b \in Arg, setMemArg(a, {a, b}) PROVE last'.call # "getBO"
    BY <2>6 DEF setMemArg, Ended
  <2>7. ASSUME NEW a \in Arg, syncBO(a) PROVE last'.call # "getBO" \/ UNCHANGED bufferVars
    BY <2>7 DEF syncBO, Fetch, Ended, Returned
  <2>8. createKernel \/ clearBOMap \/ wait \/ run => last'.call # "getBO"
    BY DEF createKernel, clearBOMap, wait, run, Ended, Returned
  <2>9. Kernel => last' = last
    BY DEF Kernel, KernelDone, KernelWrite
  <2> QED
    BY <2>1, <2>2, <2>3, <2>4, <2>5, <2>6, <2>7, <2>8, <2>9, OutIn DEF BuffersNext, Program
<1> QED
  BY <1>1, <1>2, HandleInit, HandleStep, PTL DEF BuffersSpec

\* Every buffer named in the map, behind a pointer or in a run was created, however
\* the map is cleared and kernels are created in between.
THEOREM BuffersTyped == BuffersSpec => []BuffersTypeOK
<1>1. HandleInv => BuffersTypeOK
  BY DEF HandleInv, BufferTypes, BuffersTypeOK
<1> QED
  BY <1>1, HandleInit, HandleStep, PTL DEF BuffersSpec

-----------------------------------------------------------------------------
(* The registers of an engine.                                             *)

\* The settings the program passes fit the two registers they are written to.
SettingsFit ==
    /\ \A t \in Timeouts \cup {DefaultTimeout} : t \div Word < Word
    /\ \A s \in MacSubnets : s \div Word < Half

WideOffsets == {timeout_off, MACSubnet_off}

Setting(off, values) == IF off = timeout_off THEN values.timeout ELSE values.mac

Request == [off : Offsets, value : Nat]

Values == [id : Nat, timeout : Nat, ip : Nat, mac : Nat]

\* A value whose high half fits its register.
Fits(values) ==
    \A off \in WideOffsets : Setting(off, values) \div Word < Capacity(off + 4)

Has(s, off) == \E i \in 1 .. Len(s) : s[i].off = off

\* The writes of a call: each register at most once, and of a wide setting the two
\* halves of the value asked for, the low one right before the high one.
Writes(s, values) ==
    /\ s \in Seq(Request)
    /\ \A i, j \in 1 .. Len(s) : s[i].off = s[j].off => i = j
    /\ \A off \in WideOffsets, i \in 1 .. Len(s) :
          /\ s[i].off = off => /\ s[i].value = Setting(off, values) % Word
                               /\ i + 1 \in 1 .. Len(s) /\ s[i + 1].off = off + 4
          /\ s[i].off = off + 4 => s[i].value = Setting(off, values) \div Word

\* The registers of a wide setting: the new half once written, else the old one.
Halves(p) ==
    \A off \in WideOffsets :
        /\ reg[p][off] = Setting(off, IF Has(pending[p], off) THEN before[p] ELSE asked[p]) % Word
        /\ reg[p][off + 4] =
              Setting(off, IF Has(pending[p], off + 4) THEN before[p] ELSE asked[p]) \div Word

RegTypes ==
    /\ reg \in [Port -> [Offsets -> Nat]]
    /\ \A p \in Port, off \in Offsets : reg[p][off] < Capacity(off)
    /\ DOMAIN pending = Port
    /\ \A p \in Port : Writes(pending[p], asked[p]) /\ Len(pending[p]) <= 5
    /\ asked \in [Port -> Values] /\ before \in [Port -> Values]
    /\ table \in [Port -> SUBSET Peers]
    /\ calls \in 0 .. MaxCalls

RegsInv ==
    /\ RegTypes
    /\ \A p \in Port : Fits(asked[p]) /\ Halves(p)

-----------------------------------------------------------------------------
LEMMA Sizes ==
    /\ Byte \in Nat \ {0} /\ Half \in Nat \ {0} /\ Word \in Nat \ {0} /\ IdSpan \in Nat \ {0}
    /\ \A off \in Offsets : Capacity(off) \in Nat \ {0}
    /\ WideOffsets \subseteq Offsets
    /\ \A off \in WideOffsets :
          /\ off + 4 \in Offsets /\ off \in Nat /\ off + 4 # off
          /\ Capacity(off) = Word
          /\ \A b \in WideOffsets : off + 4 # b /\ (off + 4 = b + 4 => off = b)
<1>1. Byte \in Nat \ {0} /\ IdSpan \in Nat \ {0}
  BY RegsAssumption
<1>2. Half \in Nat \ {0}
  BY <1>1 DEF Half
<1>3. Byte * Byte * Byte \in Nat \ {0}
  BY <1>1, <1>2 DEF Half
<1>4. Word \in Nat \ {0}
  BY <1>1, <1>3 DEF Word
<1>5. \A off \in Offsets : Capacity(off) \in Nat \ {0}
  BY <1>1, <1>2, <1>4 DEF Capacity
<1>6. /\ WideOffsets \subseteq Offsets
      /\ \A off \in WideOffsets :
            /\ off + 4 \in Offsets /\ off \in Nat /\ off + 4 # off
            /\ \A b \in WideOffsets : off + 4 # b /\ (off + 4 = b + 4 => off = b)
  BY DEF WideOffsets, Offsets, timeout_off, MACSubnet_off, localID_off, IPsubnet_off,
         retranssmitions_off, UDPPort_off, resetARP_off
<1>7. \A off \in WideOffsets : Capacity(off) = Word
  BY DEF WideOffsets, Capacity, timeout_off, MACSubnet_off, localID_off,
         retranssmitions_off, UDPPort_off, resetARP_off
<1> QED
  BY <1>1, <1>2, <1>4, <1>5, <1>6, <1>7

\* What a register keeps of a value.
LEMMA StoredTypes ==
    ASSUME NEW off \in Offsets, NEW v \in Nat
    PROVE  /\ Stored(off, v) \in Nat /\ Stored(off, v) < Capacity(off)
           /\ v < Capacity(off) => Stored(off, v) = v
<1>1. Capacity(off) \in Nat \ {0}
  BY Sizes
<1>2. ASSUME v < Capacity(off) PROVE v % Capacity(off) = v
  BY <1>1, <1>2, ModUnique, 0 * Capacity(off) + v = v
<1> QED
  BY <1>1, <1>2, ModSplit DEF Stored

LEMMA RegsInvInit == RegsInit => RegsInv
<1> SUFFICES ASSUME RegsInit PROVE RegsInv
  OBVIOUS
<1>1. 0 % Word = 0 /\ 0 \div Word = 0
  BY Sizes
<1>2. NoValues \in Values /\ \A off \in WideOffsets : Setting(off, NoValues) = 0
  BY DEF NoValues, Values, Setting
<1>3. ASSUME NEW p \in Port PROVE Fits(asked[p]) /\ Halves(p)
  <2>1. asked[p] = NoValues /\ before[p] = NoValues /\ pending[p] = <<>>
    BY DEF RegsInit
  <2>2. \A off \in WideOffsets : reg[p][off] = 0 /\ reg[p][off + 4] = 0
    BY Sizes DEF RegsInit
  <2> QED
    BY <1>1, <1>2, <2>1, <2>2, Sizes DEF Fits, Halves, Has
<1>4. ASSUME NEW p \in Port PROVE Writes(pending[p], asked[p]) /\ Len(pending[p]) <= 5
  <2>1. pending[p] = <<>>
    BY DEF RegsInit
  <2>2. <<>> \in Seq(Request) /\ Len(<<>>) = 0
    OBVIOUS
  <2> QED
    BY <2>1, <2>2 DEF Writes
<1>5. \A p \in Port, off \in Offsets : reg[p][off] < Capacity(off)
  BY Sizes DEF RegsInit
<1>6. MaxCalls \in Nat
  BY RegsAssumption
<1>7. reg \in [Port -> [Offsets -> Nat]] /\ DOMAIN pending = Port
  BY DEF RegsInit
<1>8. asked \in [Port -> Values] /\ before \in [Port -> Values] /\ table \in [Port -> SUBSET Peers]
  BY <1>2 DEF RegsInit
<1>9. calls \in 0 .. MaxCalls
  BY <1>6 DEF RegsInit
<1> QED
  BY <1>3, <1>4, <1>5, <1>7, <1>8, <1>9 DEF RegsInv, RegTypes

-----------------------------------------------------------------------------
(* A call: the writes it leaves to be made.                                *)

LEMMA CallStep ==
    ASSUME RegsInv, NEW p \in Port, NEW s, NEW v \in Values, Call(p, s, v),
           Writes(s, v), Len(s) <= 5, Fits(v),
           \A off \in WideOffsets :
              \/ Has(s, off) /\ Has(s, off + 4)
              \/ Setting(off, v) = Setting(off, asked[p])
    PROVE  RegsInv'
<1>1. /\ pending' = [pending EXCEPT ![p] = s] /\ before' = [before EXCEPT ![p] = asked[p]]
      /\ asked' = [asked EXCEPT ![p] = v] /\ reg' = reg /\ table' = table
      /\ calls' = calls + 1 /\ calls < MaxCalls
  BY DEF Call
<1>2. /\ DOMAIN pending = Port /\ asked \in [Port -> Values] /\ before \in [Port -> Values]
      /\ calls \in 0 .. MaxCalls /\ MaxCalls \in Nat
  BY RegsAssumption DEF RegsInv, RegTypes
<1>3. pending'[p] = s /\ asked'[p] = v /\ before'[p] = asked[p]
  BY <1>1, <1>2
<1>4. \A q \in Port : q # p => /\ pending'[q] = pending[q] /\ asked'[q] = asked[q]
                               /\ before'[q] = before[q]
  BY <1>1, <1>2
<1>5. Halves(p)'
  <2> SUFFICES ASSUME NEW off \in WideOffsets
               PROVE  /\ reg'[p][off] =
                            Setting(off, IF Has(s, off) THEN asked[p] ELSE v) % Word
                      /\ reg'[p][off + 4] =
                            Setting(off, IF Has(s, off + 4) THEN asked[p] ELSE v) \div Word
    BY <1>3 DEF Halves
  <2>1. ~Has(pending[p], off) /\ ~Has(pending[p], off + 4)
    BY DEF Call, Settled, Has
  <2>2. /\ reg[p][off] = Setting(off, asked[p]) % Word
        /\ reg[p][off + 4] = Setting(off, asked[p]) \div Word
    BY <2>1 DEF RegsInv, Halves
  <2> QED
    BY <1>1, <2>2
<1>6. ASSUME NEW q \in Port PROVE Fits(asked[q])' /\ Halves(q)' /\ Writes(pending[q], asked[q])'
                                  /\ Len(pending'[q]) <= 5
  <2>1. CASE q = p
    BY <1>3, <1>5, <2>1 DEF Fits, Writes
  <2>2. CASE q # p
    BY <1>1, <1>4, <2>2 DEF RegsInv, RegTypes, Fits, Halves, Writes
  <2> QED
    BY <2>1, <2>2
<1>7. /\ DOMAIN pending' = Port /\ asked' \in [Port -> Values] /\ before' \in [Port -> Values]
      /\ calls' \in 0 .. MaxCalls
  BY <1>1, <1>2
<1> QED
  BY <1>1, <1>6, <1>7 DEF RegsInv, RegTypes

\* The writes of the setters.
LEMMA SingleWrite ==
    ASSUME NEW off \in Offsets, NEW n \in Nat, NEW values,
           off \notin WideOffsets, \A w \in WideOffsets : off # w + 4
    PROVE  Writes(<<Write(off, n)>>, values) /\ Len(<<Write(off, n)>>) <= 5
<1> DEFINE s == <<Write(off, n)>>
<1>1. Write(off, n) \in Request /\ Write(off, n).off = off
  BY DEF Write, Request
<1>2. Len(s) = 1 /\ s[1] = Write(off, n) /\ s \in Seq(Request)
  BY <1>1
<1> HIDE DEF s
<1>3. \A i \in 1 .. Len(s) : i = 1 /\ s[i].off = off
  BY <1>1, <1>2
<1>4. Writes(s, values) /\ Len(s) <= 5
  BY <1>2, <1>3 DEF Writes
<1> QED
  BY <1>4 DEF s

LEMMA WideWrites ==
    ASSUME NEW off \in WideOffsets, NEW n \in Nat, NEW values, Setting(off, values) = n
    PROVE  /\ Writes(Wide(off, n), values) /\ Len(Wide(off, n)) <= 5
           /\ Has(Wide(off, n), off) /\ Has(Wide(off, n), off + 4)
<1> DEFINE s == Wide(off, n)
<1>1. n % Word \in Nat /\ n \div Word \in Nat
  <2>1. Word \in Nat \ {0}
    BY Sizes
  <2>2. n \div Word \in Nat /\ n % Word \in 0 .. Word - 1
    BY ONLY <2>1, ModSplit, n \in Nat
  <2> QED
    BY <2>1, <2>2
<1>2. /\ Write(off, n % Word) \in Request /\ Write(off + 4, n \div Word) \in Request
      /\ Write(off, n % Word).off = off /\ Write(off + 4, n \div Word).off = off + 4
      /\ Write(off, n % Word).value = n % Word
      /\ Write(off + 4, n \div Word).value = n \div Word
  BY <1>1, Sizes DEF Write, Request
<1>3. /\ Len(s) = 2 /\ s[1] = Write(off, n % Word) /\ s[2] = Write(off + 4, n \div Word)
      /\ s \in Seq(Request)
  BY <1>2 DEF Wide
<1> HIDE DEF s
<1>4. \A i \in 1 .. Len(s) : i = 1 \/ i = 2
  BY <1>3
<1>5. /\ s[1].off = off /\ s[1].value = n % Word
      /\ s[2].off = off + 4 /\ s[2].value = n \div Word
  BY <1>2, <1>3
<1>6. \A w \in WideOffsets, i \in 1 .. Len(s) :
          /\ s[i].off = w => i = 1 /\ w = off
          /\ s[i].off = w + 4 => i = 2 /\ w = off
  BY <1>4, <1>5, Sizes
<1>7. \A i, j \in 1 .. Len(s) : s[i].off = s[j].off => i = j
  BY <1>4, <1>5, Sizes
<1>8. Writes(s, values)
  BY <1>3, <1>5, <1>6, <1>7 DEF Writes
<1>9. Has(s, off) /\ Has(s, off + 4) /\ Len(s) <= 5
  BY <1>3, <1>5 DEF Has
<1> QED
  BY <1>8, <1>9 DEF s

LEMMA FiveJoined ==
    ASSUME NEW x1, NEW x2, NEW x3, NEW x4, NEW x5
    PROVE  <<x1>> \o <<x2, x3>> \o <<x4, x5>> = <<x1, x2, x3, x4, x5>>
<1> DEFINE S == {x1, x2, x3, x4, x5}
<1>1. <<x1>> \in Seq(S) /\ <<x2, x3>> \in Seq(S) /\ <<x4, x5>> \in Seq(S)
  OBVIOUS
<1>2. /\ <<x1>> \o <<x2, x3>> \in Seq(S) /\ Len(<<x1>> \o <<x2, x3>>) = 3
      /\ (<<x1>> \o <<x2, x3>>)[1] = x1 /\ (<<x1>> \o <<x2, x3>>)[2] = x2
      /\ (<<x1>> \o <<x2, x3>>)[3] = x3
  BY <1>1, ConcatProperties
<1> DEFINE u == <<x1>> \o <<x2, x3>>
           v == <<x4, x5>>
           w == <<x1, x2, x3, x4, x5>>
<1>3. v[1] = x4 /\ v[2] = x5 /\ Len(v) = 2
  OBVIOUS
<1>4. /\ w \in Seq(S) /\ Len(w) = 5
      /\ w[1] = x1 /\ w[2] = x2 /\ w[3] = x3 /\ w[4] = x4 /\ w[5] = x5
  OBVIOUS
<1> HIDE DEF u, v, w, S
<1>5. /\ u \o v \in Seq(S) /\ Len(u \o v) = 5
      /\ \A i \in 1 .. 5 : (u \o v)[i] = IF i <= 3 THEN u[i] ELSE v[i - 3]
  BY <1>1, <1>2, <1>3, ConcatProperties DEF u, v
<1>6. \A i \in 1 .. 5 : (u \o v)[i] = w[i]
  BY <1>2, <1>3, <1>4, <1>5 DEF u
<1>7. u \o v = w
  BY <1>4, <1>5, <1>6, SeqEqual
<1> QED
  BY <1>7 DEF u, v, w

\* The four settings of initCU.
LEMMA InitWrites ==
    ASSUME NEW values, Setting(timeout_off, values) = DefaultTimeout
    PROVE  LET s == <<Write(resetARP_off, 1)>> \o Wide(timeout_off, DefaultTimeout)
                    \o <<Write(retranssmitions_off, DefaultRetr), Write(UDPPort_off, DefaultPort)>>
           IN  /\ Writes(s, values) /\ Len(s) <= 5
               /\ Has(s, timeout_off) /\ Has(s, timeout_off + 4)
               /\ ~Has(s, MACSubnet_off) /\ ~Has(s, MACSubnet_off + 4)
<1> DEFINE low == Write(timeout_off, DefaultTimeout % Word)
           high == Write(timeout_off + 4, DefaultTimeout \div Word)
           s == <<Write(resetARP_off, 1)>> \o Wide(timeout_off, DefaultTimeout)
                \o <<Write(retranssmitions_off, DefaultRetr), Write(UDPPort_off, DefaultPort)>>
           t == <<Write(resetARP_off, 1), low, high, Write(retranssmitions_off, DefaultRetr),
                  Write(UDPPort_off, DefaultPort)>>
<1>1. DefaultTimeout % Word \in Nat /\ DefaultTimeout \div Word \in Nat
  <2>1. Word \in Nat \ {0} /\ DefaultTimeout \in Nat
    BY Sizes, RegsAssumption
  <2>2. DefaultTimeout \div Word \in Nat /\ DefaultTimeout % Word \in 0 .. Word - 1
    BY ONLY <2>1, ModSplit
  <2> QED
    BY <2>1, <2>2
<1>2. /\ resetARP_off \in Offsets /\ timeout_off \in Offsets /\ timeout_off + 4 \in Offsets
      /\ retranssmitions_off \in Offsets /\ UDPPort_off \in Offsets
  BY DEF Offsets
<1>3. /\ Write(resetARP_off, 1) \in Request /\ low \in Request /\ high \in Request
      /\ Write(retranssmitions_off, DefaultRetr) \in Request
      /\ Write(UDPPort_off, DefaultPort) \in Request
  BY <1>1, <1>2, RegsAssumption DEF Write, Request
<1>4. s = t
  <2>1. s = <<Write(resetARP_off, 1)>> \o <<low, high>>
            \o <<Write(retranssmitions_off, DefaultRetr), Write(UDPPort_off, DefaultPort)>>
    BY DEF Wide
  <2> HIDE DEF low, high
  <2> QED
    BY <2>1, FiveJoined
<1>5. /\ t \in Seq(Request) /\ Len(t) = 5
      /\ t[1] = Write(resetARP_off, 1) /\ t[2] = low /\ t[3] = high
      /\ t[4] = Write(retranssmitions_off, DefaultRetr) /\ t[5] = Write(UDPPort_off, DefaultPort)
  BY <1>3
<1>6. /\ t[1].off = 72 /\ t[2].off = 24 /\ t[3].off = 28 /\ t[4].off = 56 /\ t[5].off = 64
      /\ t[2].value = DefaultTimeout % Word /\ t[3].value = DefaultTimeout \div Word
  BY <1>5 DEF Write, resetARP_off, timeout_off, retranssmitions_off, UDPPort_off
<1> HIDE DEF t
<1>7. \A i \in 1 .. Len(t) : i = 1 \/ i = 2 \/ i = 3 \/ i = 4 \/ i = 5
  BY <1>5
<1>8. \A i, j \in 1 .. Len(t) : t[i].off = t[j].off => i = j
  BY <1>6, <1>7
<1>9. /\ WideOffsets = {24, 44} /\ timeout_off = 24 /\ MACSubnet_off = 44
  BY DEF WideOffsets, timeout_off, MACSubnet_off
<1>10. \A w \in WideOffsets, i \in 1 .. Len(t) :
          /\ t[i].off = w => i = 2 /\ w = timeout_off
          /\ t[i].off = w + 4 => i = 3 /\ w = timeout_off
  BY <1>6, <1>7, <1>9
<1>11. Writes(t, values)
  BY <1>5, <1>6, <1>8, <1>9, <1>10 DEF Writes
<1>12. /\ Has(t, timeout_off) /\ Has(t, timeout_off + 4)
       /\ ~Has(t, MACSubnet_off) /\ ~Has(t, MACSubnet_off + 4)
  BY <1>5, <1>6, <1>7, <1>9 DEF Has
<1> HIDE DEF s
<1>13. /\ Writes(s, values) /\ Len(s) <= 5
       /\ Has(s, timeout_off) /\ Has(s, timeout_off + 4)
       /\ ~Has(s, MACSubnet_off) /\ ~Has(s, MACSubnet_off + 4)
  BY <1>4, <1>5, <1>11, <1>12
<1> QED
  BY <1>13 DEF s

\* Every setter is such a call.
LEMMA SetterStep ==
    ASSUME SettingsFit, RegsInv, NEW p \in Port, Setter(p)
    PROVE  RegsInv'
<1>1. asked[p] \in Values /\ Fits(asked[p])
  BY DEF RegsInv, RegTypes
<1>2. /\ Ids \subseteq Nat /\ Timeouts \subseteq Nat /\ IpSubnets \subseteq Nat
      /\ MacSubnets \subseteq Nat /\ DefaultTimeout \in Nat /\ DefaultRetr \in Nat
      /\ DefaultPort \in Nat
  BY RegsAssumption
<1>3. /\ WideOffsets = {24, 44} /\ timeout_off = 24 /\ MACSubnet_off = 44
      /\ localID_off = 16 /\ IPsubnet_off = 36 /\ retranssmitions_off = 56
      /\ UDPPort_off = 64 /\ resetARP_off = 72
      /\ {16, 36, 56, 64, 72} \subseteq Offsets
  BY DEF WideOffsets, timeout_off, MACSubnet_off, localID_off, IPsubnet_off,
         retranssmitions_off, UDPPort_off, resetARP_off, Offsets
<1>4. Capacity(28) = Word /\ Capacity(48) = Half
  BY DEF Capacity, MACSubnet_off, localID_off, retranssmitions_off, UDPPort_off, resetARP_off
<1>5. ASSUME NEW t \in Timeouts \cup {DefaultTimeout}
      PROVE  LET v == [asked[p] EXCEPT !.timeout = t]
             IN  /\ v \in Values /\ Fits(v) /\ Setting(timeout_off, v) = t
                 /\ Setting(MACSubnet_off, v) = Setting(MACSubnet_off, asked[p])
  <2> DEFINE v == [asked[p] EXCEPT !.timeout = t]
  <2>1. t \in Nat /\ t \div Word < Word
    BY <1>2 DEF SettingsFit
  <2>2. v \in Values /\ v.timeout = t /\ v.mac = asked[p].mac
    BY <1>1, <2>1 DEF Values
  <2>3. /\ Setting(24, v) = t /\ Setting(44, v) = Setting(44, asked[p])
    BY <2>2, <1>3 DEF Setting
  <2> HIDE DEF v
  <2>4. Fits(v)
    BY <1>1, <1>3, <1>4, <2>1, <2>3 DEF Fits
  <2> QED
    BY <1>3, <2>2, <2>3, <2>4 DEF v
<1>6. ASSUME NEW s \in MacSubnets
      PROVE  LET v == [asked[p] EXCEPT !.mac = s]
             IN  /\ v \in Values /\ Fits(v) /\ Setting(MACSubnet_off, v) = s
                 /\ Setting(timeout_off, v) = Setting(timeout_off, asked[p])
  <2> DEFINE v == [asked[p] EXCEPT !.mac = s]
  <2>1. s \in Nat /\ s \div Word < Half
    BY <1>2 DEF SettingsFit
  <2>2. v \in Values /\ v.mac = s /\ v.timeout = asked[p].timeout
    BY <1>1, <2>1 DEF Values
  <2>3. Setting(44, v) = s /\ Setting(24, v) = Setting(24, asked[p])
    BY <2>2, <1>3 DEF Setting
  <2> HIDE DEF v
  <2>4. Fits(v)
    BY <1>1, <1>3, <1>4, <2>1, <2>3 DEF Fits
  <2> QED
    BY <1>3, <2>2, <2>3, <2>4 DEF v
<1>7. ASSUME NEW off \in {16, 36, 56, 64, 72}, NEW n \in Nat, NEW v \in Values,
             v.timeout = asked[p].timeout, v.mac = asked[p].mac,
             Call(p, <<Write(off, n)>>, v)
      PROVE  RegsInv'
  <2>1. \A w \in WideOffsets : Setting(w, v) = Setting(w, asked[p])
    BY <1>7 DEF Setting
  <2>2. Fits(v)
    BY <1>1, <2>1 DEF Fits
  <2> DEFINE s == <<Write(off, n)>>
  <2>3. off \notin WideOffsets /\ \A w \in WideOffsets : off # w + 4
    BY <1>3
  <2>4. Writes(s, v) /\ Len(s) <= 5
    BY <1>3, <2>3, SingleWrite
  <2>5. Call(p, s, v)
    BY <1>7
  <2> HIDE DEF s
  <2> QED
    BY <2>1, <2>2, <2>4, <2>5, CallStep
<1>8. ASSUME NEW id \in Ids, setLocalID(p, id) PROVE RegsInv'
  <2>1. [asked[p] EXCEPT !.id = id] \in Values /\ id \in Nat
    BY <1>1, <1>2 DEF Values
  <2>2. /\ [asked[p] EXCEPT !.id = id].timeout = asked[p].timeout
        /\ [asked[p] EXCEPT !.id = id].mac = asked[p].mac
    BY <1>1 DEF Values
  <2> QED
    BY <1>3, <1>7, <1>8, <2>1, <2>2 DEF setLocalID
<1>9. ASSUME NEW n \in IpSubnets, setIPSubnet(p, n) PROVE RegsInv'
  <2>1. [asked[p] EXCEPT !.ip = n] \in Values /\ n \in Nat
    BY <1>1, <1>2 DEF Values
  <2>2. /\ [asked[p] EXCEPT !.ip = n].timeout = asked[p].timeout
        /\ [asked[p] EXCEPT !.ip = n].mac = asked[p].mac
    BY <1>1 DEF Values
  <2> QED
    BY <1>3, <1>7, <1>9, <2>1, <2>2 DEF setIPSubnet
<1>10. CASE resetARPTable(p) \/ setNretranssmitions(p, DefaultRetr) \/ setUDPPort(p, DefaultPort)
  BY <1>1, <1>2, <1>3, <1>7, <1>10 DEF resetARPTable, setNretranssmitions, setUDPPort
<1>11. ASSUME NEW t \in Timeouts, setTimeOut(p, t) PROVE RegsInv'
  <2> DEFINE v == [asked[p] EXCEPT !.timeout = t]
  <2>1. /\ v \in Values /\ Fits(v) /\ Setting(timeout_off, v) = t
        /\ Setting(MACSubnet_off, v) = Setting(MACSubnet_off, asked[p])
    BY <1>5
  <2>2. Call(p, Wide(timeout_off, t), v)
    BY <1>11 DEF setTimeOut
  <2> HIDE DEF v
  <2>3. timeout_off \in WideOffsets /\ WideOffsets = {timeout_off, MACSubnet_off} /\ t \in Nat
    BY <1>2 DEF WideOffsets
  <2>4. /\ Writes(Wide(timeout_off, t), v) /\ Len(Wide(timeout_off, t)) <= 5
        /\ Has(Wide(timeout_off, t), timeout_off) /\ Has(Wide(timeout_off, t), timeout_off + 4)
    BY <2>1, <2>3, WideWrites
  <2> QED
    BY <2>1, <2>2, <2>3, <2>4, CallStep
<1>12. ASSUME NEW n \in MacSubnets, setMACSubnet(p, n) PROVE RegsInv'
  <2> DEFINE v == [asked[p] EXCEPT !.mac = n]
  <2>1. /\ v \in Values /\ Fits(v) /\ Setting(MACSubnet_off, v) = n
        /\ Setting(timeout_off, v) = Setting(timeout_off, asked[p])
    BY <1>6
  <2>2. Call(p, Wide(MACSubnet_off, n), v)
    BY <1>12 DEF setMACSubnet
  <2> HIDE DEF v
  <2>3. MACSubnet_off \in WideOffsets /\ WideOffsets = {timeout_off, MACSubnet_off} /\ n \in Nat
    BY <1>2 DEF WideOffsets
  <2>4. /\ Writes(Wide(MACSubnet_off, n), v) /\ Len(Wide(MACSubnet_off, n)) <= 5
        /\ Has(Wide(MACSubnet_off, n), MACSubnet_off)
        /\ Has(Wide(MACSubnet_off, n), MACSubnet_off + 4)
    BY <2>1, <2>3, WideWrites
  <2> QED
    BY <2>1, <2>2, <2>3, <2>4, CallStep
<1>13. CASE initCU(p)
  <2> DEFINE v == [asked[p] EXCEPT !.timeout = DefaultTimeout]
             s == <<Write(resetARP_off, 1)>> \o Wide(timeout_off, DefaultTimeout)
                  \o <<Write(retranssmitions_off, DefaultRetr), Write(UDPPort_off, DefaultPort)>>
  <2>1. /\ v \in Values /\ Fits(v) /\ Setting(timeout_off, v) = DefaultTimeout
        /\ Setting(MACSubnet_off, v) = Setting(MACSubnet_off, asked[p])
    BY <1>5
  <2>2. Call(p, s, v)
    BY <1>13 DEF initCU
  <2> HIDE DEF v
  <2>3. WideOffsets = {timeout_off, MACSubnet_off}
    BY DEF WideOffsets
  <2>4. Writes(s, v) /\ Len(s) <= 5 /\ Has(s, timeout_off) /\ Has(s, timeout_off + 4)
    BY <2>1, InitWrites
  <2> HIDE DEF s
  <2> QED
    BY <2>1, <2>2, <2>3, <2>4, CallStep
<1> QED
  BY <1>8, <1>9, <1>10, <1>11, <1>12, <1>13 DEF Setter

-----------------------------------------------------------------------------
(* One register write: the request that is made no longer waits.           *)

LEMMA WriteStep == ASSUME RegsInv, NEW p \in Port, WriteReg(p) PROVE RegsInv'
<1> DEFINE s == pending[p]
           t == Tail(pending[p])
           w == Head(pending[p])
<1>1. s \in Seq(Request) /\ s # <<>> /\ Writes(s, asked[p]) /\ Len(s) <= 5
  BY DEF WriteReg, Settled, RegsInv, RegTypes, Writes
<1>2. /\ w = s[1] /\ w \in Request /\ t \in Seq(Request) /\ Len(t) = Len(s) - 1
      /\ Len(s) \in Nat /\ Len(s) >= 1 /\ Len(t) \in Nat
      /\ \A i \in 1 .. Len(t) : t[i] = s[i + 1]
  BY <1>1, HeadTailProperties, LenProperties
<1>3. w.off \in Offsets /\ w.value \in Nat
  BY <1>2 DEF Request
<1>4. /\ pending' = [pending EXCEPT ![p] = t] /\ asked' = asked /\ before' = before
      /\ calls' = calls /\ reg' = [reg EXCEPT ![p][w.off] = Stored(w.off, w.value)]
      /\ \/ table' = [table EXCEPT ![p] = {}]
         \/ table' = [table EXCEPT ![p] = table[p]]
  BY DEF WriteReg
<1>5. /\ reg \in [Port -> [Offsets -> Nat]] /\ DOMAIN pending = Port
      /\ table \in [Port -> SUBSET Peers] /\ asked[p] \in Values /\ before[p] \in Values
      /\ \A off \in Offsets : reg[p][off] \in Nat /\ reg[p][off] < Capacity(off)
  BY DEF RegsInv, RegTypes
<1>6. pending'[p] = t /\ \A q \in Port : q # p => pending'[q] = pending[q] /\ reg'[q] = reg[q]
  BY <1>4, <1>5
<1>7. /\ reg'[p][w.off] = Stored(w.off, w.value)
      /\ \A off \in Offsets : off # w.off => reg'[p][off] = reg[p][off]
      /\ reg' \in [Port -> [Offsets -> Nat]]
  <2>1. Stored(w.off, w.value) \in Nat
    BY <1>3, StoredTypes
  <2> HIDE DEF w
  <2> QED
    BY <1>3, <1>4, <1>5, <2>1
<1>8. \A off \in Offsets : reg'[p][off] < Capacity(off)
  BY <1>3, <1>5, <1>7, StoredTypes
<1>9. \A off \in Offsets : Has(t, off) <=> Has(s, off) /\ w.off # off
  <2> SUFFICES ASSUME NEW off \in Offsets PROVE Has(t, off) <=> Has(s, off) /\ w.off # off
    OBVIOUS
  <2> HIDE DEF s, t, w
  <2>1. ASSUME Has(t, off) PROVE Has(s, off) /\ w.off # off
    <3>1. PICK i \in 1 .. Len(t) : t[i].off = off
      BY <2>1 DEF Has
    <3>2. i + 1 \in 1 .. Len(s) /\ s[i + 1].off = off /\ 1 \in 1 .. Len(s) /\ i + 1 # 1
      BY <1>2, <3>1
    <3> QED
      BY <1>1, <1>2, <3>2 DEF Has, Writes
  <2>2. ASSUME Has(s, off), w.off # off PROVE Has(t, off)
    <3>1. PICK i \in 1 .. Len(s) : s[i].off = off
      BY <2>2 DEF Has
    <3>2. i # 1
      BY <1>2, <2>2, <3>1
    <3>3. i - 1 \in 1 .. Len(t) /\ t[i - 1] = s[(i - 1) + 1] /\ (i - 1) + 1 = i
      BY <1>2, <3>2
    <3> QED
      BY <3>1, <3>3 DEF Has
  <2> QED
    BY <2>1, <2>2
<1>10. Writes(t, asked[p]) /\ Len(t) <= 5
  <2> HIDE DEF s, t, w
  <2>1. \A i \in 1 .. Len(t) : i + 1 \in 1 .. Len(s) /\ t[i] = s[i + 1]
    BY <1>2
  <2>2. \A i, j \in 1 .. Len(t) : t[i].off = t[j].off => i = j
    BY <1>1, <2>1 DEF Writes
  <2>3. ASSUME NEW off \in WideOffsets, NEW i \in 1 .. Len(t)
        PROVE  /\ t[i].off = off => /\ t[i].value = Setting(off, asked[p]) % Word
                                    /\ i + 1 \in 1 .. Len(t) /\ t[i + 1].off = off + 4
               /\ t[i].off = off + 4 => t[i].value = Setting(off, asked[p]) \div Word
    <3>1. /\ s[i + 1].off = off => /\ s[i + 1].value = Setting(off, asked[p]) % Word
                                   /\ (i + 1) + 1 \in 1 .. Len(s)
                                   /\ s[(i + 1) + 1].off = off + 4
          /\ s[i + 1].off = off + 4 => s[i + 1].value = Setting(off, asked[p]) \div Word
      BY <1>1, <2>1 DEF Writes
    <3>2. (i + 1) + 1 \in 1 .. Len(s) => i + 1 \in 1 .. Len(t)
      BY <1>2
    <3> QED
      BY <2>1, <3>1, <3>2
  <2> QED
    BY <1>1, <1>2, <2>2, <2>3 DEF Writes
<1>11. ASSUME NEW off \in WideOffsets
       PROVE  /\ w.off = off => Stored(w.off, w.value) = Setting(off, asked[p]) % Word
              /\ w.off = off + 4 => Stored(w.off, w.value) = Setting(off, asked[p]) \div Word
  <2> HIDE DEF s, t, w
  <2>1. /\ w.off = off => w.value = Setting(off, asked[p]) % Word
        /\ w.off = off + 4 => w.value = Setting(off, asked[p]) \div Word
    BY <1>1, <1>2 DEF Writes
  <2>2. Setting(off, asked[p]) \in Nat
    BY <1>5 DEF Setting, Values
  <2>3. Word \in Nat \ {0} /\ Capacity(off) = Word
    BY Sizes
  <2>4. /\ Setting(off, asked[p]) % Word < Capacity(off)
        /\ Setting(off, asked[p]) \div Word < Capacity(off + 4)
    <3>1. Setting(off, asked[p]) % Word \in 0 .. Word - 1
      BY <2>2, <2>3, ModSplit
    <3>2. Fits(asked[p])
      BY DEF RegsInv
    <3> QED
      BY <2>3, <3>1, <3>2 DEF Fits
  <2> QED
    BY <1>3, <2>1, <2>4, StoredTypes
<1>12. Halves(p)'
  <2> SUFFICES ASSUME NEW off \in WideOffsets
               PROVE  /\ reg'[p][off] =
                            Setting(off, IF Has(t, off) THEN before[p] ELSE asked[p]) % Word
                      /\ reg'[p][off + 4] =
                            Setting(off, IF Has(t, off + 4) THEN before[p] ELSE asked[p]) \div Word
    BY <1>4, <1>6 DEF Halves
  <2>1. /\ reg[p][off] = Setting(off, IF Has(s, off) THEN before[p] ELSE asked[p]) % Word
        /\ reg[p][off + 4] =
              Setting(off, IF Has(s, off + 4) THEN before[p] ELSE asked[p]) \div Word
    BY DEF RegsInv, Halves
  <2>2. off \in Offsets /\ off + 4 \in Offsets
    BY Sizes
  <2> HIDE DEF s, t, w
  <2>3. reg'[p][off] = Setting(off, IF Has(t, off) THEN before[p] ELSE asked[p]) % Word
    BY <1>7, <1>9, <1>11, <2>1, <2>2
  <2>4. reg'[p][off + 4] =
           Setting(off, IF Has(t, off + 4) THEN before[p] ELSE asked[p]) \div Word
    BY <1>7, <1>9, <1>11, <2>1, <2>2
  <2> QED
    BY <2>3, <2>4
<1>13. ASSUME NEW q \in Port PROVE /\ Fits(asked[q])' /\ Halves(q)'
                                   /\ Writes(pending[q], asked[q])' /\ Len(pending'[q]) <= 5
                                   /\ \A off \in Offsets : reg'[q][off] < Capacity(off)
  <2>1. CASE q = p
    <3>1. pending'[q] = t /\ asked'[q] = asked[p] /\ before'[q] = before[p]
      BY <1>4, <1>6, <2>1
    <3>2. Fits(asked[p])
      BY DEF RegsInv
    <3>3. Fits(asked[q])'
      BY <3>1, <3>2 DEF Fits
    <3>4. Writes(pending[q], asked[q])' /\ Len(pending'[q]) <= 5
      BY <1>10, <3>1 DEF Writes
    <3> QED
      BY <1>8, <1>12, <2>1, <3>3, <3>4
  <2>2. CASE q # p
    BY <1>4, <1>6, <2>2 DEF RegsInv, RegTypes, Fits, Halves, Writes
  <2> QED
    BY <2>1, <2>2
<1>14. /\ DOMAIN pending' = Port /\ table' \in [Port -> SUBSET Peers]
       /\ asked' \in [Port -> Values] /\ before' \in [Port -> Values]
       /\ calls' \in 0 .. MaxCalls
  <2>1. DOMAIN pending' = Port
    BY <1>4, <1>5
  <2>2. table' \in [Port -> SUBSET Peers]
    BY <1>4, <1>5
  <2> QED
    BY <1>4, <2>1, <2>2 DEF RegsInv, RegTypes
<1> QED
  BY <1>7, <1>13, <1>14 DEF RegsInv, RegTypes

LEMMA RegsStep == ASSUME SettingsFit, RegsInv, [RegsNext]_regsVars PROVE RegsInv'
<1>1. ASSUME NEW p \in Port, NEW id \in Peers, Learn(p, id) PROVE RegsInv'
  <2>1. table' \in [Port -> SUBSET Peers] /\ UNCHANGED <<reg, pending, asked, before, calls>>
    BY <1>1 DEF Learn, RegsInv, RegTypes
  <2> QED
    BY <2>1 DEF RegsInv, RegTypes, Fits, Halves, Writes
<1>2. CASE UNCHANGED regsVars
  BY <1>2 DEF regsVars, RegsInv, RegTypes, Fits, Halves, Writes
<1> QED
  BY <1>1, <1>2, SetterStep, WriteStep DEF RegsNext

-----------------------------------------------------------------------------
LEMMA DriverParts ==
    /\ DriverInit => RegsInit /\ BuffersInit
    /\ [DriverNext]_driverVars => [RegsNext]_regsVars /\ [BuffersNext]_bufferVars
  BY DEF DriverInit, DriverNext, driverVars, regsVars, bufferVars

\* The two handles share no state: a driver that uses both shows of each a behaviour
\* of that handle alone (class HiveNet, class KERNEL).
THEOREM HandlesApart == DriverSpec => RegsSpec /\ BuffersSpec
  BY DriverParts, PTL DEF DriverSpec, RegsSpec, BuffersSpec

LEMMA RegsInvHolds == ASSUME SettingsFit PROVE DriverSpec => []RegsInv
<1>1. RegsInv /\ [DriverNext]_driverVars => RegsInv'
  BY RegsStep, DriverParts
<1> QED
  BY <1>1, RegsInvInit, DriverParts, PTL DEF DriverSpec

\* Every register holds what fits it, and no more than five writes wait.
THEOREM RegistersTyped == ASSUME SettingsFit PROVE DriverSpec => []RegsTypeOK
<1>1. RegsInv => RegsTypeOK
  <2> SUFFICES ASSUME RegsInv PROVE RegsTypeOK
    OBVIOUS
  <2>1. \A p \in Port : reg[p] \in [Offsets -> Nat]
    BY DEF RegsInv, RegTypes
  <2> QED
    BY <2>1 DEF RegsInv, RegTypes, RegsTypeOK
<1> QED
  BY <1>1, RegsInvHolds, PTL

\* What the two registers of a wide setting hold together.
LEMMA HalvesTorn ==
    ASSUME RegsInv, NEW p \in Port, NEW off \in WideOffsets
    PROVE  NotTorn(p, reg[p][off + 4] * Word + reg[p][off],
                   Setting(off, before[p]), Setting(off, asked[p]))
<1> DEFINE old == Setting(off, before[p])
           new == Setting(off, asked[p])
           lo == reg[p][off]
           hi == reg[p][off + 4]
<1>1. old \in Nat /\ new \in Nat
  BY DEF Setting, Values, RegsInv, RegTypes
<1>2. Word \in Nat \ {0}
  BY Sizes
<1>3. old = (old \div Word) * Word + (old % Word) /\ new = (new \div Word) * Word + (new % Word)
  BY ONLY <1>1, <1>2, ModSplit
<1>4. /\ lo = IF Has(pending[p], off) THEN old % Word ELSE new % Word
      /\ hi = IF Has(pending[p], off + 4) THEN old \div Word ELSE new \div Word
  BY DEF RegsInv, Halves
<1>5. Has(pending[p], off) => Has(pending[p], off + 4)
  BY DEF RegsInv, RegTypes, Writes, Has
<1>6. Settled(p) => ~Has(pending[p], off) /\ ~Has(pending[p], off + 4)
  BY DEF Settled, Has
<1> HIDE DEF old, new, lo, hi
<1>7. NotTorn(p, hi * Word + lo, old, new)
  BY <1>3, <1>4, <1>5, <1>6 DEF NotTorn
<1> QED
  BY <1>7 DEF old, new, lo, hi

\* Of a setting made by two writes the engine uses the old value or the new one,
\* unless their high halves differ, when it may use old high and new low half
\* (setTimeOut, setMACSubnet).
THEOREM SettingsTorn == ASSUME SettingsFit PROVE DriverSpec => []TornOnlyAcrossHalves
<1>1. RegsInv => TornOnlyAcrossHalves
  <2>1. timeout_off \in WideOffsets /\ MACSubnet_off \in WideOffsets
    BY DEF WideOffsets
  <2>2. \A v : Setting(timeout_off, v) = v.timeout /\ Setting(MACSubnet_off, v) = v.mac
    BY DEF Setting, timeout_off, MACSubnet_off
  <2> SUFFICES ASSUME RegsInv, NEW p \in Port
               PROVE  /\ NotTorn(p, getTimeOut(reg[p]), before[p].timeout, asked[p].timeout)
                      /\ NotTorn(p, reg[p][MACSubnet_off + 4] * Word + reg[p][MACSubnet_off],
                                 before[p].mac, asked[p].mac)
    BY DEF TornOnlyAcrossHalves
  <2> QED
    BY <2>1, <2>2, HalvesTorn DEF getTimeOut
<1> QED
  BY <1>1, RegsInvHolds, PTL

\* The addresses of the host and of the engine, from the same registers.
LEMMA AddressesOf ==
    ASSUME RegsInv, NEW p \in Port
    PROVE  /\ getMACAddress(reg[p]) = EngineMAC(reg[p])
           /\ getIPAddress(reg[p]) = EngineIP(reg[p])
<1> DEFINE r == reg[p]
           mac == r[MACSubnet_off + 4] * Word + r[MACSubnet_off]
           host == (Swapped(r[IPsubnet_off]) + r[localID_off]) % Word
<1>1. \A off \in Offsets : r[off] \in Nat
  BY DEF RegsInv, RegTypes
<1>2. /\ MACSubnet_off + 4 \in Offsets /\ MACSubnet_off \in Offsets
      /\ IPsubnet_off \in Offsets /\ localID_off \in Offsets
  BY DEF Offsets
<1>3. getMACAddress(r) = EngineMAC(r)
  <2>1. mac \in Nat /\ IdSpan \in Nat \ {0}
    <3>1. Word \in Nat /\ IdSpan \in Nat \ {0}
      BY Sizes
    <3> QED
      BY <1>1, <1>2, <3>1
  <2> HIDE DEF mac, r
  <2>2. /\ mac = (mac \div IdSpan) * IdSpan + (mac % IdSpan)
        /\ mac \div IdSpan \in Nat /\ mac % IdSpan \in Nat
    BY ONLY <2>1, ModSplit
  <2>3. Masked(mac) = (mac \div IdSpan) * IdSpan
    BY <2>1, <2>2 DEF Masked
  <2> QED
    BY <2>3 DEF getMACAddress, EngineMAC, mac
<1>4. \A w \in Nat : /\ ByteOf(w, 0) = w % Byte /\ ByteOf(w, 1) = (w \div Byte) % Byte
                      /\ ByteOf(w, 2) = (w \div Half) % Byte
                      /\ ByteOf(w, 3) = (w \div (Byte * Half)) % Byte
  <2>1. \A w \in Nat : w \div 1 = w
    OBVIOUS
  <2> QED
    BY <2>1 DEF ByteOf
<1>5. \A w \in Nat : Swapped(w) = Joined(ByteOf(w, 0), ByteOf(w, 1), ByteOf(w, 2), ByteOf(w, 3))
  BY <1>4 DEF Swapped, Joined
<1>6. r[IPsubnet_off] \in Nat
  BY <1>1, <1>2
<1>7. host \in Nat
  <2>1. \A w \in Nat : w % Byte \in Nat /\ w \div Byte \in Nat /\ w \div Half \in Nat
                       /\ w \div (Byte * Half) \in Nat
    <3>1. Byte \in Nat \ {0} /\ Half \in Nat \ {0} /\ Byte * Half \in Nat \ {0}
      BY Sizes
    <3> QED
      BY <3>1
  <2>2. Byte * Half \in Nat /\ Byte \in Nat /\ Half \in Nat /\ Word \in Nat \ {0}
    BY Sizes
  <2>3. \A b0, b1, b2, b3 \in Nat : b0 * Byte * Half + b1 * Half + b2 * Byte + b3 \in Nat
    BY <2>2
  <2>4. Swapped(r[IPsubnet_off]) \in Nat
    <3> DEFINE w == r[IPsubnet_off]
    <3>1. /\ w % Byte \in Nat /\ (w \div Byte) % Byte \in Nat
          /\ (w \div Half) % Byte \in Nat /\ (w \div (Byte * Half)) % Byte \in Nat
      BY <1>6, <2>1
    <3> HIDE DEF w
    <3>2. Swapped(w) \in Nat
      BY <2>3, <3>1 DEF Swapped
    <3> QED
      BY <3>2 DEF w
  <2> QED
    BY <1>1, <1>2, <2>2, <2>4
<1>8. getIPAddress(r) = EngineIP(r)
  <2>1. getIPAddress(r) = Swapped(host)
    BY DEF getIPAddress
  <2>2. Swapped(host) =
           Joined(ByteOf(host, 0), ByteOf(host, 1), ByteOf(host, 2), ByteOf(host, 3))
    BY <1>5, <1>7
  <2>3. EngineIP(r) =
           Joined(ByteOf(host, 0), ByteOf(host, 1), ByteOf(host, 2), ByteOf(host, 3))
    BY <1>5, <1>6 DEF EngineIP
  <2> QED
    BY <2>1, <2>2, <2>3
<1> QED
  BY <1>3, <1>8

\* The addresses the host computes are those the engine sends with, at every moment
\* and for every byte order of the subnet (getMACAddress, getIPAddress).
THEOREM AddressesAgree == ASSUME SettingsFit PROVE DriverSpec => []GettersAgree
<1>1. RegsInv => GettersAgree
  BY AddressesOf DEF GettersAgree
<1> QED
  BY <1>1, RegsInvHolds, PTL

-----------------------------------------------------------------------------
(* Addresses of two ports.                                                 *)

LEMMA DivUnique ==
    ASSUME NEW m \in Nat \ {0}, NEW q \in Int, NEW s \in 0 .. m - 1
    PROVE  (q * m + s) \div m = q
OBVIOUS

\* Dividing twice.
LEMMA DivTwice ==
    ASSUME NEW a \in Nat \ {0}, NEW b \in Nat \ {0}, NEW x \in Nat
    PROVE  (x \div a) \div b = x \div (a * b)
<1> DEFINE m == a * b
           y == x \div a
           q == y \div b
           s == (y % b) * a + (x % a)
<1>1. y \in Nat /\ x % a \in 0 .. a - 1 /\ x = y * a + (x % a)
  BY ONLY a \in Nat \ {0}, x \in Nat, ModSplit
<1>2. q \in Nat /\ y % b \in 0 .. b - 1 /\ y = q * b + (y % b)
  <2> HIDE DEF y
  <2> QED
    BY ONLY <1>1, b \in Nat \ {0}, ModSplit
<1>3. m \in Nat \ {0}
  OBVIOUS
<1>4. \A i \in 0 .. b - 1, j \in 0 .. a - 1 : i * a + j \in 0 .. m - 1
  <2> SUFFICES ASSUME NEW i \in 0 .. b - 1, NEW j \in 0 .. a - 1 PROVE i * a + j \in 0 .. m - 1
    OBVIOUS
  <2>1. PICK k \in Nat : b = i + 1 + k
    <3>1. b - (i + 1) \in Nat /\ b = i + 1 + (b - (i + 1))
      OBVIOUS
    <3> QED
      BY <3>1
  <2>2. a * b = (i + 1) * a + k * a
    BY <2>1
  <2>3. k * a \in Nat /\ (i + 1) * a = i * a + a /\ i * a \in Nat
    OBVIOUS
  <2> QED
    BY <2>2, <2>3
<1>5. s \in 0 .. m - 1
  BY <1>1, <1>2, <1>4
<1>6. x = q * m + s
  <2> DEFINE c == y % b
             d == x % a
  <2>1. c \in Nat /\ d \in Nat /\ y = q * b + c /\ x = y * a + d /\ q \in Nat
    BY <1>1, <1>2
  <2> HIDE DEF c, d, q, y
  <2>2. x = q * (a * b) + (c * a + d)
    BY ONLY <2>1, a \in Nat, b \in Nat
  <2> QED
    BY <2>2 DEF c, d
<1> HIDE DEF m, q, s
<1>7. (q * m + s) \div m = q
  BY ONLY <1>2, <1>3, <1>5, DivUnique
<1> QED
  BY <1>6, <1>7 DEF m, q

\* A word and its four bytes.
LEMMA BytesOf ==
    ASSUME NEW w \in 0 .. Word - 1
    PROVE  LET b0 == w % Byte
               b1 == (w \div Byte) % Byte
               b2 == (w \div Half) % Byte
               b3 == (w \div (Byte * Half)) % Byte
           IN  /\ {b0, b1, b2, b3} \subseteq 0 .. Byte - 1
               /\ w = ((b3 * Byte + b2) * Byte + b1) * Byte + b0
               /\ Swapped(w) = ((b0 * Byte + b1) * Byte + b2) * Byte + b3
<1> DEFINE x1 == w \div Byte
           x2 == w \div Half
           x3 == w \div (Byte * Half)
<1>1. /\ Byte \in Nat \ {0} /\ Half \in Nat \ {0} /\ Word \in Nat \ {0} /\ w \in Nat
      /\ Half = Byte * Byte /\ Word = Byte * Half * Byte /\ Byte * Half \in Nat \ {0}
      /\ Half * Byte = Byte * Half
  <2>1. Byte \in Nat \ {0} /\ Half \in Nat \ {0} /\ Word \in Nat \ {0} /\ Half = Byte * Byte
    BY Sizes DEF Half
  <2>2. w \in Nat
    BY <2>1
  <2>3. Word = Byte * Half * Byte
    BY <2>1 DEF Word, Half
  <2>4. Byte * Half \in Nat \ {0} /\ Half * Byte = Byte * Half
    BY <2>1
  <2> QED
    BY <2>1, <2>2, <2>3, <2>4
<1>2. x1 \in Nat /\ w % Byte \in 0 .. Byte - 1 /\ w = x1 * Byte + (w % Byte)
  BY ONLY <1>1, ModSplit
<1>3. x2 = x1 \div Byte /\ x3 = x2 \div Byte
  <2>1. x1 \div Byte = w \div (Byte * Byte)
    BY ONLY <1>1, DivTwice
  <2>2. x2 \div Byte = w \div (Half * Byte)
    BY ONLY <1>1, DivTwice
  <2> QED
    BY <1>1, <2>1, <2>2
<1> HIDE DEF x1
<1>4. x2 \in Nat /\ x1 % Byte \in 0 .. Byte - 1 /\ x1 = x2 * Byte + (x1 % Byte)
  BY ONLY <1>1, <1>2, <1>3, ModSplit
<1> HIDE DEF x2
<1>5. x3 \in Nat /\ x2 % Byte \in 0 .. Byte - 1 /\ x2 = x3 * Byte + (x2 % Byte)
  BY ONLY <1>1, <1>3, <1>4, ModSplit
<1>6. x3 % Byte = x3 /\ x3 \in 0 .. Byte - 1
  <2> DEFINE m == Byte * Half
  <2>1. m \in Nat \ {0} /\ w \in 0 .. m * Byte - 1
    BY <1>1
  <2>2. x3 = w \div m
    OBVIOUS
  <2> HIDE DEF m, x3
  <2>3. w % m \in 0 .. m - 1 /\ w = x3 * m + (w % m) /\ x3 \in Nat
    BY <2>1, <2>2, ModSplit
  <2>4. ~ (x3 >= Byte)
    <3> SUFFICES ASSUME x3 >= Byte PROVE FALSE
      OBVIOUS
    <3>1. PICK k \in Nat : x3 = Byte + k
      <4>1. x3 - Byte \in Nat /\ x3 = Byte + (x3 - Byte)
        BY <1>1, <2>3
      <4> QED
        BY <4>1
    <3>2. x3 * m = m * Byte + k * m /\ k * m \in Nat /\ m * Byte \in Nat
      BY ONLY <3>1, <2>1, <1>1
    <3> QED
      BY <2>1, <2>3, <3>2
  <2>5. x3 \in 0 .. Byte - 1 /\ 0 * Byte + x3 = x3
    BY <1>1, <2>3, <2>4
  <2> QED
    BY <1>1, <2>5, ModUnique
<1> DEFINE b0 == w % Byte
           b1 == x1 % Byte
           b2 == x2 % Byte
           b3 == x3 % Byte
<1>7. Swapped(w) = b0 * Byte * Half + b1 * Half + b2 * Byte + b3
  BY DEF Swapped, x1, x2
<1>8. b0 * Byte * Half + b1 * Half + b2 * Byte + b3 = ((b0 * Byte + b1) * Byte + b2) * Byte + b3
  <2>1. b0 \in Nat /\ b1 \in Nat /\ b2 \in Nat /\ b3 \in Nat
    BY <1>1, <1>2, <1>4, <1>5, <1>6
  <2> HIDE DEF b0, b1, b2, b3
  <2> QED
    BY ONLY <1>1, <2>1
<1>9. w = ((b3 * Byte + b2) * Byte + b1) * Byte + b0
  BY <1>2, <1>4, <1>5, <1>6
<1>10. {b0, b1, b2, b3} \subseteq 0 .. Byte - 1
  BY <1>2, <1>4, <1>5, <1>6
<1> QED
  BY <1>7, <1>8, <1>9, <1>10 DEF x1, x2

\* Equal sums of a multiple and a remainder have equal parts.
LEMMA SameParts ==
    ASSUME NEW m \in Nat \ {0}, NEW q \in Nat, NEW r \in Nat,
           NEW i \in 0 .. m - 1, NEW j \in 0 .. m - 1, q * m + i = r * m + j
    PROVE  q = r /\ i = j
  BY ModUnique, DivUnique

\* Swapping the bytes loses nothing.
LEMMA SwapApart ==
    ASSUME NEW v \in 0 .. Word - 1, NEW w \in 0 .. Word - 1, Swapped(v) = Swapped(w)
    PROVE  v = w
<1>1. Byte \in Nat \ {0}
  BY Sizes
<1>2. PICK a0, a1, a2, a3 \in 0 .. Byte - 1 :
           /\ v = ((a3 * Byte + a2) * Byte + a1) * Byte + a0
           /\ Swapped(v) = ((a0 * Byte + a1) * Byte + a2) * Byte + a3
  BY BytesOf
<1>3. PICK b0, b1, b2, b3 \in 0 .. Byte - 1 :
           /\ w = ((b3 * Byte + b2) * Byte + b1) * Byte + b0
           /\ Swapped(w) = ((b0 * Byte + b1) * Byte + b2) * Byte + b3
  BY BytesOf
<1> DEFINE x1 == a0 * Byte + a1
           y1 == b0 * Byte + b1
           x2 == x1 * Byte + a2
           y2 == y1 * Byte + b2
<1>4. x1 \in Nat /\ y1 \in Nat
  BY <1>1
<1>5. x2 \in Nat /\ y2 \in Nat
  <2> HIDE DEF x1, y1
  <2> QED
    BY <1>1, <1>4
<1>6. x2 * Byte + a3 = y2 * Byte + b3
  BY <1>2, <1>3
<1>7. x2 = y2 /\ a3 = b3
  <2> HIDE DEF x2, y2
  <2> QED
    BY ONLY <1>1, <1>5, <1>6, SameParts, a3 \in 0 .. Byte - 1, b3 \in 0 .. Byte - 1
<1>8. x1 = y1 /\ a2 = b2
  <2>1. x1 * Byte + a2 = y1 * Byte + b2
    BY <1>7
  <2> HIDE DEF x1, y1
  <2> QED
    BY ONLY <1>1, <1>4, <2>1, SameParts, a2 \in 0 .. Byte - 1, b2 \in 0 .. Byte - 1
<1>9. a0 = b0 /\ a1 = b1
  BY ONLY <1>1, <1>8, SameParts, a0 \in 0 .. Byte - 1, b0 \in 0 .. Byte - 1,
          a1 \in 0 .. Byte - 1, b1 \in 0 .. Byte - 1
<1> QED
  BY <1>2, <1>3, <1>7, <1>8, <1>9

\* The id register: what the last setLocalID asked for, unless its write still waits.
IdKept ==
    \A p \in Port :
        /\ \A i \in 1 .. Len(pending[p]) :
              pending[p][i].off = localID_off => pending[p][i].value = asked[p].id
        /\ ~Has(pending[p], localID_off) => reg[p][localID_off] = Stored(localID_off, asked[p].id)

LEMMA IdKeptInit == RegsInit => IdKept
<1> SUFFICES ASSUME RegsInit, NEW p \in Port
             PROVE  /\ \A i \in 1 .. Len(pending[p]) :
                          pending[p][i].off = localID_off => pending[p][i].value = asked[p].id
                    /\ reg[p][localID_off] = Stored(localID_off, asked[p].id)
  BY DEF IdKept
<1>1. pending[p] = <<>> /\ asked[p].id = 0 /\ reg[p][localID_off] = 0
  BY DEF RegsInit, NoValues, Offsets
<1>2. 0 < Capacity(localID_off) /\ localID_off \in Offsets
  BY Sizes DEF Offsets
<1> QED
  BY <1>1, <1>2, StoredTypes

\* A call sets the id with one write of it, or leaves it.
LEMMA CallKeepsId ==
    ASSUME RegsInv, IdKept, NEW p \in Port, NEW s, NEW v, Call(p, s, v),
           \A i \in 1 .. Len(s) : s[i].off = localID_off => s[i].value = v.id,
           Has(s, localID_off) \/ v.id = asked[p].id
    PROVE  IdKept'
<1>1. /\ pending'[p] = s /\ asked'[p] = v /\ reg' = reg /\ pending[p] = <<>>
      /\ \A q \in Port : q # p => pending'[q] = pending[q] /\ asked'[q] = asked[q]
  BY DEF Call, Settled, RegsInv, RegTypes
<1>2. reg[p][localID_off] = Stored(localID_off, asked[p].id)
  BY <1>1 DEF IdKept, Has
<1> SUFFICES ASSUME NEW q \in Port
             PROVE  /\ \A i \in 1 .. Len(pending'[q]) :
                          pending'[q][i].off = localID_off => pending'[q][i].value = asked'[q].id
                    /\ ~Has(pending'[q], localID_off)
                          => reg'[q][localID_off] = Stored(localID_off, asked'[q].id)
  BY DEF IdKept, Has, Stored, Capacity
<1>3. CASE q = p
  BY <1>1, <1>2, <1>3
<1>4. CASE q # p
  BY <1>1, <1>4 DEF IdKept
<1> QED
  BY <1>3, <1>4

LEMMA SetterKeepsId ==
    ASSUME RegsInv, IdKept, NEW p \in Port, Setter(p) PROVE IdKept'
<1>1. /\ timeout_off = 24 /\ MACSubnet_off = 44 /\ localID_off = 16 /\ IPsubnet_off = 36
      /\ retranssmitions_off = 56 /\ UDPPort_off = 64 /\ resetARP_off = 72
  BY DEF timeout_off, MACSubnet_off, localID_off, IPsubnet_off, retranssmitions_off,
         UDPPort_off, resetARP_off
<1>2. asked[p] \in Values
  BY DEF RegsInv, RegTypes
<1>3. ASSUME NEW off, off # 16, NEW n, NEW v, v.id = asked[p].id, Call(p, <<Write(off, n)>>, v)
      PROVE  IdKept'
  <2>1. \A i \in 1 .. Len(<<Write(off, n)>>) : <<Write(off, n)>>[i].off # localID_off
    BY <1>1, <1>3 DEF Write
  <2> QED
    BY <1>3, <2>1, CallKeepsId
<1>4. ASSUME NEW off \in {24, 44}, NEW n, NEW v, v.id = asked[p].id, Call(p, Wide(off, n), v)
      PROVE  IdKept'
  <2>1. \A i \in 1 .. Len(Wide(off, n)) : Wide(off, n)[i].off # localID_off
    BY <1>1, <1>4 DEF Wide, Write
  <2> QED
    BY <1>4, <2>1, CallKeepsId
<1>5. ASSUME NEW id \in Ids, setLocalID(p, id) PROVE IdKept'
  <2> DEFINE s == <<Write(localID_off, id)>>
             v == [asked[p] EXCEPT !.id = id]
  <2>1. Call(p, s, v)
    BY <1>5 DEF setLocalID
  <2>2. v.id = id
    BY <1>2 DEF Values
  <2>3. /\ \A i \in 1 .. Len(s) : s[i].value = id
        /\ 1 \in 1 .. Len(s) /\ s[1].off = localID_off
    BY DEF Write
  <2> HIDE DEF s, v
  <2>4. Has(s, localID_off)
    BY <2>3 DEF Has
  <2> QED
    BY <2>1, <2>2, <2>3, <2>4, CallKeepsId
<1>6. ASSUME NEW t, setTimeOut(p, t) PROVE IdKept'
  <2>1. [asked[p] EXCEPT !.timeout = t].id = asked[p].id
    BY <1>2 DEF Values
  <2> QED
    BY <1>1, <1>4, <1>6, <2>1 DEF setTimeOut
<1>7. ASSUME NEW t, setMACSubnet(p, t) PROVE IdKept'
  <2>1. [asked[p] EXCEPT !.mac = t].id = asked[p].id
    BY <1>2 DEF Values
  <2> QED
    BY <1>1, <1>4, <1>7, <2>1 DEF setMACSubnet
<1>8. ASSUME NEW t, setIPSubnet(p, t) PROVE IdKept'
  <2>1. [asked[p] EXCEPT !.ip = t].id = asked[p].id
    BY <1>2 DEF Values
  <2>2. IPsubnet_off # 16
    BY <1>1
  <2> QED
    BY <1>3, <1>8, <2>1, <2>2 DEF setIPSubnet
<1>9. CASE resetARPTable(p) \/ setNretranssmitions(p, DefaultRetr) \/ setUDPPort(p, DefaultPort)
  BY <1>1, <1>3, <1>9 DEF resetARPTable, setNretranssmitions, setUDPPort
<1>10. CASE initCU(p)
  <2> DEFINE s == <<Write(resetARP_off, 1)>> \o Wide(timeout_off, DefaultTimeout)
                  \o <<Write(retranssmitions_off, DefaultRetr), Write(UDPPort_off, DefaultPort)>>
             v == [asked[p] EXCEPT !.timeout = DefaultTimeout]
  <2>1. Call(p, s, v)
    BY <1>10 DEF initCU
  <2>2. v.id = asked[p].id
    BY <1>2 DEF Values
  <2>3. s = <<Write(resetARP_off, 1), Write(timeout_off, DefaultTimeout % Word),
              Write(timeout_off + 4, DefaultTimeout \div Word),
              Write(retranssmitions_off, DefaultRetr), Write(UDPPort_off, DefaultPort)>>
    BY FiveJoined DEF Wide
  <2> HIDE DEF s, v
  <2>4. \A i \in 1 .. Len(s) : s[i].off # localID_off
    <3>1. Len(s) = 5
      BY <2>3
    <3>2. /\ s[1].off = 72 /\ s[2].off = 24 /\ s[3].off = 28 /\ s[4].off = 56 /\ s[5].off = 64
      BY <1>1, <2>3 DEF Write
    <3> QED
      BY <1>1, <3>1, <3>2
  <2> QED
    BY <2>1, <2>2, <2>4, CallKeepsId
<1> QED
  BY <1>5, <1>6, <1>7, <1>8, <1>9, <1>10 DEF Setter

\* The write of the id is the only one to its register.
LEMMA WriteKeepsId ==
    ASSUME RegsInv, IdKept, NEW p \in Port, WriteReg(p) PROVE IdKept'
<1> DEFINE s == pending[p]
           t == Tail(pending[p])
           w == Head(pending[p])
<1>1. s \in Seq(Request) /\ s # <<>> /\ Writes(s, asked[p])
  BY DEF WriteReg, Settled, RegsInv, RegTypes, Writes
<1>2. /\ w = s[1] /\ w \in Request /\ Len(t) = Len(s) - 1 /\ Len(s) \in Nat /\ Len(s) >= 1
      /\ \A i \in 1 .. Len(t) : t[i] = s[i + 1]
  BY <1>1, HeadTailProperties, LenProperties
<1>3. w.off \in Offsets /\ localID_off \in Offsets
  BY <1>2 DEF Request, Offsets
<1>4. /\ pending' = [pending EXCEPT ![p] = t] /\ asked' = asked
      /\ reg' = [reg EXCEPT ![p][w.off] = Stored(w.off, w.value)]
  BY DEF WriteReg
<1>5. reg \in [Port -> [Offsets -> Nat]] /\ DOMAIN pending = Port
  BY DEF RegsInv, RegTypes
<1>6. /\ pending'[p] = t /\ \A q \in Port : q # p => pending'[q] = pending[q] /\ reg'[q] = reg[q]
      /\ reg'[p][localID_off] = IF w.off = localID_off THEN Stored(w.off, w.value)
                                ELSE reg[p][localID_off]
  <2> HIDE DEF w, t
  <2> QED
    BY <1>3, <1>4, <1>5
<1>7. /\ \A i \in 1 .. Len(s) : s[i].off = localID_off => s[i].value = asked[p].id
      /\ ~Has(s, localID_off) => reg[p][localID_off] = Stored(localID_off, asked[p].id)
  BY DEF IdKept
<1> HIDE DEF s, t, w
<1>8. \A i \in 1 .. Len(t) : i + 1 \in 1 .. Len(s) /\ t[i] = s[i + 1]
  BY <1>2
<1>9. Has(s, localID_off) => w.off = localID_off \/ Has(t, localID_off)
  <2> SUFFICES ASSUME NEW i \in 1 .. Len(s), s[i].off = localID_off, w.off # localID_off
               PROVE  Has(t, localID_off)
    BY DEF Has
  <2>1. i # 1
    BY <1>2
  <2>2. i - 1 \in 1 .. Len(t) /\ t[i - 1] = s[(i - 1) + 1] /\ (i - 1) + 1 = i
    BY <1>2, <2>1
  <2> QED
    BY <2>2 DEF Has
<1>10. /\ \A i \in 1 .. Len(t) : t[i].off = localID_off => t[i].value = asked[p].id
       /\ ~Has(t, localID_off) => reg'[p][localID_off] = Stored(localID_off, asked[p].id)
  <2>1. w.off = localID_off => w.value = asked[p].id
    BY <1>2, <1>7
  <2> QED
    BY <1>6, <1>7, <1>8, <1>9, <2>1
<1> SUFFICES ASSUME NEW q \in Port
             PROVE  /\ \A i \in 1 .. Len(pending'[q]) :
                          pending'[q][i].off = localID_off => pending'[q][i].value = asked'[q].id
                    /\ ~Has(pending'[q], localID_off)
                          => reg'[q][localID_off] = Stored(localID_off, asked'[q].id)
  BY DEF IdKept, Has, Stored, Capacity
<1>11. CASE q = p
  BY <1>4, <1>6, <1>10, <1>11
<1>12. CASE q # p
  BY <1>4, <1>6, <1>12 DEF IdKept
<1> QED
  BY <1>11, <1>12

LEMMA IdKeptHolds == ASSUME SettingsFit PROVE DriverSpec => []IdKept
<1>1. RegsInv /\ IdKept /\ [DriverNext]_driverVars => IdKept'
  <2> SUFFICES ASSUME RegsInv, IdKept, [RegsNext]_regsVars PROVE IdKept'
    BY DriverParts
  <2>1. ASSUME NEW p \in Port, NEW id \in Peers, Learn(p, id) PROVE IdKept'
    BY <2>1 DEF Learn, IdKept
  <2>2. CASE UNCHANGED regsVars
    BY <2>2 DEF regsVars, IdKept
  <2> QED
    BY <2>1, <2>2, SetterKeepsId, WriteKeepsId DEF RegsNext
<1> QED
  BY <1>1, IdKeptInit, RegsInvHolds, DriverParts, PTL DEF DriverSpec

\* Two ports given different ids send with different MAC and with different IP
\* addresses under the same subnet, whatever its low bits and however the addition
\* of the id carries (setLocalID, setIPSubnet, setMACSubnet).
THEOREM PortsDistinct == ASSUME SettingsFit PROVE DriverSpec => []AddressesDistinct
<1>1. RegsInv /\ IdKept => AddressesDistinct
  <2> SUFFICES ASSUME RegsInv, IdKept, NEW p \in Port, NEW q \in Port, Settled(p), Settled(q),
                      {asked[p].id, asked[q].id} \subseteq 0 .. (IdSpan - 1),
                      asked[p].id # asked[q].id
               PROVE  /\ getMACSubnet(reg[p]) = getMACSubnet(reg[q])
                            => EngineMAC(reg[p]) # EngineMAC(reg[q])
                      /\ reg[p][IPsubnet_off] = reg[q][IPsubnet_off]
                            => EngineIP(reg[p]) # EngineIP(reg[q])
    BY DEF AddressesDistinct
  <2>1. ASSUME NEW x \in {p, q} PROVE reg[x][localID_off] = asked[x].id
    <3>1. reg[x][localID_off] = Stored(localID_off, asked[x].id)
      BY DEF IdKept, Settled, Has
    <3>2. localID_off \in Offsets /\ asked[x].id \in Nat /\ asked[x].id < Capacity(localID_off)
      BY Sizes DEF Offsets, Capacity
    <3> QED
      BY <3>1, <3>2, StoredTypes
  <2> DEFINE i == asked[p].id
             j == asked[q].id
  <2>2. i \in 0 .. IdSpan - 1 /\ j \in 0 .. IdSpan - 1 /\ i # j
    OBVIOUS
  <2>3. /\ reg[p][localID_off] = i /\ reg[q][localID_off] = j
        /\ EngineMAC(reg[p]) = getMACSubnet(reg[p]) + i
        /\ EngineMAC(reg[q]) = getMACSubnet(reg[q]) + j
        /\ EngineIP(reg[p]) = getIPAddress(reg[p]) /\ EngineIP(reg[q]) = getIPAddress(reg[q])
    BY <2>1, AddressesOf DEF getMACSubnet, getMACAddress
  <2>4. ASSUME NEW off \in Offsets PROVE reg[p][off] \in Nat
    BY DEF RegsInv, RegTypes
  <2>5. getMACSubnet(reg[p]) \in Int
    <3> DEFINE m == reg[p][MACSubnet_off + 4] * Word + reg[p][MACSubnet_off]
    <3>1. m \in Nat /\ IdSpan \in Nat \ {0}
      BY <2>4, Sizes DEF Offsets
    <3> HIDE DEF m
    <3>2. m % IdSpan \in Nat
      BY ONLY <3>1, ModSplit
    <3> QED
      BY <3>1, <3>2 DEF getMACSubnet, Masked, m
  <2>6. ASSUME reg[p][IPsubnet_off] = reg[q][IPsubnet_off]
        PROVE  getIPAddress(reg[p]) # getIPAddress(reg[q])
    <3> DEFINE a == Swapped(reg[p][IPsubnet_off])
               u == (a + i) % Word
               v == (a + j) % Word
    <3>1. reg[p][IPsubnet_off] \in 0 .. Word - 1
      <4>1. reg[p][IPsubnet_off] \in Nat /\ reg[p][IPsubnet_off] < Capacity(IPsubnet_off)
        BY <2>4 DEF Offsets, RegsInv, RegTypes
      <4>2. Capacity(IPsubnet_off) = Word
        BY DEF Capacity, IPsubnet_off, localID_off, MACSubnet_off, retranssmitions_off,
               UDPPort_off, resetARP_off
      <4> QED
        BY <4>1, <4>2, Sizes
    <3>2. a \in Nat
      <4>1. PICK b0, b1, b2, b3 \in 0 .. Byte - 1 : a = ((b0 * Byte + b1) * Byte + b2) * Byte + b3
        BY <3>1, BytesOf
      <4>2. Byte \in Nat
        BY Sizes
      <4>3. b0 * Byte + b1 \in Nat
        BY <4>2
      <4>4. (b0 * Byte + b1) * Byte + b2 \in Nat
        BY <4>2, <4>3
      <4> QED
        BY <4>1, <4>2, <4>4
    <3> HIDE DEF a, i, j
    <3>3. Word \in Nat \ {0} /\ i \in 0 .. Word - 1 /\ j \in 0 .. Word - 1
      BY <2>2, Sizes, RegsAssumption
    <3>4. a + i \in Nat /\ a + j \in Nat
      BY <3>2, <3>3
    <3>5. u \in 0 .. Word - 1 /\ v \in 0 .. Word - 1
      BY ONLY <3>3, <3>4, ModSplit
    <3>6. u # v
      <4>1. a % Word \in 0 .. Word - 1
        BY ONLY <3>2, <3>3, ModSplit
      <4>2. \A k \in 0 .. Word :
               (a + k) % Word = IF (a % Word) + k < Word THEN (a % Word) + k
                                ELSE (a % Word) + k - Word
        BY ONLY <3>2, <3>3, ModStep
      <4> DEFINE c == a % Word
      <4>3. c \in Nat
        BY <3>3, <4>1
      <4>4. /\ u = IF c + i < Word THEN c + i ELSE c + i - Word
            /\ v = IF c + j < Word THEN c + j ELSE c + j - Word
        <5>1. i \in 0 .. Word /\ j \in 0 .. Word
          BY <3>3
        <5> QED
          BY <4>2, <5>1
      <4> HIDE DEF c, u, v
      <4> QED
        BY ONLY <2>2, <3>3, <4>1, <4>3, <4>4 DEF c
    <3> HIDE DEF u, v
    <3>7. Swapped(u) # Swapped(v)
      BY <3>5, <3>6, SwapApart
    <3> QED
      BY <2>3, <2>6, <3>7 DEF getIPAddress, a, u, v, i, j
  <2> HIDE DEF i, j
  <2>7. i \in Int /\ j \in Int
    BY <2>2, Sizes
  <2>8. getMACSubnet(reg[p]) = getMACSubnet(reg[q]) => EngineMAC(reg[p]) # EngineMAC(reg[q])
    BY ONLY <2>2, <2>3, <2>5, <2>7
  <2> QED
    BY <2>3, <2>6, <2>8
<1> QED
  BY <1>1, RegsInvHolds, IdKeptHolds, PTL

\* What a kernel handle promises holds in the driver as a whole.
THEOREM BuffersInDriver == DriverSpec => [](InputsArrive /\ ResultComplete /\ BuffersTypeOK)
  BY HandlesApart, InputsReachRun, ResultsComeBack, BuffersTyped, PTL
=============================================================================
