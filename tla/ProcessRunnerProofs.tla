----------------------- MODULE ProcessRunnerProofs -----------------------
(* What holds of one run of the process runner for any capacities, limits,   *)
(* amounts of output and input, and any number of failures and stops.        *)
EXTENDS ProcessRunner, FiniteSetTheorems, SequenceTheorems, TLAPS

-----------------------------------------------------------------------------
(* Counting messages in the channel.                                         *)

Places(q, M) == {i \in 1 .. Len(q) : q[i] \in M}
Count(q, M) == Cardinality(Places(q, M))

(* The messages of a sequence that lie in a set are finitely many.           *)
LEMMA CountIsNat ==
    ASSUME NEW S, NEW q \in Seq(S), NEW M
    PROVE  /\ IsFiniteSet(Places(q, M)) /\ Count(q, M) \in Nat
           /\ Count(q, M) = 0 <=> \A i \in 1 .. Len(q) : q[i] \notin M
<1>1. Len(q) \in Nat
  BY LenProperties
<1>2. IsFiniteSet(1 .. Len(q))
  BY <1>1, FS_Interval
<1>3. IsFiniteSet(Places(q, M))
  BY <1>2, FS_Subset DEF Places
<1>4. Count(q, M) \in Nat
  BY <1>3, FS_CardinalityType DEF Count
<1>5. Count(q, M) = 0 <=> Places(q, M) = {}
  BY <1>3, FS_EmptySet DEF Count
<1>6. QED
  BY <1>3, <1>4, <1>5 DEF Places

(* A message that is appended counts once.                                   *)
LEMMA CountAppend ==
    ASSUME NEW S, NEW q \in Seq(S), NEW e \in S, NEW M
    PROVE  Count(Append(q, e), M) = Count(q, M) + (IF e \in M THEN 1 ELSE 0)
<1> DEFINE r == Append(q, e)
<1>1. /\ Len(q) \in Nat /\ Len(r) = Len(q) + 1 /\ r[Len(q) + 1] = e
      /\ \A i \in 1 .. Len(q) : r[i] = q[i]
  BY AppendProperties, LenProperties
<1>2. IsFiniteSet(Places(q, M)) /\ Len(q) + 1 \notin Places(q, M)
  <2>1. Len(q) + 1 \notin Places(q, M)
    BY <1>1 DEF Places
  <2>2. QED
    BY <2>1, CountIsNat
<1>3. CASE e \in M
  <2>1. Places(r, M) = Places(q, M) \cup {Len(q) + 1}
    BY <1>1, <1>3 DEF Places
  <2>2. Cardinality(Places(q, M) \cup {Len(q) + 1}) = Cardinality(Places(q, M)) + 1
    BY <1>2, FS_AddElement
  <2>3. QED
    BY <1>3, <2>1, <2>2 DEF Count
<1>4. CASE e \notin M
  <2>1. Places(r, M) = Places(q, M)
    BY <1>1, <1>4 DEF Places
  <2>2. Count(q, M) \in Nat
    BY CountIsNat
  <2>3. QED
    BY <1>4, <2>1, <2>2 DEF Count
<1>5. QED
  BY <1>3, <1>4

(* Taking the first message takes it out of the count.                       *)
LEMMA CountTail ==
    ASSUME NEW S, NEW q \in Seq(S), q # <<>>, NEW M
    PROVE  Count(q, M) = Count(Tail(q), M) + (IF Head(q) \in M THEN 1 ELSE 0)
<1> DEFINE t == Tail(q)
           Rest == Places(q, M) \ {1}
           next == [i \in Places(t, M) |-> i + 1]
<1>1. /\ Len(q) \in Nat /\ Len(q) > 0 /\ t \in Seq(S) /\ Len(t) = Len(q) - 1
      /\ Head(q) = q[1]
  BY HeadTailProperties, LenProperties, EmptySeq
<1>2. \A i \in 1 .. Len(t) : t[i] = q[i + 1]
  BY HeadTailProperties
<1>3. next \in Bijection(Places(t, M), Rest)
  <2>1. next \in [Places(t, M) -> Rest]
    BY <1>1, <1>2 DEF Places
  <2>2. \A i, j \in Places(t, M) : next[i] = next[j] => i = j
    BY <1>1 DEF Places
  <2>3. \A k \in Rest : \E i \in Places(t, M) : next[i] = k
    <3> SUFFICES ASSUME NEW k \in Rest PROVE \E i \in Places(t, M) : next[i] = k
      OBVIOUS
    <3>1. k - 1 \in 1 .. Len(t) /\ q[k] \in M /\ (k - 1) + 1 = k
      BY <1>1 DEF Places
    <3>2. k - 1 \in Places(t, M)
      BY <3>1, <1>2 DEF Places
    <3>3. QED
      BY <3>1, <3>2
  <2>4. QED
    BY <2>1, <2>2, <2>3 DEF Bijection, Injection, Surjection, IsInjective
<1>4. Cardinality(Rest) = Count(t, M)
  <2>1. IsFiniteSet(Places(t, M))
    BY <1>1, CountIsNat
  <2>2. QED
    BY <1>3, <2>1, FS_Bijection DEF Count, ExistsBijection
<1>5. IsFiniteSet(Places(q, M)) /\ Count(q, M) \in Nat /\ Count(t, M) \in Nat
  BY <1>1, CountIsNat
<1>6. 1 \in Places(q, M) <=> Head(q) \in M
  BY <1>1 DEF Places
<1>7. Cardinality(Rest) = IF 1 \in Places(q, M) THEN Count(q, M) - 1 ELSE Count(q, M)
  BY <1>5, FS_RemoveElement DEF Count
<1>8. QED
  BY <1>4, <1>5, <1>6, <1>7

-----------------------------------------------------------------------------
(* The inductive invariant.                                                  *)

Kinds == {"bytes", "closed", "failed"}
Data(s) == {[stream |-> s, kind |-> "bytes"]}
LastWords == [stream : Streams, kind : {"closed", "failed"}]

(* The values of the variables, as functions and records where the type      *)
(* invariant of the run speaks of their components.                          *)
GroupShape ==
    /\ leader \in {"running", "exited", "killed"}
    /\ helper \in {"none", "attached", "detached", "dead"}
    /\ written \in [Streams -> Nat] /\ written["stdout"] + written["stderr"] <= MaxChunks
    /\ pipe \in [Streams -> 0 .. PipeCapacity]

InputShape ==
    /\ input \in [left : Nat, piped : 0 .. PipeCapacity]
    /\ writer \in {"none", "writing", "done", "failed"}

ReaderShape ==
    /\ readers \in [Streams -> {"reading", "sending", "done"}]
    /\ holds \in [Streams -> {"none"} \cup Kinds]
    /\ \A s \in Streams : readers[s] = "sending" <=> holds[s] # "none"

ChannelShape == channel \in Seq(Messages) /\ Len(channel) <= Capacity

OwnerShape ==
    /\ owner \in [pc : {"loop", "drain", "join", "done"},
                  reason : Ends \cup {"none", "read", "exit"}]
    /\ status \in {"none", "exited"} /\ open \in 0 .. 2
    /\ failure \in {"none"} \cup Streams
    /\ asked \subseteq Ends
    /\ result \in Ends \cup {"none", "read", "exit", "write"}

OutputShape ==
    /\ observed \in [Streams -> Nat] /\ retained \in [Streams -> Nat]
    /\ \A s \in Streams : retained[s] = IF observed[s] < Limit THEN observed[s] ELSE Limit

Shape == GroupShape /\ InputShape /\ ReaderShape /\ ChannelShape /\ OwnerShape /\ OutputShape

(* Where a chunk that was written may be.                                    *)
InHand(s) == IF holds[s] = "bytes" THEN 1 ELSE 0
InFlight(s) == Count(channel, Data(s)) + InHand(s) + pipe[s]

NothingLost == \A s \in Streams : written[s] = observed[s] + InFlight(s)

(* The owner knows how many readers it still has to hear the end of.         *)
Unfinished(s) == IF readers[s] = "done" THEN 0 ELSE 1
OpenCounts ==
    open = Unfinished("stdout") + Unfinished("stderr") + Count(channel, LastWords)

(* The end of a stream comes after its data.                                 *)
EndIsLast ==
    \A s \in Streams : readers[s] = "done" =>
        \A i \in 1 .. Len(channel) : channel[i] \in Data(s) =>
            \E j \in i + 1 .. Len(channel) :
                channel[j] \in LastWords /\ channel[j].stream = s

(* A read that failed is not forgotten, and without one the end of a stream  *)
(* is the end of the processes that write to it.                             *)
Broken ==
    \/ failure # "none"
    \/ \E s \in Streams : holds[s] = "failed"
    \/ \E i \in 1 .. Len(channel) : channel[i].kind = "failed"

EndIsReal ==
    \A s \in Streams :
        (readers[s] = "done" \/ holds[s] = "closed") /\ ~Broken => pipe[s] = 0 /\ ~Attached

Stopped == leader # "running" /\ helper \in {"none", "dead"}

OwnerKnows ==
    /\ status = "exited" => leader = "exited"
    /\ owner.pc = "drain" => owner.reason \in Ends /\ Stopped
    /\ owner.pc \in {"join", "done"} =>
          \/ owner.reason \in Ends /\ Stopped /\ open = 0
          \/ owner.reason = "exit" /\ leader = "exited" /\ open = 0
          \/ owner.reason = "read" /\ leader # "running"

Flow == NothingLost /\ OpenCounts /\ EndIsLast /\ EndIsReal

IInv == Shape /\ Flow /\ OwnerKnows

-----------------------------------------------------------------------------
(* What the two ends of the channel do to it.                                *)

LEMMA CountsAreNat ==
    ASSUME Shape
    PROVE  /\ Count(channel, LastWords) \in Nat
           /\ \A s \in Streams : Count(channel, Data(s)) \in Nat
  BY CountIsNat DEF Shape, ChannelShape

(* ReaderSends: one message more, at the end.                                *)
LEMMA Sent ==
    ASSUME Shape, NEW s \in Streams, ReaderSends(s)
    PROVE  LET m == [stream |-> s, kind |-> holds[s]] IN
           /\ m \in Messages /\ Len(channel) \in Nat
           /\ channel' \in Seq(Messages) /\ Len(channel') = Len(channel) + 1
           /\ channel'[Len(channel) + 1] = m
           /\ \A i \in 1 .. Len(channel) : channel'[i] = channel[i]
           /\ \A M : Count(channel', M) = Count(channel, M) + (IF m \in M THEN 1 ELSE 0)
<1> DEFINE m == [stream |-> s, kind |-> holds[s]]
<1>1. m \in Messages
  BY DEF Shape, ReaderShape, ReaderSends, Messages, Kinds
<1>2. channel' = Append(channel, m) /\ channel \in Seq(Messages)
  BY DEF ReaderSends, Shape, ChannelShape
<1>3. ASSUME NEW M
      PROVE  Count(channel', M) = Count(channel, M) + (IF m \in M THEN 1 ELSE 0)
  <2> HIDE DEF m
  <2> QED
    BY <1>1, <1>2, CountAppend
<1>4. /\ channel' \in Seq(Messages) /\ Len(channel') = Len(channel) + 1
      /\ channel'[Len(channel) + 1] = m
      /\ \A i \in 1 .. Len(channel) : channel'[i] = channel[i]
  <2> HIDE DEF m
  <2> QED
    BY <1>1, <1>2, AppendProperties
<1>5. Len(channel) \in Nat
  BY <1>2, LenProperties
<1> QED
  BY <1>1, <1>3, <1>4, <1>5

(* Receive: one message less, at the head.                                   *)
LEMMA Received ==
    ASSUME Shape, NEW pc, Receive(pc)
    PROVE  LET m == Head(channel) IN
           /\ m \in Messages /\ m = channel[1]
           /\ Len(channel) \in Nat \ {0}
           /\ channel' \in Seq(Messages) /\ Len(channel') = Len(channel) - 1
           /\ \A i \in 1 .. Len(channel') : channel'[i] = channel[i + 1]
           /\ \A M : Count(channel, M) = Count(channel', M) + (IF m \in M THEN 1 ELSE 0)
<1>1. channel # <<>> /\ channel' = Tail(channel) /\ channel \in Seq(Messages)
  BY DEF Receive, Shape, ChannelShape
<1>2. \A M : Count(channel, M) = Count(channel', M) + (IF Head(channel) \in M THEN 1 ELSE 0)
  BY <1>1, CountTail
<1>3. /\ Head(channel) \in Messages /\ Len(channel) \in Nat \ {0}
      /\ channel' \in Seq(Messages) /\ Len(channel') = Len(channel) - 1
      /\ \A i \in 1 .. Len(channel') : channel'[i] = channel[i + 1]
  BY <1>1, HeadTailProperties, EmptySeq
<1> QED
  BY <1>1, <1>2, <1>3

(* Receive: what the owner makes of the message.                             *)
LEMMA Understood ==
    ASSUME Shape, NEW pc, Receive(pc)
    PROVE  LET m == Head(channel) IN
           /\ owner.pc = pc /\ open > 0
           /\ \/ m.kind = "bytes" /\ Keep(m.stream) /\ UNCHANGED <<open, failure>>
              \/ m.kind = "closed" /\ open' = open - 1 /\ UNCHANGED <<failure, observed, retained>>
              \/ /\ m.kind = "failed" /\ open' = open - 1 /\ failure' = m.stream
                 /\ UNCHANGED <<observed, retained>>
           /\ UNCHANGED <<group, tasks, asked, result>>
<1>1. Head(channel).kind \in Kinds
  BY Received DEF Messages, Kinds
<1> QED
  BY <1>1 DEF Receive, Kinds

-----------------------------------------------------------------------------
(* The initial state.                                                        *)

LEMMA InitIInv ==
    ASSUME Init
    PROVE  IInv
<1>1. GroupShape /\ InputShape /\ ReaderShape /\ OutputShape
  <2>1. GroupShape
    BY RunnerAssumption DEF Init, GroupShape, Streams
  <2>2. InputShape
    <3>1. input \in [left : Nat, piped : 0 .. PipeCapacity]
      <4>1. PICK i \in Inputs : input = [left |-> i, piped |-> 0]
        BY DEF Init
      <4>2. i \in Nat /\ 0 \in 0 .. PipeCapacity
        BY RunnerAssumption
      <4> QED
        BY <4>1, <4>2
    <3>2. writer \in {"none", "writing"}
      BY DEF Init
    <3> QED
      BY <3>1, <3>2 DEF InputShape
  <2>3. ReaderShape
    BY DEF Init, ReaderShape
  <2>4. OutputShape
    BY RunnerAssumption DEF Init, OutputShape
  <2> QED
    BY <2>1, <2>2, <2>3, <2>4
<1>2. ChannelShape /\ OwnerShape
  BY RunnerAssumption, EmptySeq DEF Init, ChannelShape, OwnerShape, Ends
<1>3. ASSUME NEW M PROVE Count(<<>>, M) = 0
  <2>1. <<>> \in Seq(Messages) /\ Len(<<>>) = 0
    BY EmptySeq
  <2>2. Places(<<>>, M) = {}
    BY <2>1 DEF Places
  <2> QED
    BY <2>2, FS_EmptySet DEF Count
<1>4. NothingLost /\ OpenCounts
  BY <1>3 DEF Init, NothingLost, OpenCounts, InFlight, InHand, Unfinished, Streams
<1>5. EndIsLast /\ EndIsReal
  BY DEF Init, EndIsLast, EndIsReal
<1>6. OwnerKnows
  BY DEF Init, OwnerKnows
<1> QED
  BY <1>1, <1>2, <1>4, <1>5, <1>6 DEF IInv, Flow, Shape

-----------------------------------------------------------------------------
(* The steps, one by one.                                                    *)

(* Which steps move which variables.                                         *)
LEMMA Frame ==
    ASSUME [Next]_vars
    PROVE  /\ (\E s \in Streams : Write(s)) \/ UNCHANGED written
           /\ \/ StartHelper \/ HelperDetaches \/ HelperEnds \/ LeaderExits
              \/ Stop \/ StopForFailure \/ UNCHANGED <<leader, helper>>
           /\ (\E s \in Streams : Write(s) \/ ReaderReads(s)) \/ UNCHANGED pipe
           /\ ReadInput \/ WriterWrites \/ WriterFails \/ UNCHANGED <<input, writer>>
           /\ \/ \E s \in Streams : ReaderReads(s) \/ ReaderSeesEnd(s) \/ ReaderFails(s)
              \/ \E s \in Streams : ReaderSends(s)
              \/ UNCHANGED <<readers, holds>>
           /\ \/ \E s \in Streams : ReaderSends(s)
              \/ Receive("loop") \/ Receive("drain")
              \/ UNCHANGED channel
           /\ \/ Receive("loop") \/ Receive("drain")
              \/ UNCHANGED <<open, failure, observed, retained>>
           /\ \/ LookForExit \/ Stop \/ Drained \/ StopForFailure \/ LeaveLoop \/ Join
              \/ UNCHANGED <<owner, status>>
           /\ Join \/ (\E end \in Ends : Ask(end)) \/ UNCHANGED <<asked, result>>
<1> USE DEF vars, group, tasks, loop
<1>1. CASE Group
  BY <1>1 DEF Group, Write, ReadInput, StartHelper, HelperDetaches, HelperEnds,
     LeaderExits
<1>2. CASE Writer
  BY <1>2 DEF Writer, WriterWrites, WriterFails
<1>3. CASE LookForExit \/ Stop \/ Drained \/ StopForFailure \/ LeaveLoop \/ Join
  BY <1>3 DEF LookForExit, Stop, Drained, StopForFailure, Terminate, LeaveLoop, Join
<1>4. CASE ReceiveInLoop \/ Drain
  BY <1>4 DEF ReceiveInLoop, Drain, Receive
<1>5. CASE \E s \in Streams : Reader(s)
  BY <1>5 DEF Reader, ReaderReads, ReaderSeesEnd, ReaderFails, Reads, ReaderSends
<1>6. CASE \E end \in Ends : Ask(end)
  BY <1>6 DEF Ask
<1>7. CASE UNCHANGED vars
  BY <1>7
<1> QED
  BY <1>1, <1>2, <1>3, <1>4, <1>5, <1>6, <1>7 DEF Next, Owner

LEMMA GroupShapeStep ==
    ASSUME Shape, [Next]_vars
    PROVE  GroupShape'
<1> USE RunnerAssumption DEF Shape, GroupShape
<1>1. /\ leader' \in {"running", "exited", "killed"}
      /\ helper' \in {"none", "attached", "detached", "dead"}
  BY Frame DEF StartHelper, HelperDetaches, HelperEnds, LeaderExits, Stop, StopForFailure,
     Terminate, group
<1>2. written' \in [Streams -> Nat] /\ (written["stdout"] + written["stderr"] <= MaxChunks)'
  <2>1. ASSUME NEW s \in Streams, Write(s)
        PROVE  /\ written' \in [Streams -> Nat]
               /\ (written["stdout"] + written["stderr"] <= MaxChunks)'
    BY <2>1 DEF Write, Streams
  <2> QED
    BY <2>1, Frame
<1>3. pipe' \in [Streams -> 0 .. PipeCapacity]
  <2>1. ASSUME NEW s \in Streams, Write(s) \/ ReaderReads(s)
        PROVE  pipe' \in [Streams -> 0 .. PipeCapacity]
    BY <2>1 DEF Write, ReaderReads
  <2> QED
    BY <2>1, Frame
<1> QED
  BY <1>1, <1>2, <1>3

LEMMA InputShapeStep ==
    ASSUME Shape, [Next]_vars
    PROVE  InputShape'
  BY RunnerAssumption, Frame
  DEF Shape, InputShape, ReadInput, WriterWrites, WriterFails, group, tasks

LEMMA ReaderShapeStep ==
    ASSUME Shape, [Next]_vars
    PROVE  ReaderShape'
<1> USE DEF Shape, ReaderShape
<1>1. ASSUME NEW s \in Streams, ReaderReads(s) \/ ReaderSeesEnd(s) \/ ReaderFails(s)
      PROVE  ReaderShape'
  BY <1>1 DEF ReaderReads, ReaderSeesEnd, ReaderFails, Reads, Kinds
<1>2. ASSUME NEW s \in Streams, ReaderSends(s) PROVE ReaderShape'
  BY <1>2 DEF ReaderSends
<1> QED
  BY <1>1, <1>2, Frame

LEMMA ChannelShapeStep ==
    ASSUME Shape, [Next]_vars
    PROVE  ChannelShape'
<1>1. ASSUME NEW s \in Streams, ReaderSends(s) PROVE ChannelShape'
  <2>1. Len(channel) \in Nat /\ channel' \in Seq(Messages) /\ Len(channel') = Len(channel) + 1
    BY <1>1, Sent
  <2> QED
    BY <1>1, <2>1, RunnerAssumption DEF ReaderSends, ChannelShape
<1>2. ASSUME NEW pc, Receive(pc) PROVE ChannelShape'
  <2>1. Len(channel) \in Nat /\ channel' \in Seq(Messages) /\ Len(channel') = Len(channel) - 1
    BY <1>2, Received
  <2> QED
    BY <2>1, RunnerAssumption DEF Shape, ChannelShape
<1> QED
  BY <1>1, <1>2, Frame DEF Shape, ChannelShape

LEMMA OwnerShapeStep ==
    ASSUME Shape, [Next]_vars
    PROVE  OwnerShape'
<1> USE DEF Shape, OwnerShape
<1>1. ASSUME NEW pc, Receive(pc) PROVE open' \in 0 .. 2 /\ failure' \in {"none"} \cup Streams
  <2>1. Head(channel).stream \in Streams
    BY <1>1, Received DEF Messages
  <2> QED
    BY <1>1, <2>1, Understood
<1>2. open' \in 0 .. 2 /\ failure' \in {"none"} \cup Streams
  BY <1>1, Frame
<1>3. /\ owner' \in [pc : {"loop", "drain", "join", "done"},
                     reason : Ends \cup {"none", "read", "exit"}]
      /\ status' \in {"none", "exited"}
  BY Frame DEF LookForExit, Stop, First, Drained, StopForFailure, LeaveLoop, Join, Ends
<1>4. asked' \subseteq Ends /\ result' \in Ends \cup {"none", "read", "exit", "write"}
  BY Frame DEF Join, Ask
<1> QED
  BY <1>2, <1>3, <1>4

LEMMA OutputShapeStep ==
    ASSUME Shape, [Next]_vars
    PROVE  OutputShape'
<1> USE DEF Shape, OutputShape
<1>1. ASSUME NEW pc, Receive(pc) PROVE OutputShape'
  <2>1. Head(channel).stream \in Streams
    BY <1>1, Received DEF Messages
  <2>2. CASE Keep(Head(channel).stream)
    BY <2>1, <2>2, RunnerAssumption DEF Keep
  <2>3. CASE UNCHANGED <<observed, retained>>
    BY <2>3
  <2> QED
    BY <1>1, <2>2, <2>3, Understood
<1> QED
  BY <1>1, Frame

LEMMA ShapeStep ==
    ASSUME Shape, [Next]_vars
    PROVE  Shape'
  BY GroupShapeStep, InputShapeStep, ReaderShapeStep, ChannelShapeStep, OwnerShapeStep,
     OutputShapeStep DEF Shape

(* No step loses or invents a chunk.                                         *)
LEMMA NothingLostStep ==
    ASSUME Shape, NothingLost, [Next]_vars
    PROVE  NothingLost'
<1> SUFFICES ASSUME NEW r \in Streams PROVE written'[r] = observed'[r] + InFlight(r)'
  BY DEF NothingLost
<1>1. /\ written[r] = observed[r] + Count(channel, Data(r)) + InHand(r) + pipe[r]
      /\ written[r] \in Nat /\ observed[r] \in Nat /\ pipe[r] \in Nat
      /\ Count(channel, Data(r)) \in Nat /\ InHand(r) \in {0, 1}
  BY CountsAreNat, RunnerAssumption
  DEF NothingLost, InFlight, InHand, Shape, GroupShape, OutputShape
<1>2. ASSUME NEW s \in Streams, Write(s) PROVE written'[r] = observed'[r] + InFlight(r)'
  BY <1>1, <1>2 DEF Write, InFlight, InHand, tasks, loop, Shape, GroupShape
<1>3. ASSUME NEW s \in Streams, ReaderReads(s) \/ ReaderSeesEnd(s) \/ ReaderFails(s)
      PROVE  written'[r] = observed'[r] + InFlight(r)'
  <2>1. UNCHANGED <<written, observed, channel>> /\ holds[s] = "none"
    BY <1>3 DEF ReaderReads, ReaderSeesEnd, ReaderFails, Reads, loop, Shape, ReaderShape
  <2>2. InHand(r)' + pipe'[r] = InHand(r) + pipe[r] /\ pipe'[r] \in Nat
    BY <1>1, <1>3, <2>1 DEF ReaderReads, ReaderSeesEnd, ReaderFails, Reads, InHand,
       Shape, GroupShape, ReaderShape
  <2> QED
    BY <1>1, <2>1, <2>2 DEF InFlight, InHand
<1>4. ASSUME NEW s \in Streams, ReaderSends(s)
      PROVE  written'[r] = observed'[r] + InFlight(r)'
  <2> DEFINE m == [stream |-> s, kind |-> holds[s]]
  <2>1. UNCHANGED <<written, observed, pipe>>
    BY <1>4 DEF ReaderSends, group, loop
  <2>2. Count(channel', Data(r)) = Count(channel, Data(r)) + (IF m \in Data(r) THEN 1 ELSE 0)
    BY <1>4, Sent
  <2>3. InHand(r)' + (IF m \in Data(r) THEN 1 ELSE 0) = InHand(r)
    BY <1>4 DEF ReaderSends, InHand, Data, Shape, ReaderShape
  <2> QED
    BY <1>1, <2>1, <2>2, <2>3 DEF InFlight, InHand
<1>5. ASSUME NEW pc, Receive(pc) PROVE written'[r] = observed'[r] + InFlight(r)'
  <2> DEFINE m == Head(channel)
  <2>1. UNCHANGED <<written, holds, pipe>>
    BY <1>5, Understood DEF group, tasks
  <2>2. Count(channel, Data(r)) = Count(channel', Data(r)) + (IF m \in Data(r) THEN 1 ELSE 0)
    BY <1>5, Received
  <2>3. observed'[r] = observed[r] + (IF m \in Data(r) THEN 1 ELSE 0)
    <3>1. m \in Messages
      BY <1>5, Received
    <3>2. m \in Data(r) <=> m.kind = "bytes" /\ m.stream = r
      BY <3>1 DEF Messages, Data
    <3>3. m.kind = "bytes" => Keep(m.stream)
      BY <1>5, Understood
    <3>4. m.kind # "bytes" => UNCHANGED observed
      BY <1>5, Understood
    <3> HIDE DEF m
    <3> QED
      BY <1>1, <3>2, <3>3, <3>4 DEF Keep, Shape, OutputShape
  <2>4. Count(channel', Data(r)) \in Nat
    BY <1>5, Received, CountIsNat
  <2> QED
    BY <1>1, <2>1, <2>2, <2>3, <2>4 DEF InFlight, InHand
<1>6. CASE UNCHANGED <<written, observed, channel, holds, pipe>>
  BY <1>1, <1>6 DEF InFlight, InHand
<1> QED
  BY <1>2, <1>3, <1>4, <1>5, <1>6, Frame

(* The owner's count of readers follows what they do.                        *)
LEMMA OpenCountsStep ==
    ASSUME Shape, OpenCounts, [Next]_vars
    PROVE  OpenCounts'
<1> USE DEF OpenCounts, Unfinished
<1>1. Count(channel, LastWords) \in Nat
  BY CountsAreNat
<1>2. ASSUME NEW s \in Streams, ReaderReads(s) \/ ReaderSeesEnd(s) \/ ReaderFails(s)
      PROVE  OpenCounts'
  <2>1. /\ readers[s] = "reading" /\ readers' = [readers EXCEPT ![s] = "sending"]
        /\ UNCHANGED <<open, channel>>
    BY <1>2 DEF ReaderReads, ReaderSeesEnd, ReaderFails, Reads, loop
  <2>2. \A r \in Streams : readers'[r] = "done" <=> readers[r] = "done"
    BY <2>1 DEF Shape, ReaderShape
  <2> QED
    BY <2>1, <2>2 DEF Streams
<1>3. ASSUME NEW s \in Streams, ReaderSends(s) PROVE OpenCounts'
  <2> DEFINE m == [stream |-> s, kind |-> holds[s]]
  <2>1. Count(channel', LastWords) = Count(channel, LastWords) + (IF m \in LastWords THEN 1 ELSE 0)
    BY <1>3, Sent
  <2>2. m \in LastWords <=> holds[s] # "bytes"
    BY <1>3 DEF LastWords, ReaderSends, Shape, ReaderShape, Kinds
  <2>3. /\ readers[s] = "sending" /\ UNCHANGED open
        /\ readers' = [readers EXCEPT ![s] = IF holds[s] = "bytes" THEN "reading" ELSE "done"]
    BY <1>3 DEF ReaderSends, loop
  <2> HIDE DEF m
  <2> QED
    BY <1>1, <2>1, <2>2, <2>3 DEF Streams, Shape, ReaderShape
<1>4. ASSUME NEW pc, Receive(pc) PROVE OpenCounts'
  <2> DEFINE m == Head(channel)
  <2>1. Count(channel, LastWords) = Count(channel', LastWords) + (IF m \in LastWords THEN 1 ELSE 0)
    BY <1>4, Received
  <2>2. m \in LastWords <=> m.kind # "bytes"
    BY <1>4, Received DEF LastWords, Messages
  <2>3. open' = (IF m.kind = "bytes" THEN open ELSE open - 1) /\ UNCHANGED readers
    BY <1>4, Understood DEF tasks
  <2>4. Count(channel', LastWords) \in Nat
    BY <1>4, Received, CountIsNat
  <2> HIDE DEF m
  <2> QED
    BY <1>1, <2>1, <2>2, <2>3, <2>4
<1>5. CASE UNCHANGED <<open, readers, channel>>
  BY <1>5
<1> QED
  BY <1>2, <1>3, <1>4, <1>5, Frame

(* A message is never overtaken by the end of its stream.                    *)
LEMMA EndIsLastStep ==
    ASSUME Shape, EndIsLast, [Next]_vars
    PROVE  EndIsLast'
<1> SUFFICES ASSUME NEW r \in Streams, readers'[r] = "done",
                    NEW i \in 1 .. Len(channel'), channel'[i] \in Data(r)
             PROVE  \E j \in i + 1 .. Len(channel') :
                        channel'[j] \in LastWords /\ channel'[j].stream = r
  BY DEF EndIsLast
<1>1. readers[r] = "done" => \A k \in 1 .. Len(channel) : channel[k] \in Data(r) =>
          \E j \in k + 1 .. Len(channel) : channel[j] \in LastWords /\ channel[j].stream = r
  BY DEF EndIsLast
<1>2. ASSUME NEW s \in Streams, ReaderReads(s) \/ ReaderSeesEnd(s) \/ ReaderFails(s)
      PROVE  readers[r] = "done" /\ UNCHANGED channel
  BY <1>2 DEF ReaderReads, ReaderSeesEnd, ReaderFails, Reads, Shape, ReaderShape
<1>3. ASSUME NEW s \in Streams, ReaderSends(s)
      PROVE  \E j \in i + 1 .. Len(channel') :
                 channel'[j] \in LastWords /\ channel'[j].stream = r
  <2> DEFINE m == [stream |-> s, kind |-> holds[s]]
  <2>1. /\ Len(channel) \in Nat /\ Len(channel') = Len(channel) + 1
        /\ channel'[Len(channel) + 1] = m
        /\ \A k \in 1 .. Len(channel) : channel'[k] = channel[k]
    BY <1>3, Sent
  <2>2. CASE r = s
    <3>1. holds[s] # "bytes" /\ holds[s] \in Kinds
      BY <1>3, <2>2 DEF ReaderSends, Shape, ReaderShape
    <3>2. m \in LastWords /\ m.stream = r /\ m \notin Data(r)
      BY <2>2, <3>1 DEF LastWords, Kinds, Data
    <3>3. i # Len(channel) + 1
      BY <2>1, <3>2
    <3> QED
      BY <2>1, <3>2, <3>3
  <2>3. CASE r # s
    <3>1. readers[r] = "done"
      BY <1>3, <2>3 DEF ReaderSends, Shape, ReaderShape
    <3>2. i # Len(channel) + 1
      BY <2>1, <2>3 DEF Data
    <3>3. i \in 1 .. Len(channel) /\ channel[i] \in Data(r)
      BY <2>1, <3>2
    <3>4. PICK j \in i + 1 .. Len(channel) : channel[j] \in LastWords /\ channel[j].stream = r
      BY <1>1, <3>1, <3>3
    <3>5. j \in i + 1 .. Len(channel') /\ channel'[j] = channel[j]
      BY <2>1, <3>3, <3>4
    <3> QED
      BY <3>4, <3>5
  <2> QED
    BY <2>2, <2>3
<1>4. ASSUME NEW pc, Receive(pc)
      PROVE  \E j \in i + 1 .. Len(channel') :
                 channel'[j] \in LastWords /\ channel'[j].stream = r
  <2>1. /\ Len(channel) \in Nat \ {0} /\ Len(channel') = Len(channel) - 1
        /\ \A k \in 1 .. Len(channel') : channel'[k] = channel[k + 1]
    BY <1>4, Received
  <2>2. readers[r] = "done"
    BY <1>4, Understood DEF tasks
  <2>3. i + 1 \in 1 .. Len(channel) /\ channel[i + 1] \in Data(r)
    BY <2>1
  <2>4. PICK j \in i + 2 .. Len(channel) : channel[j] \in LastWords /\ channel[j].stream = r
    <3>1. \E j \in (i + 1) + 1 .. Len(channel) : channel[j] \in LastWords /\ channel[j].stream = r
      BY <1>1, <2>2, <2>3
    <3> QED
      BY <3>1
  <2>5. j - 1 \in i + 1 .. Len(channel') /\ (j - 1) + 1 = j /\ j - 1 \in 1 .. Len(channel')
    BY <2>1
  <2>6. channel'[j - 1] = channel[j]
    BY <2>1, <2>5
  <2> QED
    BY <2>4, <2>5, <2>6
<1>5. CASE UNCHANGED <<readers, channel>>
  BY <1>1, <1>5
<1> QED
  BY <1>1, <1>2, <1>3, <1>4, <1>5, Frame

(* A failed read leaves a trace until the run is over.                       *)
LEMMA BrokenStays ==
    ASSUME Shape, Broken, [Next]_vars
    PROVE  Broken'
<1>1. ASSUME NEW s \in Streams, ReaderReads(s) \/ ReaderSeesEnd(s) \/ ReaderFails(s)
      PROVE  Broken'
  <2>1. /\ holds[s] = "none" /\ UNCHANGED <<channel, failure>>
        /\ \A r \in Streams \ {s} : holds'[r] = holds[r]
    BY <1>1 DEF ReaderReads, ReaderSeesEnd, ReaderFails, Reads, loop, Shape, ReaderShape
  <2> QED
    BY <2>1 DEF Broken
<1>2. ASSUME NEW s \in Streams, ReaderSends(s) PROVE Broken'
  <2>1. /\ Len(channel) \in Nat /\ Len(channel') = Len(channel) + 1
        /\ channel'[Len(channel) + 1] = [stream |-> s, kind |-> holds[s]]
        /\ \A i \in 1 .. Len(channel) : channel'[i] = channel[i]
    BY <1>2, Sent
  <2>2. UNCHANGED failure /\ \A r \in Streams \ {s} : holds'[r] = holds[r]
    BY <1>2 DEF ReaderSends, loop, Shape, ReaderShape
  <2>3. CASE \E i \in 1 .. Len(channel) : channel[i].kind = "failed"
    BY <2>1, <2>3 DEF Broken
  <2>4. CASE holds[s] = "failed"
    <3>1. Len(channel) + 1 \in 1 .. Len(channel')
      BY <2>1
    <3> QED
      BY <2>1, <2>4, <3>1 DEF Broken
  <2> QED
    BY <2>2, <2>3, <2>4 DEF Broken
<1>3. ASSUME NEW pc, Receive(pc) PROVE Broken'
  <2>1. /\ Len(channel) \in Nat \ {0} /\ Len(channel') = Len(channel) - 1
        /\ \A i \in 1 .. Len(channel') : channel'[i] = channel[i + 1]
        /\ Head(channel) = channel[1] /\ Head(channel) \in Messages
    BY <1>3, Received
  <2>2. UNCHANGED holds
    BY <1>3, Understood DEF tasks
  <2>3. CASE failure' # "none"
    BY <2>3 DEF Broken
  <2>4. CASE failure' = "none"
    <3>1. failure = "none" /\ Head(channel).kind # "failed"
      <4>1. Head(channel).stream # "none"
        BY <2>1 DEF Messages, Streams
      <4> QED
        BY <1>3, <2>4, <4>1, Understood
    <3>2. CASE \E s \in Streams : holds[s] = "failed"
      BY <2>2, <3>2 DEF Broken
    <3>3. ASSUME NEW i \in 1 .. Len(channel), channel[i].kind = "failed" PROVE Broken'
      <4>1. i # 1
        BY <2>1, <3>1, <3>3
      <4>2. i - 1 \in 1 .. Len(channel') /\ (i - 1) + 1 = i
        BY <2>1, <4>1
      <4>3. channel'[i - 1] = channel[i]
        BY <2>1, <4>2
      <4> QED
        BY <3>3, <4>2, <4>3 DEF Broken
    <3> QED
      BY <3>1, <3>2, <3>3 DEF Broken
  <2> QED
    BY <2>3, <2>4
<1>4. CASE UNCHANGED <<holds, channel, failure>>
  BY <1>4 DEF Broken
<1> QED
  BY <1>1, <1>2, <1>3, <1>4, Frame

(* A group that has let go of its pipes does not take them up again.         *)
LEMMA DetachedStays ==
    ASSUME ~Attached, [Next]_vars
    PROVE  ~Attached'
  BY Frame DEF Attached, StartHelper, HelperDetaches, HelperEnds, LeaderExits, Stop,
     StopForFailure, Terminate, group

LEMMA EndIsRealStep ==
    ASSUME Shape, EndIsReal, [Next]_vars
    PROVE  EndIsReal'
<1> SUFFICES ASSUME NEW r \in Streams, (readers[r] = "done" \/ holds[r] = "closed")', ~Broken'
             PROVE  pipe'[r] = 0 /\ ~Attached'
  BY DEF EndIsReal
<1>1. ~Broken
  BY BrokenStays
<1>2. CASE readers[r] = "done" \/ holds[r] = "closed"
  <2>1. pipe[r] = 0 /\ ~Attached
    BY <1>1, <1>2 DEF EndIsReal
  <2>2. pipe'[r] = 0
    BY <2>1, Frame DEF Write, ReaderReads, Shape, GroupShape
  <2> QED
    BY <2>1, <2>2, DetachedStays
<1>3. CASE ~(readers[r] = "done" \/ holds[r] = "closed")
  <2>1. ASSUME NEW s \in Streams, ReaderReads(s) \/ ReaderSeesEnd(s) \/ ReaderFails(s)
        PROVE  ReaderSeesEnd(r)
    BY <1>3, <2>1 DEF ReaderReads, ReaderSeesEnd, ReaderFails, Reads, Shape, ReaderShape
  <2>2. ASSUME NEW s \in Streams, ReaderSends(s)
        PROVE  FALSE
    <3>1. s = r /\ holds[s] = "failed"
      BY <1>3, <2>2 DEF ReaderSends, Shape, ReaderShape, Kinds
    <3>2. Broken
      BY <3>1 DEF Broken
    <3> QED
      BY <1>1, <3>2
  <2>3. ReaderSeesEnd(r)
    BY <1>3, <2>1, <2>2, Frame
  <2> QED
    BY <2>3 DEF ReaderSeesEnd, Reads, Attached
<1> QED
  BY <1>2, <1>3

(* When the owner has heard the end of both streams, it has everything.      *)
LEMMA AllHeard ==
    ASSUME Shape, Flow, open = 0
    PROVE  /\ \A s \in Streams : readers[s] = "done"
           /\ failure = "none" => ~Attached /\ \A s \in Streams : observed[s] = written[s]
<1>1. Count(channel, LastWords) = 0 /\ \A s \in Streams : readers[s] = "done"
  BY CountsAreNat DEF Flow, OpenCounts, Unfinished, Streams
<1>2. \A i \in 1 .. Len(channel) : channel[i] \notin LastWords
  BY <1>1, CountIsNat DEF Shape, ChannelShape
<1>3. ASSUME NEW s \in Streams PROVE Count(channel, Data(s)) = 0
  <2>1. \A i \in 1 .. Len(channel) : channel[i] \notin Data(s)
    <3> SUFFICES ASSUME NEW i \in 1 .. Len(channel), channel[i] \in Data(s) PROVE FALSE
      OBVIOUS
    <3>1. PICK j \in i + 1 .. Len(channel) : channel[j] \in LastWords
      BY <1>1 DEF Flow, EndIsLast
    <3>2. j \in 1 .. Len(channel)
      OBVIOUS
    <3> QED
      BY <1>2, <3>1, <3>2
  <2> QED
    BY <2>1, CountIsNat DEF Shape, ChannelShape
<1>4. ASSUME failure = "none"
      PROVE  ~Attached /\ \A s \in Streams : observed[s] = written[s]
  <2>1. \A s \in Streams : holds[s] = "none"
    BY <1>1 DEF Shape, ReaderShape
  <2>2. ~Broken
    <3>1. ASSUME NEW i \in 1 .. Len(channel), channel[i].kind = "failed" PROVE FALSE
      <4>1. channel[i] \in Messages
        BY ElementOfSeq DEF Shape, ChannelShape
      <4> QED
        BY <1>2, <3>1, <4>1 DEF Messages, LastWords
    <3> QED
      BY <1>4, <2>1, <3>1 DEF Broken
  <2>3. ~Attached /\ \A s \in Streams : pipe[s] = 0
    BY <1>1, <2>2 DEF Flow, EndIsReal, Streams
  <2> QED
    BY <1>3, <2>1, <2>3 DEF Flow, NothingLost, InFlight, InHand, Shape, OutputShape
<1> QED
  BY <1>1, <1>4

(* Once a process is stopped it stays so, and the owner leaves only when it  *)
(* has heard the end of both streams or a read has failed.                   *)
LEMMA OwnerKnowsStep ==
    ASSUME Shape, OwnerKnows, [Next]_vars
    PROVE  OwnerKnows'
<1>1. /\ Stopped => Stopped'
      /\ leader # "running" => leader' # "running"
      /\ leader = "exited" => leader' = "exited"
  BY Frame DEF Stopped, StartHelper, HelperDetaches, HelperEnds, LeaderExits, Stop,
     StopForFailure, Terminate, group
<1>3. open = 0 => open' = 0
  BY Frame, Understood
<1>4. CASE UNCHANGED <<owner, status>>
  BY <1>1, <1>3, <1>4 DEF OwnerKnows
<1>5. CASE LookForExit
  BY <1>1, <1>3, <1>5 DEF LookForExit, OwnerKnows, group
<1>6. CASE Stop
  <2>1. Stopped' /\ owner' = [pc |-> "drain", reason |-> First] /\ status' = "none"
    BY <1>6 DEF Stop, Terminate, Stopped, Shape, GroupShape
  <2>2. First \in Ends
    BY DEF First, Ends
  <2> QED
    BY <2>1, <2>2 DEF OwnerKnows
<1>7. CASE Drained
  BY <1>7 DEF Drained, OwnerKnows, Stopped, group, Shape, OwnerShape
<1>8. CASE StopForFailure
  <2>1. leader' # "running" /\ (status' = "exited" => leader' = "exited")
    BY <1>8 DEF StopForFailure, Terminate, OwnerKnows, Shape, OwnerShape, group
  <2> QED
    BY <1>8, <2>1 DEF StopForFailure, OwnerKnows
<1>9. CASE LeaveLoop
  BY <1>9 DEF LeaveLoop, OwnerKnows, Shape, OwnerShape, group
<1>10. CASE Join
  BY <1>10 DEF Join, OwnerKnows, Stopped, Shape, OwnerShape, group
<1> QED
  BY <1>4, <1>5, <1>6, <1>7, <1>8, <1>9, <1>10, Frame

-----------------------------------------------------------------------------
(* The theorems.                                                             *)

LEMMA IInvStep ==
    ASSUME IInv, [Next]_vars
    PROVE  IInv'
  BY ShapeStep, NothingLostStep, OpenCountsStep, EndIsLastStep, EndIsRealStep, OwnerKnowsStep
  DEF IInv, Flow

LEMMA IInvHolds == Spec => []IInv
<1>1. Init => IInv
  BY InitIInv
<1>2. IInv /\ [Next]_vars => IInv'
  BY IInvStep
<1> QED
  BY <1>1, <1>2, PTL DEF Spec

(* The type invariant: the channel never holds more than its capacity, a     *)
(* reader has a message in hand exactly when it sends, nothing is kept       *)
(* beyond the limit, and the count of open readers stays between 0 and 2.    *)
THEOREM RunnerTypeCorrect == Spec => []RunnerTypeOK
<1>1. IInv => RunnerTypeOK
  <2> SUFFICES ASSUME IInv PROVE RunnerTypeOK
    OBVIOUS
  <2> USE DEF IInv, Shape
  <2>1. ASSUME NEW s \in Streams
        PROVE  /\ written[s] \in 0 .. MaxChunks /\ pipe[s] \in 0 .. PipeCapacity
               /\ readers[s] \in {"reading", "sending", "done"}
               /\ holds[s] \in {"none", "bytes", "closed", "failed"}
               /\ readers[s] = "sending" <=> holds[s] # "none"
    BY RunnerAssumption DEF GroupShape, ReaderShape, Kinds, Streams
  <2>2. ASSUME NEW s \in Streams PROVE retained[s] <= observed[s] /\ retained[s] <= Limit
    BY RunnerAssumption DEF OutputShape
  <2>3. /\ leader \in {"running", "exited", "killed"}
        /\ helper \in {"none", "attached", "detached", "dead"}
        /\ input.left \in Nat /\ input.piped \in 0 .. PipeCapacity
        /\ writer \in {"none", "writing", "done", "failed"}
    BY DEF GroupShape, InputShape
  <2>4. /\ owner.pc \in {"loop", "drain", "join", "done"}
        /\ owner.reason \in Ends \cup {"none", "read", "exit"}
        /\ status \in {"none", "exited"} /\ open \in 0 .. 2
        /\ failure \in {"none"} \cup Streams
        /\ asked \subseteq Ends
        /\ result \in Ends \cup {"none", "read", "exit", "write"}
    BY DEF OwnerShape
  <2>5. channel \in Seq(Messages) /\ Len(channel) <= Capacity
    BY DEF ChannelShape
  <2>6. \A s \in Streams : (readers[s] = "sending") = (holds[s] # "none")
    BY <2>1
  <2> QED
    BY <2>1, <2>2, <2>3, <2>4, <2>5, <2>6 DEF RunnerTypeOK
<1> QED
  BY <1>1, IInvHolds, PTL

(* When a run that was stopped has returned, nothing of its process group is *)
(* left, however the end of the leader, of its helper and of the run meet;   *)
(* when one returned because its leader exited, a helper can be left only if *)
(* it gave up the pipes or a read failed.                                    *)
THEOREM NoProcessIsLeft == Spec => []NoProcessLeft
<1>1. IInv => NoProcessLeft
  <2> SUFFICES ASSUME IInv, owner.pc = "done"
               PROVE  /\ leader # "running"
                      /\ owner.reason \in Ends => helper \in {"none", "dead"}
                      /\ owner.reason = "exit" => helper # "attached" \/ failure # "none"
    BY DEF NoProcessLeft
  <2>1. \/ owner.reason \in Ends /\ Stopped
        \/ owner.reason = "exit" /\ leader = "exited" /\ open = 0
        \/ owner.reason = "read" /\ leader # "running"
    BY DEF IInv, OwnerKnows
  <2>2. open = 0 /\ failure = "none" => ~Attached
    BY AllHeard DEF IInv
  <2> QED
    BY <2>1, <2>2 DEF Stopped, Attached, Ends
<1> QED
  BY <1>1, IInvHolds, PTL

(* A run whose reads all succeeded returns every chunk that its group wrote, *)
(* up to the limit, whether it exited or was stopped: nothing stays in a     *)
(* pipe, in the hands of a reader or in the channel.                         *)
THEOREM OutputComesBack == Spec => []OutputIsComplete
<1>1. IInv => OutputIsComplete
  <2> SUFFICES ASSUME IInv, owner.pc = "done", owner.reason # "read", failure = "none",
                      NEW s \in Streams
               PROVE  /\ observed[s] = written[s]
                      /\ retained[s] = IF written[s] < Limit THEN written[s] ELSE Limit
    BY DEF OutputIsComplete
  <2>1. open = 0
    BY DEF IInv, OwnerKnows
  <2>2. observed[s] = written[s]
    BY <2>1, AllHeard DEF IInv
  <2> QED
    BY <2>2 DEF IInv, Shape, OutputShape
<1> QED
  BY <1>1, IInvHolds, PTL
=============================================================================
