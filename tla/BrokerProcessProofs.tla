------------------------ MODULE BrokerProcessProofs ------------------------
(***************************************************************************)
(* Proofs of the safety properties of BrokerProcess, for every number of   *)
(* connections, forwarders, threads and messages.                          *)
(***************************************************************************)
EXTENDS BrokerProcess, FiniteSetTheorems, TLAPS

Holders == {c \in Conns : HoldsSlot(c)}

\* Messages are numbered in the order of their tasks, and up to the shutdown
\* of the pool all that started were submitted.
InOrder ==
    /\ \A i \in DOMAIN tasks : tasks[i] = messages - Len(tasks) + i
    /\ Len(tasks) <= messages
    /\ \E k \in 0 .. messages - Len(tasks) :
          /\ submitted = (1..k) \X ForwarderSet
          /\ phase \in {"starting", "running", "cancelling"}
                => k = messages - Len(tasks)

\* The jobs that wait, and those a thread took.
Queued == {jobs[i] : i \in DOMAIN jobs}
Taken == sending \cup {job \in Jobs : Ended(job[1], job[2])}

\* For one forwarder, what waits is in order and later than what was taken.
QueueInOrder ==
    /\ \A i, j \in DOMAIN jobs : i < j /\ jobs[i][2] = jobs[j][2] => jobs[i][1] < jobs[j][1]
    /\ \A i \in DOMAIN jobs : \A job \in Taken : job[2] = jobs[i][2] => job[1] < jobs[i][1]

\* No job is lost or made up.
Accounted == submitted = Queued \cup Taken

Idle == phase = "exited" => jobs = <<>> /\ sending = {}

IInv ==
    /\ TypeOK
    /\ SlotsAreHeld
    /\ InOrder
    /\ QueueInOrder
    /\ Accounted
    /\ Idle

-----------------------------------------------------------------------------
\* The pool gets one job per forwarder, in the order of the configuration.
LEMMA NewJobs ==
    ASSUME NEW m \in 1..MaxMessages
    PROVE  [i \in DOMAIN Forwarders |-> <<m, Forwarders[i]>>] \in Seq(Jobs)
<1>1. Forwarders \in Seq(STRING)
    BY ProcessAssumption
<1>2. PICK n \in Nat : DOMAIN Forwarders = 1..n
    BY <1>1
<1>3. \A i \in DOMAIN Forwarders : <<m, Forwarders[i]>> \in Jobs
    BY DEF Jobs, ForwarderSet
<1> QED
    BY <1>2, <1>3

\* A step of one connection that leaves the slots alone keeps SlotsAreHeld.
LEMMA SameHolders ==
    ASSUME SlotsAreHeld, UNCHANGED count,
           \A c \in Conns : HoldsSlot(c)' <=> HoldsSlot(c)
    PROVE  SlotsAreHeld'
<1>1. {c \in Conns : HoldsSlot(c)}' = {c \in Conns : HoldsSlot(c)}
    OBVIOUS
<1> QED
    BY <1>1 DEF SlotsAreHeld

\* Initially there is nothing.
LEMMA InitIInv == Init => IInv
<1> SUFFICES ASSUME Init PROVE IInv
    OBVIOUS
<1>0. /\ MaxMessages \in Nat /\ MaxConnections \in Nat
      /\ Cardinality({}) = 0
    BY ProcessAssumption, FS_EmptySet
<1> USE DEF Init
<1>1. TypeOK
    <2>1. tasks \in Seq(1..MaxMessages) /\ jobs \in Seq(Jobs)
        OBVIOUS
    <2>2. messages \in 0..MaxMessages /\ count \in Nat
        BY <1>0
    <2>3. handler \in [Conns -> {"none", "serving", "rejecting", "closing",
                                 "ended", "rejected"}]
        OBVIOUS
    <2> QED
        BY <2>1, <2>2, <2>3 DEF TypeOK
<1>2. SlotsAreHeld
    <2>1. {c \in Conns : HoldsSlot(c)} = {}
        BY DEF HoldsSlot
    <2>2. count = 0 /\ 0 <= MaxConnections
        BY <1>0
    <2> QED
        BY <2>1, <2>2, <1>0 DEF SlotsAreHeld
<1>3. InOrder
    <2>1. submitted = (1..0) \X ForwarderSet
        OBVIOUS
    <2> QED
        BY <2>1 DEF InOrder
<1>4. QueueInOrder /\ Accounted /\ Idle
    BY DEF QueueInOrder, Accounted, Queued, Taken, Ended, Idle
<1> QED
    BY <1>1, <1>2, <1>3, <1>4 DEF IInv

-----------------------------------------------------------------------------
\* What concerns the slots: connections come, are turned away, and end.
LEMMA SlotsStep == IInv /\ [Next]_vars => SlotsAreHeld' /\ count' \in Nat
<1> SUFFICES ASSUME IInv, [Next]_vars PROVE SlotsAreHeld'
    <2>1. IsFiniteSet({c \in Conns : HoldsSlot(c)}')
        BY ProcessAssumption, FS_Subset
    <2> QED
        BY <2>1, FS_CardinalityType DEF SlotsAreHeld
<1> USE ProcessAssumption DEF IInv, TypeOK
<1>1. IsFiniteSet(Holders)
    BY FS_Subset DEF Holders
<1>2. ASSUME NEW c \in Conns, Connected(c) PROVE SlotsAreHeld'
    <2>1. CASE count + 1 > MaxConnections /\ handler' = [handler EXCEPT ![c] = "rejecting"]
        <3>1. count' = count
            BY <1>2, <2>1 DEF Connected, Lowered
        <3> QED
            BY <1>2, <2>1, <3>1, SameHolders DEF Connected, HoldsSlot
    <2>2. CASE /\ count + 1 <= MaxConnections
               /\ count' = count + 1
               /\ handler' = [handler EXCEPT ![c] = "serving"]
        <3>1. Holders' = Holders \cup {c} /\ c \notin Holders
            BY <1>2, <2>2 DEF Connected, Holders, HoldsSlot
        <3>2. Cardinality(Holders') = Cardinality(Holders) + 1
            BY <1>1, <3>1, FS_AddElement
        <3> QED
            BY <2>2, <3>2 DEF SlotsAreHeld, Holders
    <2> QED
        BY <1>2, <2>1, <2>2 DEF Connected
<1>3. ASSUME NEW c \in Conns, TaskEnds(c) PROVE SlotsAreHeld'
    <2>1. CASE handler[c] = "closing"
        <3>1. Holders' = Holders \ {c} /\ c \in Holders
            BY <1>3, <2>1 DEF TaskEnds, Holders, HoldsSlot
        <3>2. Cardinality(Holders') = Cardinality(Holders) - 1
            BY <1>1, <3>1, FS_RemoveElement
        <3>3. count' = count - 1
            BY <1>3, <2>1 DEF TaskEnds, WasServed
        <3> QED
            BY <3>2, <3>3 DEF SlotsAreHeld, Holders
    <2>2. CASE handler[c] = "rejecting"
        BY <1>3, <2>2, SameHolders DEF TaskEnds, WasServed, HoldsSlot
    <2> QED
        BY <1>3, <2>1, <2>2 DEF TaskEnds
<1>4. ASSUME NEW c \in Conns, RunEnds(c) PROVE SlotsAreHeld'
    BY <1>4, SameHolders DEF RunEnds, HoldsSlot
<1>5. CASE UNCHANGED <<handler, count>>
    BY <1>5, SameHolders DEF HoldsSlot
<1>6. ASSUME NEW c \in Conns, ConnectionLost(c) \/ Publish(c) PROVE UNCHANGED <<handler, count>>
    BY <1>6 DEF ConnectionLost, Publish, net
<1>7. ASSUME Loop PROVE UNCHANGED <<handler, count>>
    BY <1>7 DEF Loop, Forward, Cancel, Shutdown, CloseLoop, Listen, Serve, net
<1>8. ASSUME Threads PROVE UNCHANGED <<handler, count>>
    BY <1>8 DEF Threads, Take, Send, CheckLink, PublishOut, End, net
<1>9. ASSUME \/ \E f \in Mqtt : LinkChanges(f)
             \/ Signal \/ ServeEnds \/ Exit \/ UNCHANGED vars
      PROVE  UNCHANGED <<handler, count>>
    BY <1>9 DEF LinkChanges, Signal, ServeEnds, Exit, net, vars
<1> QED
    BY <1>2, <1>3, <1>4, <1>5, <1>6, <1>7, <1>8, <1>9 DEF Next

\* The types.
LEMMA TypesStep == IInv /\ [Next]_vars => TypeOK'
<1> SUFFICES ASSUME IInv, [Next]_vars PROVE TypeOK'
    OBVIOUS
<1>0. count' \in Nat
    BY SlotsStep
<1>a. ASSUME NEW batch \in Seq(Jobs) PROVE jobs \o batch \in Seq(Jobs)
    <2>1. jobs \in Seq(Jobs)
        BY DEF IInv, TypeOK
    <2> QED
        BY <2>1
<1> USE ProcessAssumption DEF IInv, TypeOK
<1>1. ASSUME NEW c \in Conns, Connected(c) PROVE TypeOK'
    BY <1>0, <1>1 DEF Connected, pool, main
<1>2. ASSUME NEW c \in Conns, ConnectionLost(c) \/ RunEnds(c) \/ TaskEnds(c) PROVE TypeOK'
    BY <1>0, <1>2 DEF ConnectionLost, RunEnds, TaskEnds, pool, main
<1>3. ASSUME NEW c \in Conns, Publish(c) PROVE TypeOK'
    BY <1>3 DEF Publish, net, pool, main
<1>4. ASSUME Forward PROVE TypeOK'
    <2>1. Head(tasks) \in 1..MaxMessages /\ tasks' \in Seq(1..MaxMessages)
        BY <1>4 DEF Forward
    <2>2. jobs' \in Seq(Jobs)
        <3> DEFINE batch == [i \in DOMAIN Forwarders |-> <<Head(tasks), Forwarders[i]>>]
        <3>1. batch \in Seq(Jobs)
            BY <2>1, NewJobs
        <3>2. jobs' = jobs \/ jobs' = jobs \o batch
            BY <1>4 DEF Forward
        <3>3. jobs \o batch \in Seq(Jobs)
            BY <1>a, <3>1
        <3> QED
            BY <3>2, <3>3
    <2>3. submitted' \subseteq Jobs
        BY <1>4, <2>1 DEF Forward, Jobs
    <2> QED
        BY <1>4, <2>1, <2>2, <2>3 DEF Forward, net, main
<1>5. ASSUME Cancel \/ Shutdown \/ CloseLoop \/ Listen \/ Serve PROVE TypeOK'
    BY <1>5 DEF Cancel, Shutdown, CloseLoop, Listen, Serve, JobsLeft, net, pool, main
<1>6. ASSUME Take PROVE TypeOK'
    BY <1>6 DEF Take, Oldest, net, main
<1>7. ASSUME NEW job \in Jobs, Send(job) PROVE TypeOK'
    BY <1>7 DEF Send, End, net, main
<1>8. ASSUME NEW job \in Jobs, CheckLink(job) PROVE TypeOK'
    BY <1>8 DEF CheckLink, End, net, main
<1>9. ASSUME NEW job \in Jobs, PublishOut(job) PROVE TypeOK'
    BY <1>9 DEF PublishOut, End, net, main
<1>10. ASSUME \/ \E f \in Mqtt : LinkChanges(f)
              \/ Signal \/ ServeEnds \/ Exit \/ UNCHANGED vars
       PROVE  TypeOK'
    BY <1>10 DEF LinkChanges, Signal, ServeEnds, Exit, net, pool, main, vars
<1> QED
    BY <1>1, <1>2, <1>3, <1>4, <1>5, <1>6, <1>7, <1>8, <1>9, <1>10 DEF Next, Loop, Threads

-----------------------------------------------------------------------------
\* The numbering of messages, and what was submitted.
LEMMA InOrderStep == IInv /\ [Next]_vars => InOrder'
<1> SUFFICES ASSUME IInv, [Next]_vars PROVE InOrder'
    OBVIOUS
<1>0. /\ messages \in Nat /\ MaxMessages \in Nat
      /\ tasks \in Seq(1..MaxMessages)
      /\ Len(tasks) \in Nat
    BY ProcessAssumption DEF IInv, TypeOK
<1>a. InOrder
    BY DEF IInv
<1>1. CASE /\ UNCHANGED <<tasks, messages, submitted>>
           /\ phase' \in {"starting", "running", "cancelling"}
                => phase \in {"starting", "running", "cancelling"}
    BY <1>1, <1>a DEF InOrder
<1>2. ASSUME NEW c \in Conns, Publish(c) PROVE InOrder'
    <2>1. /\ messages' = messages + 1
          /\ tasks' = Append(tasks, messages + 1)
          /\ UNCHANGED <<submitted, phase>>
        BY <1>2 DEF Publish, main
    <2>2. /\ Len(tasks') = Len(tasks) + 1
          /\ \A i \in DOMAIN tasks : tasks'[i] = tasks[i]
          /\ tasks'[Len(tasks) + 1] = messages + 1
          /\ DOMAIN tasks' = DOMAIN tasks \cup {Len(tasks) + 1}
        BY <1>0, <2>1
    <2>3. messages' - Len(tasks') = messages - Len(tasks)
        BY <1>0, <2>1, <2>2
    <2>4. \A i \in DOMAIN tasks' : tasks'[i] = messages' - Len(tasks') + i
        BY <1>0, <1>a, <2>2, <2>3, <2>1 DEF InOrder
    <2>5. Len(tasks') <= messages'
        BY <1>0, <1>a, <2>1, <2>2 DEF InOrder
    <2> QED
        BY <1>a, <2>1, <2>3, <2>4, <2>5 DEF InOrder
<1>3. CASE Forward
    <2>1. tasks # <<>> /\ tasks' = Tail(tasks) /\ UNCHANGED <<messages, phase>>
        BY <1>3 DEF Forward, main
    <2>2. /\ Len(tasks') = Len(tasks) - 1 /\ Len(tasks') \in Nat
          /\ \A i \in DOMAIN tasks' : i + 1 \in DOMAIN tasks /\ tasks'[i] = tasks[i + 1]
          /\ DOMAIN tasks' = 1 .. Len(tasks')
          /\ Head(tasks) = tasks[1] /\ 1 \in DOMAIN tasks
        BY <1>0, <2>1
    <2>3. \A i \in DOMAIN tasks' : tasks'[i] = messages' - Len(tasks') + i
        <3> SUFFICES ASSUME NEW i \in DOMAIN tasks' PROVE tasks'[i] = messages' - Len(tasks') + i
            OBVIOUS
        <3>1. tasks'[i] = messages - Len(tasks) + (i + 1)
            BY <1>a, <2>2 DEF InOrder
        <3> QED
            BY <1>0, <2>1, <2>2, <3>1
    <2>4. PICK k \in 0 .. messages - Len(tasks) :
              /\ submitted = (1..k) \X ForwarderSet
              /\ phase \in {"starting", "running", "cancelling"}
                    => k = messages - Len(tasks)
        BY <1>a DEF InOrder
    <2>5. CASE phase = "down"
        <3>1. submitted' = submitted
            BY <1>3, <2>5 DEF Forward
        <3>2. k \in 0 .. messages' - Len(tasks') /\ Len(tasks') <= messages'
            BY <1>0, <1>a, <2>1, <2>2 DEF InOrder
        <3> QED
            BY <2>1, <2>3, <2>4, <2>5, <3>1, <3>2 DEF InOrder
    <2>6. CASE phase # "down"
        <3>1. phase \in {"starting", "running", "cancelling"}
            BY <1>3, <2>6 DEF Forward, LoopRuns
        <3>2. Head(tasks) = k + 1
            BY <1>0, <1>a, <2>2, <2>4, <3>1 DEF InOrder
        <3>3. submitted' = submitted \cup {<<k + 1, f>> : f \in ForwarderSet}
            BY <1>3, <2>6, <3>2 DEF Forward
        <3>4. 1 .. (k + 1) = (1 .. k) \cup {k + 1}
            BY <1>0
        <3>5. submitted' = (1 .. (k + 1)) \X ForwarderSet
            <4> DEFINE S == 1 .. k
                       T == 1 .. (k + 1)
            <4>1. T = S \cup {k + 1} /\ submitted = S \X ForwarderSet
                BY <2>4, <3>4
            <4> HIDE DEF S, T
            <4>2. submitted' = T \X ForwarderSet
                BY <3>3, <4>1
            <4> QED
                BY <4>2 DEF T
        <3>6. k = messages - Len(tasks) /\ k \in Nat
            BY <1>0, <2>4, <3>1
        <3>7. /\ k + 1 = messages' - Len(tasks')
              /\ k + 1 \in 0 .. messages' - Len(tasks')
              /\ Len(tasks') <= messages'
            BY <1>0, <2>1, <2>2, <3>6
        <3> QED
            BY <2>3, <3>5, <3>7 DEF InOrder
    <2> QED
        BY <2>5, <2>6
<1>4. ASSUME NEW c \in Conns, Connected(c) \/ ConnectionLost(c) \/ RunEnds(c) \/ TaskEnds(c)
      PROVE  UNCHANGED <<tasks, messages, submitted, phase>>
    BY <1>4 DEF Connected, ConnectionLost, RunEnds, TaskEnds, main
<1>5. ASSUME Cancel \/ Shutdown \/ CloseLoop \/ Listen \/ Serve \/ Exit \/ ServeEnds
      PROVE  /\ UNCHANGED <<tasks, messages, submitted>>
             /\ phase' \in {"starting", "running", "cancelling"}
                  => phase \in {"starting", "running", "cancelling"}
    BY <1>5 DEF Cancel, Shutdown, CloseLoop, Listen, Serve, Exit, ServeEnds
<1>6. ASSUME Threads PROVE UNCHANGED <<tasks, messages, submitted, phase>>
    BY <1>6 DEF Threads, Take, Send, CheckLink, PublishOut, End, main
<1>7. ASSUME (\E f \in Mqtt : LinkChanges(f)) \/ Signal \/ UNCHANGED vars
      PROVE  UNCHANGED <<tasks, messages, submitted, phase>>
    BY <1>7 DEF LinkChanges, Signal, main, vars
<1> QED
    BY <1>1, <1>2, <1>3, <1>4, <1>5, <1>6, <1>7 DEF Next, Loop

-----------------------------------------------------------------------------
\* A job that ends is taken still, and nothing else changes.
LEMMA EndKeepsTaken ==
    ASSUME TypeOK, NEW job \in sending, NEW outcome \in {"sent", "failed", "dropped"},
           End(job, outcome)
    PROVE  UNCHANGED <<jobs, submitted, Taken>>
<1>1. /\ done' = done \cup {<<job, outcome>>}
      /\ sending' = sending \ {job}
      /\ UNCHANGED <<jobs, submitted>>
    BY DEF End
<1>2. job \in Jobs /\ job = <<job[1], job[2]>> /\ sending \subseteq Jobs
    BY DEF TypeOK, Jobs
<1>3. ASSUME NEW j \in Jobs PROVE j \in Taken' <=> j \in Taken
    <2>1. j = <<j[1], j[2]>>
        BY DEF Jobs
    <2>2. CASE j = job
        <3>1. Ended(j[1], j[2])'
            BY <1>1, <1>2, <2>2 DEF Ended
        <3> QED
            BY <2>2, <3>1 DEF Taken
    <2>3. CASE j # job
        <3>1. Ended(j[1], j[2])' <=> Ended(j[1], j[2])
            BY <1>1, <2>1, <2>3 DEF Ended
        <3> QED
            BY <1>1, <2>3, <3>1 DEF Taken
    <2> QED
        BY <2>2, <2>3
<1>4. Taken \subseteq Jobs /\ Taken' \subseteq Jobs
    BY <1>1, <1>2 DEF Taken
<1> QED
    BY <1>1, <1>3, <1>4

\* All that was submitted is earlier than the next task.
LEMMA SubmittedIsEarlier ==
    ASSUME TypeOK, InOrder, tasks # <<>>, NEW job \in submitted
    PROVE  job[1] < Head(tasks)
<1>1. /\ tasks \in Seq(1..MaxMessages) /\ messages \in Nat /\ MaxMessages \in Nat
    BY ProcessAssumption DEF TypeOK
<1>2. Len(tasks) \in Nat /\ 1 \in DOMAIN tasks /\ Head(tasks) = tasks[1]
    BY <1>1
<1>3. Head(tasks) = messages - Len(tasks) + 1
    BY <1>2 DEF InOrder
<1>4. PICK k \in 0 .. messages - Len(tasks) : submitted = (1..k) \X ForwarderSet
    BY DEF InOrder
<1>5. job[1] \in 1..k
    BY <1>4
<1> QED
    BY <1>1, <1>2, <1>3, <1>4, <1>5

\* The step that queues the jobs of a message.
LEMMA ForwardStep == IInv /\ Forward => QueueInOrder' /\ Accounted'
<1> SUFFICES ASSUME IInv, Forward PROVE QueueInOrder' /\ Accounted'
    OBVIOUS
<1> DEFINE n == Head(tasks)
           batch == [i \in DOMAIN Forwarders |-> <<n, Forwarders[i]>>]
<1>1. /\ jobs \in Seq(Jobs) /\ tasks \in Seq(1..MaxMessages)
      /\ tasks # <<>> /\ n \in 1..MaxMessages /\ MaxMessages \in Nat
    <2>1. tasks \in Seq(1..MaxMessages) /\ jobs \in Seq(Jobs) /\ MaxMessages \in Nat
        BY ProcessAssumption DEF IInv, TypeOK
    <2> QED
        BY <2>1 DEF Forward
<1>2. UNCHANGED Taken
    BY DEF Forward, Taken, Ended
<1>3. QueueInOrder /\ Accounted
    BY DEF IInv
<1>4. CASE phase = "down"
    <2>1. UNCHANGED <<jobs, submitted>>
        BY <1>4 DEF Forward
    <2> QED
        BY <1>2, <1>3, <2>1 DEF QueueInOrder, Accounted, Queued
<1>5. CASE phase # "down"
    <2>1. /\ jobs' = jobs \o batch
          /\ submitted' = submitted \cup {<<n, f>> : f \in ForwarderSet}
        BY <1>5 DEF Forward
    <2>2. batch \in Seq(Jobs)
        BY <1>1, NewJobs
    <2>3. /\ \A i \in DOMAIN batch : batch[i][1] = n /\ batch[i][2] = Forwarders[i]
          /\ \A i, j \in DOMAIN batch : batch[i][2] = batch[j][2] => i = j
          /\ {batch[i] : i \in DOMAIN batch} = {<<n, f>> : f \in ForwarderSet}
        BY ProcessAssumption DEF ForwarderSet
    <2>4. \A job \in Queued \cup Taken : job[1] < n
        BY <1>1, <1>3, SubmittedIsEarlier DEF Accounted, IInv
    <2> HIDE DEF batch, n
    <2>5. /\ DOMAIN jobs = 1 .. Len(jobs) /\ Len(jobs) \in Nat
          /\ DOMAIN batch = 1 .. Len(batch) /\ Len(batch) \in Nat
          /\ DOMAIN jobs' = 1 .. (Len(jobs) + Len(batch))
          /\ \A i \in DOMAIN jobs : jobs'[i] = jobs[i]
          /\ \A i \in DOMAIN batch : jobs'[Len(jobs) + i] = batch[i]
        BY <1>1, <2>1, <2>2
    <2>6. \A i \in DOMAIN jobs' :
              \/ i \in DOMAIN jobs
              \/ /\ i > Len(jobs) /\ i - Len(jobs) \in DOMAIN batch
                 /\ jobs'[i] = batch[i - Len(jobs)]
        BY <2>5
    <2>7. ASSUME NEW i \in DOMAIN jobs', NEW j \in DOMAIN jobs',
                 i < j, jobs'[i][2] = jobs'[j][2]
          PROVE  jobs'[i][1] < jobs'[j][1]
        <3>1. CASE i \in DOMAIN jobs /\ j \in DOMAIN jobs
            BY <1>3, <2>5, <2>7, <3>1 DEF QueueInOrder
        <3>2. CASE i \in DOMAIN jobs /\ j \notin DOMAIN jobs
            <4>1. jobs'[i][1] < n
                BY <2>4, <2>5, <3>2 DEF Queued
            <4>2. jobs'[j][1] = n
                BY <2>3, <2>6, <3>2
            <4> QED
                BY <4>1, <4>2
        <3>3. CASE i \notin DOMAIN jobs /\ j \in DOMAIN jobs
            BY <2>5, <2>7, <3>3
        <3>4. CASE i \notin DOMAIN jobs /\ j \notin DOMAIN jobs
            <4>1. i - Len(jobs) = j - Len(jobs)
                BY <2>3, <2>6, <2>7, <3>4
            <4> QED
                BY <2>5, <2>7, <4>1
        <3> QED
            BY <3>1, <3>2, <3>3, <3>4
    <2>8. ASSUME NEW i \in DOMAIN jobs', NEW job \in Taken, job[2] = jobs'[i][2]
          PROVE  job[1] < jobs'[i][1]
        <3>1. CASE i \in DOMAIN jobs
            BY <1>3, <2>5, <2>8, <3>1 DEF QueueInOrder
        <3>2. CASE i \notin DOMAIN jobs
            BY <2>3, <2>4, <2>6, <3>2
        <3> QED
            BY <3>1, <3>2
    <2>9. Queued' = Queued \cup {<<n, f>> : f \in ForwarderSet}
        <3>1. Queued' = {jobs'[i] : i \in DOMAIN jobs'}
            BY DEF Queued
        <3>2. ASSUME NEW i \in DOMAIN jobs' PROVE jobs'[i] \in Queued \cup {<<n, f>> : f \in ForwarderSet}
            BY <2>3, <2>5, <2>6 DEF Queued
        <3>3. ASSUME NEW i \in DOMAIN jobs PROVE jobs[i] \in Queued'
            <4>1. i \in DOMAIN jobs' /\ jobs'[i] = jobs[i]
                BY <2>5
            <4> QED
                BY <3>1, <4>1
        <3>4. ASSUME NEW i \in DOMAIN batch PROVE batch[i] \in Queued'
            <4>1. Len(jobs) + i \in DOMAIN jobs' /\ jobs'[Len(jobs) + i] = batch[i]
                BY <2>5
            <4> QED
                BY <3>1, <4>1
        <3>5. Queued' \subseteq Queued \cup {<<n, f>> : f \in ForwarderSet}
            BY <3>1, <3>2
        <3>6. {<<n, f>> : f \in ForwarderSet} \subseteq Queued'
            BY <2>3, <3>4
        <3>7. Queued \subseteq Queued'
            BY <3>3 DEF Queued
        <3> QED
            BY <3>5, <3>6, <3>7
    <2>10. QueueInOrder'
        BY <1>2, <2>7, <2>8 DEF QueueInOrder
    <2>11. Accounted'
        BY <1>2, <1>3, <2>1, <2>9 DEF Accounted
    <2> QED
        BY <2>10, <2>11
<1> QED
    BY <1>4, <1>5

\* The step in which a thread takes a job.
LEMMA TakeStep == IInv /\ Take => QueueInOrder' /\ Accounted'
<1> SUFFICES ASSUME IInv, Take PROVE QueueInOrder' /\ Accounted'
    OBVIOUS
<1> DEFINE head == Head(jobs)
<1>1. jobs \in Seq(Jobs) /\ jobs # <<>>
    <2>1. jobs \in Seq(Jobs)
        BY DEF IInv, TypeOK
    <2> QED
        BY <2>1 DEF Take
<1>2. /\ sending' = sending \cup {head} /\ jobs' = Tail(jobs)
      /\ UNCHANGED <<done, submitted>>
    BY DEF Take, Oldest
<1>3. /\ DOMAIN jobs = 1 .. Len(jobs) /\ Len(jobs) \in Nat /\ Len(jobs) >= 1
      /\ DOMAIN jobs' = 1 .. (Len(jobs) - 1)
      /\ \A i \in DOMAIN jobs' : jobs'[i] = jobs[i + 1]
      /\ head = jobs[1]
    BY <1>1, <1>2
<1>4. QueueInOrder /\ Accounted
    BY DEF IInv
<1> HIDE DEF head
<1>5. /\ 1 \in DOMAIN jobs
      /\ \A i \in DOMAIN jobs' : i \in Int /\ i + 1 \in DOMAIN jobs /\ 1 < i + 1
      /\ \A i \in DOMAIN jobs : i = 1 \/ (i - 1 \in DOMAIN jobs' /\ jobs'[i - 1] = jobs[i])
    BY <1>3
<1>6. Taken' = Taken \cup {head}
    BY <1>2 DEF Taken, Ended
<1>7. Queued = Queued' \cup {head}
    <2>1. Queued' = {jobs'[i] : i \in DOMAIN jobs'}
        BY DEF Queued
    <2>2. Queued' \subseteq Queued
        BY <1>3, <1>5, <2>1 DEF Queued
    <2>3. ASSUME NEW i \in DOMAIN jobs PROVE jobs[i] \in Queued' \cup {head}
        BY <1>3, <1>5, <2>1
    <2>4. head \in Queued
        BY <1>3, <1>5 DEF Queued
    <2> QED
        BY <2>2, <2>3, <2>4 DEF Queued
<1>8. ASSUME NEW i \in DOMAIN jobs', NEW j \in DOMAIN jobs',
             i < j, jobs'[i][2] = jobs'[j][2]
      PROVE  jobs'[i][1] < jobs'[j][1]
    <2>1. i + 1 < j + 1
        BY <1>5, <1>8
    <2> QED
        BY <1>3, <1>4, <1>5, <1>8, <2>1 DEF QueueInOrder
<1>9. ASSUME NEW i \in DOMAIN jobs', NEW job \in Taken', job[2] = jobs'[i][2]
      PROVE  job[1] < jobs'[i][1]
    <2>1. CASE job \in Taken
        BY <1>3, <1>4, <1>5, <1>9, <2>1 DEF QueueInOrder
    <2>2. CASE job = head
        BY <1>3, <1>4, <1>5, <1>9, <2>2 DEF QueueInOrder
    <2> QED
        BY <1>6, <2>1, <2>2
<1>10. QueueInOrder'
    BY <1>8, <1>9 DEF QueueInOrder
<1>11. Accounted'
    BY <1>2, <1>4, <1>6, <1>7 DEF Accounted
<1> QED
    BY <1>10, <1>11

\* The queue, over all steps.
LEMMA QueueStep == IInv /\ [Next]_vars => QueueInOrder' /\ Accounted'
<1> SUFFICES ASSUME IInv, [Next]_vars PROVE QueueInOrder' /\ Accounted'
    OBVIOUS
<1>1. CASE UNCHANGED <<jobs, submitted, Taken>>
    BY <1>1 DEF IInv, QueueInOrder, Accounted, Queued
<1>2. ASSUME UNCHANGED <<jobs, sending, done, submitted>>
      PROVE  UNCHANGED <<jobs, submitted, Taken>>
    BY <1>2 DEF Taken, Ended
<1>3. ASSUME NEW job \in Jobs, Send(job) \/ CheckLink(job) \/ PublishOut(job)
      PROVE  UNCHANGED <<jobs, submitted, Taken>>
    <2>1. \/ UNCHANGED <<jobs, sending, done, submitted>>
          \/ job \in sending /\ \E o \in {"sent", "failed", "dropped"} : End(job, o)
        BY <1>3 DEF IInv, TypeOK, Send, CheckLink, PublishOut
    <2> QED
        BY <1>2, <2>1, EndKeepsTaken DEF IInv
<1>4. ASSUME NEW c \in Conns, \/ Connected(c) \/ ConnectionLost(c) \/ RunEnds(c)
                              \/ TaskEnds(c) \/ Publish(c)
      PROVE  UNCHANGED <<jobs, sending, done, submitted>>
    BY <1>4 DEF Connected, ConnectionLost, RunEnds, TaskEnds, Publish, pool
<1>5. ASSUME \/ Cancel \/ Shutdown \/ CloseLoop \/ Listen \/ Serve \/ Exit \/ ServeEnds
             \/ (\E f \in Mqtt : LinkChanges(f)) \/ Signal \/ UNCHANGED vars
      PROVE  UNCHANGED <<jobs, sending, done, submitted>>
    BY <1>5 DEF Cancel, Shutdown, JobsLeft, CloseLoop, Listen, Serve, Exit, ServeEnds,
               LinkChanges, Signal, pool, vars
<1> QED
    BY <1>1, <1>2, <1>3, <1>4, <1>5, ForwardStep, TakeStep DEF Next, Loop, Threads

\* The process is over only when the pool is empty.
LEMMA IdleStep == IInv /\ [Next]_vars => Idle'
<1> SUFFICES ASSUME IInv, [Next]_vars, phase' = "exited" PROVE jobs' = <<>> /\ sending' = {}
    BY DEF Idle
<1>1. CASE Exit
    BY <1>1 DEF Exit, pool
<1>2. ASSUME phase = "exited" PROVE jobs = <<>> /\ sending = {}
    BY <1>2 DEF IInv, Idle
<1>3. ASSUME NEW c \in Conns, \/ Connected(c) \/ ConnectionLost(c) \/ RunEnds(c)
                              \/ TaskEnds(c) \/ Publish(c)
      PROVE  FALSE
    BY <1>3 DEF Connected, ConnectionLost, RunEnds, TaskEnds, Publish, LoopRuns, main
<1>4. ASSUME Loop \/ ServeEnds PROVE FALSE
    BY <1>4 DEF Loop, Forward, Cancel, Shutdown, CloseLoop, Listen, Serve, ServeEnds,
               LoopRuns, main
<1>5. ASSUME Threads PROVE FALSE
    <2>1. jobs = <<>> /\ sending = {} /\ checked = {}
        BY <1>2, <1>5 DEF IInv, TypeOK, Threads, Take, Send, CheckLink, PublishOut, End, main
    <2> QED
        BY <1>5, <2>1 DEF Threads, Take, Send, CheckLink, PublishOut
<1>6. CASE (\E f \in Mqtt : LinkChanges(f)) \/ Signal \/ UNCHANGED vars
    BY <1>2, <1>6 DEF LinkChanges, Signal, pool, main, vars
<1> QED
    BY <1>1, <1>3, <1>4, <1>5, <1>6 DEF Next

-----------------------------------------------------------------------------
\* The invariant holds in every state of every behaviour.
THEOREM Invariance == Spec => []IInv
<1>1. IInv /\ [Next]_vars => IInv'
    BY TypesStep, SlotsStep, InOrderStep, QueueStep, IdleStep DEF IInv
<1> QED
    BY InitIInv, <1>1, PTL DEF Spec

\* Every variable has its type.
THEOREM TypeCorrect == Spec => []TypeOK
<1>1. IInv => TypeOK
    BY DEF IInv
<1> QED
    BY Invariance, <1>1, PTL

\* The counter is the number of connections that hold a slot, and within the
\* limit: _client_connected loses no slot and frees none twice.
THEOREM SlotsAreCounted == Spec => []SlotsAreHeld
<1>1. IInv => SlotsAreHeld
    BY DEF IInv
<1> QED
    BY Invariance, <1>1, PTL

\* Forwarding loses the order of two messages only between two threads that
\* are busy with them, whatever the number of threads.
THEOREM OrderIsLostInThreadsOnly == Spec => []OvertakenOnlyWhileSending
<1>1. ASSUME IInv PROVE OvertakenOnlyWhileSending
    <2> SUFFICES ASSUME NEW m \in 1..MaxMessages, NEW n \in 1..MaxMessages,
                        NEW f \in ForwarderSet, m < n, Ended(n, f), ~Ended(m, f)
                 PROVE  <<m, f>> \in sending
        BY DEF OvertakenOnlyWhileSending
    <2>1. <<n, f>> \in Taken /\ <<m, f>> \in Jobs
        BY DEF Taken, Jobs
    <2>2. <<m, f>> \in submitted
        <3>1. PICK k \in 0 .. messages - Len(tasks) : submitted = (1..k) \X ForwarderSet
            BY <1>1 DEF IInv, InOrder
        <3>2. n \in 1..k
            BY <1>1, <2>1, <3>1 DEF IInv, Accounted
        <3>3. m \in 1..k
            <4>1. m \in Nat /\ n \in Nat /\ m >= 1
                BY ProcessAssumption
            <4> QED
                BY <3>2, <4>1
        <3> QED
            BY <3>1, <3>3
    <2>3. <<m, f>> \notin Queued
        <3> SUFFICES ASSUME NEW i \in DOMAIN jobs, jobs[i] = <<m, f>> PROVE FALSE
            BY DEF Queued
        <3>1. <<n, f>>[1] < jobs[i][1]
            BY <1>1, <2>1 DEF IInv, QueueInOrder
        <3>2. n < m
            BY <3>1
        <3> QED
            BY <3>2, ProcessAssumption
    <2> QED
        BY <1>1, <2>2, <2>3 DEF IInv, Accounted, Taken
<1> QED
    BY Invariance, <1>1, PTL

\* When the process is over, every job that was queued has been tried.
NothingLeft == phase = "exited" => \A job \in submitted : Ended(job[1], job[2])

\* The shutdown waits for the pool: shutdown(wait=False) gives up no job.
THEOREM ExitIsDrained == Spec => []NothingLeft
<1>1. ASSUME IInv, phase = "exited", NEW job \in submitted PROVE Ended(job[1], job[2])
    <2>1. job[1] \in 1..MaxMessages /\ job[2] \in ForwarderSet /\ job = <<job[1], job[2]>>
        BY <1>1 DEF IInv, TypeOK, Jobs
    <2>2. jobs = <<>> /\ sending = {}
        BY <1>1 DEF IInv, Idle
    <2> QED
        BY <1>1, <2>1, <2>2 DEF IInv, Accounted, Queued, Taken
<1>2. IInv => NothingLeft
    BY <1>1 DEF NothingLeft
<1> QED
    BY Invariance, <1>2, PTL

=============================================================================
