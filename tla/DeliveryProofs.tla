--------------------------- MODULE DeliveryProofs ---------------------------
(***************************************************************************)
(* Proofs about Delivery for every number of connections, clients and      *)
(* messages.  With takeovers and without: its steps are steps of the       *)
(* connections underneath, no message is received twice, none is left in   *)
(* the queue of a client that is connected, and a connection that stays up *)
(* brings all that was routed to it.  Without takeovers: messages are read *)
(* in the order of route.                                                  *)
(***************************************************************************)
EXTENDS Delivery, BrokerSessionsProofs

\* The messages of a sequence of tasks or copies.
MsgsIn(q) == {q[i].msg : i \in 1..Len(q)}

\* The messages of a sequence of messages.
Members(q) == {q[i] : i \in 1..Len(q)}

\* No message comes twice in a sequence.
DistinctMsgs(q) == \A i, j \in 1..Len(q) : q[i].msg = q[j].msg => i = j

Distinct(q) == \A i, j \in 1..Len(q) : q[i] = q[j] => i = j

Kinds == {"unrouted", "task", "queue", "replay", "wire", "received"}

\* The message m is in the place of kind k that belongs to h, or to nobody.
At(k, h, m) ==
    \/ k = "unrouted" /\ h = None /\ m \in unrouted
    \/ k = "task" /\ h = None /\ m \in MsgsIn(tasks)
    \/ k = "queue" /\ h \in Conns /\ m \in Members(queue[h])
    \/ k = "replay" /\ h \in Conns /\ m \in Members(draining[h])
    \/ k = "wire" /\ h \in Conns /\ m \in MsgsIn(wire[h])
    \/ k = "received" /\ h = None /\ m \in MsgsIn(received)

OnePlace ==
    \A m \in Messages, k1, k2 \in Kinds, h1, h2 \in Conns \cup {None} :
        At(k1, h1, m) /\ At(k2, h2, m) => k1 = k2 /\ h1 = h2

OnceInPlace ==
    /\ DistinctMsgs(tasks) /\ DistinctMsgs(received)
    /\ \A h \in Conns :
          Distinct(queue[h]) /\ Distinct(draining[h]) /\ DistinctMsgs(wire[h])

DInv ==
    /\ DeliveryTypeOK
    /\ OnePlace
    /\ OnceInPlace
    /\ NothingStranded

-----------------------------------------------------------------------------
(***************************************************************************)
(* Sequences without repetition.                                           *)
(***************************************************************************)
LEMMA TailOfDistinct ==
    ASSUME NEW S, NEW q \in Seq(S), q # <<>>, Distinct(q)
    PROVE  /\ Tail(q) \in Seq(S) /\ Head(q) \in S /\ Head(q) \in Members(q)
           /\ Distinct(Tail(q))
           /\ Members(Tail(q)) = Members(q) \ {Head(q)}
           /\ Len(Tail(q)) <= Len(q)
<1>1. /\ Len(q) \in Nat \ {0} /\ Len(Tail(q)) = Len(q) - 1
      /\ \A i \in 1..Len(Tail(q)) : Tail(q)[i] = q[i + 1]
      /\ Tail(q) \in Seq(S) /\ Head(q) = q[1] /\ Head(q) \in S
    OBVIOUS
<1>2. Distinct(Tail(q))
    BY <1>1 DEF Distinct
<1>3. Members(Tail(q)) \subseteq Members(q) \ {Head(q)}
    BY <1>1 DEF Members, Distinct
<1>4. ASSUME NEW i \in 1..Len(q), q[i] # Head(q) PROVE q[i] \in Members(Tail(q))
    <2>1. i - 1 \in 1..Len(Tail(q)) /\ Tail(q)[i - 1] = q[i]
        BY <1>1, <1>4
    <2> QED
        BY <2>1 DEF Members
<1>5. \A e \in Members(q) \ {Head(q)} : e \in Members(Tail(q))
    <2> TAKE e \in Members(q) \ {Head(q)}
    <2>1. PICK i \in 1..Len(q) : e = q[i]
        BY DEF Members
    <2> QED
        BY <1>4, <2>1
<1>6. Head(q) \in Members(q)
    BY <1>1 DEF Members
<1>7. Members(Tail(q)) = Members(q) \ {Head(q)}
    BY <1>3, <1>5
<1> QED
    BY <1>1, <1>2, <1>6, <1>7

LEMMA AppendToDistinct ==
    ASSUME NEW S, NEW q \in Seq(S), Distinct(q), NEW e \in S, e \notin Members(q)
    PROVE  /\ Append(q, e) \in Seq(S)
           /\ Distinct(Append(q, e))
           /\ Members(Append(q, e)) = Members(q) \cup {e}
<1>1. /\ Len(q) \in Nat /\ Len(Append(q, e)) = Len(q) + 1
      /\ Append(q, e) \in Seq(S)
      /\ \A i \in 1..Len(q) : Append(q, e)[i] = q[i]
      /\ Append(q, e)[Len(q) + 1] = e
    OBVIOUS
<1>2. Distinct(Append(q, e))
    BY <1>1 DEF Distinct, Members
<1>3. Members(Append(q, e)) = Members(q) \cup {e}
    BY <1>1 DEF Members
<1> QED
    BY <1>1, <1>2, <1>3

LEMMA TailOfDistinctMsgs ==
    ASSUME NEW S, NEW q \in Seq(S), q # <<>>, DistinctMsgs(q)
    PROVE  /\ Tail(q) \in Seq(S) /\ Head(q) \in S /\ Head(q).msg \in MsgsIn(q)
           /\ DistinctMsgs(Tail(q))
           /\ MsgsIn(Tail(q)) = MsgsIn(q) \ {Head(q).msg}
<1>1. /\ Len(q) \in Nat \ {0} /\ Len(Tail(q)) = Len(q) - 1
      /\ \A i \in 1..Len(Tail(q)) : Tail(q)[i] = q[i + 1]
      /\ Tail(q) \in Seq(S) /\ Head(q) = q[1] /\ Head(q) \in S
    OBVIOUS
<1>2. DistinctMsgs(Tail(q))
    BY <1>1 DEF DistinctMsgs
<1>3. MsgsIn(Tail(q)) \subseteq MsgsIn(q) \ {Head(q).msg}
    BY <1>1 DEF MsgsIn, DistinctMsgs
<1>4. ASSUME NEW i \in 1..Len(q), q[i].msg # Head(q).msg
      PROVE  q[i].msg \in MsgsIn(Tail(q))
    <2>1. i - 1 \in 1..Len(Tail(q)) /\ Tail(q)[i - 1] = q[i]
        BY <1>1, <1>4
    <2> QED
        BY <2>1 DEF MsgsIn
<1>5. \A e \in MsgsIn(q) \ {Head(q).msg} : e \in MsgsIn(Tail(q))
    <2> TAKE e \in MsgsIn(q) \ {Head(q).msg}
    <2>1. PICK i \in 1..Len(q) : e = q[i].msg
        BY DEF MsgsIn
    <2> QED
        BY <1>4, <2>1
<1>6. Head(q).msg \in MsgsIn(q)
    BY <1>1 DEF MsgsIn
<1>7. MsgsIn(Tail(q)) = MsgsIn(q) \ {Head(q).msg}
    BY <1>3, <1>5
<1> QED
    BY <1>1, <1>2, <1>6, <1>7

LEMMA AppendToDistinctMsgs ==
    ASSUME NEW S, NEW q \in Seq(S), DistinctMsgs(q), NEW e \in S, e.msg \notin MsgsIn(q)
    PROVE  /\ Append(q, e) \in Seq(S)
           /\ DistinctMsgs(Append(q, e))
           /\ MsgsIn(Append(q, e)) = MsgsIn(q) \cup {e.msg}
<1>1. /\ Len(q) \in Nat /\ Len(Append(q, e)) = Len(q) + 1
      /\ Append(q, e) \in Seq(S)
      /\ \A i \in 1..Len(q) : Append(q, e)[i] = q[i]
      /\ Append(q, e)[Len(q) + 1] = e
    OBVIOUS
<1>2. DistinctMsgs(Append(q, e))
    BY <1>1 DEF DistinctMsgs, MsgsIn
<1>3. MsgsIn(Append(q, e)) = MsgsIn(q) \cup {e.msg}
    BY <1>1 DEF MsgsIn
<1> QED
    BY <1>1, <1>2, <1>3

-----------------------------------------------------------------------------
(***************************************************************************)
(* The connections underneath.                                             *)
(***************************************************************************)
LEMMA DeliveryStep == DeliveryNext => [Next]_vars
<1> SUFFICES ASSUME DeliveryNext PROVE [Next]_vars
    OBVIOUS
<1>1. ASSUME NEW m \in Messages, Route(m) PROVE UNCHANGED vars
    BY <1>1 DEF Route, vars
<1>2. CASE Deliver
    BY <1>2 DEF Deliver, vars
<1>3. ASSUME NEW h \in Conns, Replay(h) \/ Receive(h) PROVE UNCHANGED vars
    BY <1>3 DEF Replay, Receive, vars
<1>4. ASSUME NEW h \in Conns, HandlePuback(h) PROVE Next \/ UNCHANGED vars
    <2>1. /\ CanRead(h) /\ Continue(h, subs, object)
          /\ UNCHANGED <<cid, mine, kick, willsSent, brought>>
        BY <1>4 DEF HandlePuback, Reading
    <2>2. CASE connected[h]
        BY <2>1, <2>2 DEF Continue, vars
    <2>3. CASE ~connected[h]
        <3>1. LeaveLoop(h)
            BY <2>1, <2>3 DEF Continue, LeaveLoop, CanRead
        <3> QED
            BY <3>1 DEF Next, Handler
    <2> QED
        BY <2>2, <2>3
<1>5. ASSUME NEW h \in Conns, NEW o \in ConnectOptions, NEW broken \in BOOLEAN,
             ConnectSubscriber(h, o, broken)
      PROVE  Next
    <2>1. Connect(h, Subscriber, o, broken) /\ Subscriber \in Clients
        BY <1>5, DeliveryAssumption DEF ConnectSubscriber
    <2> QED
        BY <2>1, Zenon DEF Next, Handler
<1>6. ASSUME NEW h \in Conns, ConnackedSubscriber(h) PROVE Next
    BY <1>6 DEF ConnackedSubscriber, Next, Handler
<1>7. ASSUME NEW h \in Conns, Lifecycle(h) PROVE Next
    BY <1>7, DeliveryAssumption, Zenon DEF Lifecycle, Next, Handler
<1> QED
    BY <1>1, <1>2, <1>3, <1>4, <1>5, <1>6, <1>7 DEF DeliveryNext

\* Whatever is routed, delivered and acknowledged, the connections behave as
\* BrokerSessions says, so all that is proved of them holds here.
THEOREM DeliveryIsOverConnections == DeliverySpec => Spec
<1>1. DeliveryInit => Init
    BY DEF DeliveryInit
<1>2. [DeliveryNext]_<<vars, outbound>> => [Next]_vars
    BY DeliveryStep
<1> QED
    BY <1>1, <1>2, PTL DEF DeliverySpec, Spec

-----------------------------------------------------------------------------
(***************************************************************************)
(* The places of the messages.                                             *)
(***************************************************************************)
\* One message moves and the others stay, or are lost.
LEMMA Moved ==
    ASSUME OnePlace, NEW m \in Messages, NEW k \in Kinds, NEW h \in Conns \cup {None},
           \A n \in Messages \ {m}, j \in Kinds, g \in Conns \cup {None} :
               At(j, g, n)' => At(j, g, n),
           \A j \in Kinds, g \in Conns \cup {None} : At(j, g, m)' => j = k /\ g = h
    PROVE  OnePlace'
<1> SUFFICES ASSUME NEW n \in Messages, NEW k1 \in Kinds, NEW k2 \in Kinds,
                    NEW h1 \in Conns \cup {None}, NEW h2 \in Conns \cup {None},
                    At(k1, h1, n)', At(k2, h2, n)'
             PROVE  k1 = k2 /\ h1 = h2
    BY DEF OnePlace
<1>1. CASE n = m
    BY <1>1
<1>2. CASE n # m
    BY <1>2 DEF OnePlace
<1> QED
    BY <1>1, <1>2

\* A step of the connections that leaves the messages alone.
LEMMA PlacesKept ==
    ASSUME DInv, UNCHANGED <<unrouted, tasks, queue, draining, wire, received>>
    PROVE  OnePlace' /\ OnceInPlace'
<1>1. \A k \in Kinds, h \in Conns \cup {None}, m \in Messages : At(k, h, m)' <=> At(k, h, m)
    BY DEF At
<1>2. OnePlace'
    BY <1>1 DEF DInv, OnePlace
<1>3. OnceInPlace'
    BY DEF DInv, OnceInPlace
<1> QED
    BY <1>2, <1>3

\* The types of what a step of the connections leaves alone.
LEMMA TypesKept ==
    ASSUME DInv, UNCHANGED <<unrouted, tasks, queue, draining, wire, received, routed, taken>>,
           inflight' \in [Conns -> SUBSET Messages], pubacks' \in [Conns -> Seq(Messages)],
           \A h \in Conns : draining[h] # <<>> => pc'[h] = "loop"
    PROVE  DeliveryTypeOK'
BY DEF DInv, DeliveryTypeOK

\* A registered handler that stays registered keeps its session, and no
\* handler comes to its loop.
LEMMA StrandedKept ==
    ASSUME DInv, queue' = queue,
           \A h \in Conns : clients'[Subscriber] = h =>
               clients[Subscriber] = h /\ sessions'[Subscriber] = sessions[Subscriber],
           \A h \in Conns : pc'[h] = "loop" => pc[h] = "loop"
    PROVE  NothingStranded'
BY DEF DInv, NothingStranded

\* What a teardown leaves of the registry and the store.
LEMMA TeardownLeaves ==
    ASSUME IInv, NEW g \in Conns, cid[g] # None,
           NEW clean, NEW table, NEW objs, Teardown(g, clean, table, objs)
    PROVE  \A h \in Conns : clients'[Subscriber] = h =>
               clients[Subscriber] = h /\ sessions'[Subscriber] = sessions[Subscriber]
<1>1. /\ cid[g] \in Clients /\ Subscriber \in Clients
      /\ clients \in [Clients -> Conns \cup {None}]
      /\ sessions \in [Clients -> Conns \cup {None}]
    BY DeliveryAssumption DEF IInv, TypeOK
<1>2. /\ clients' = [clients EXCEPT ![cid[g]] = None]
      /\ sessions' = [sessions EXCEPT ![cid[g]] = None] \/ sessions' = sessions
    BY DEF Teardown, Unregistered
<1> QED
    BY <1>1, <1>2, ConstantsAssumption

\* The steps of a connection that bring no handler to its loop.
LEMMA LifecycleKeepsDInv ==
    ASSUME IInv, DInv, NEW h \in Conns, Lifecycle(h)
    PROVE  DInv'
<1>1. UNCHANGED outbound
    BY DEF Lifecycle
<1>2. /\ pc \in [Conns -> {"new", "first", "connack", "loop", "disconnecting",
                           "final", "done"}]
      /\ \A g \in Conns : draining[g] # <<>> => pc[g] = "loop"
      /\ pc[h] \in {"connack", "loop", "disconnecting"} => cid[h] # None
      /\ kick[h] = "due" => cid[h] # None
    BY DEF IInv, TypeOK, Ownership, DInv, DeliveryTypeOK
<1>3. \/ Accept(h) \/ Reject(h) \/ SendFails(h) \/ Closed(h)
      \/ \E clean, table, objs :
             /\ cid[h] # None
             /\ Teardown(h, clean, table, objs)
             /\ \/ draining[h] = <<>> /\ \E place \in {"disconnecting", "final"} :
                                           pc' = [pc EXCEPT ![h] = place]
                \/ pc' = pc
      \/ UNCHANGED <<pc, clients, sessions>>
    <2>1. CASE Subscribe(h, TheFilter, FALSE) /\ draining[h] = <<>>
        BY <1>2, <2>1, Zenon DEF Subscribe, Continue, Finish, CanRead
    <2>2. CASE Unsubscribe(h, TheFilter) /\ draining[h] = <<>>
        BY <1>2, <2>2, Zenon DEF Unsubscribe, Continue, Finish, CanRead
    <2>3. CASE Disconnect(h, TRUE) /\ draining[h] = <<>>
        BY <1>2, <2>3 DEF Disconnect, CanRead
    <2>4. CASE DisconnectClosed(h)
        BY <1>2, <2>4 DEF DisconnectClosed, Finish
    <2>5. CASE LeaveLoop(h) /\ draining[h] = <<>>
        BY <1>2, <2>5 DEF LeaveLoop, Finish
    <2>6. CASE KickTask(h)
        BY <1>2, <2>6 DEF KickTask
    <2> QED
        BY <2>1, <2>2, <2>3, <2>4, <2>5, <2>6 DEF Lifecycle, Reading
<1>4. /\ \A g \in Conns : clients'[Subscriber] = g =>
            clients[Subscriber] = g /\ sessions'[Subscriber] = sessions[Subscriber]
      /\ \A g \in Conns : pc'[g] = "loop" => pc[g] = "loop"
      /\ \A g \in Conns : draining[g] # <<>> => pc'[g] = "loop"
    <2>1. CASE Accept(h) \/ Reject(h) \/ SendFails(h) \/ Closed(h)
        BY <1>2, <2>1 DEF Accept, Reject, SendFails, Closed
    <2>2. ASSUME NEW clean, NEW table, NEW objs, cid[h] # None,
                 Teardown(h, clean, table, objs),
                 \/ draining[h] = <<>> /\ \E place \in {"disconnecting", "final"} :
                                            pc' = [pc EXCEPT ![h] = place]
                 \/ pc' = pc
          PROVE  \A g \in Conns :
                     /\ clients'[Subscriber] = g =>
                           clients[Subscriber] = g /\ sessions'[Subscriber] = sessions[Subscriber]
                     /\ pc'[g] = "loop" => pc[g] = "loop"
                     /\ draining[g] # <<>> => pc'[g] = "loop"
        <3>1. \A g \in Conns : clients'[Subscriber] = g =>
                  clients[Subscriber] = g /\ sessions'[Subscriber] = sessions[Subscriber]
            BY <2>2, TeardownLeaves
        <3>2. \A g \in Conns : /\ pc'[g] = "loop" => pc[g] = "loop"
                               /\ draining[g] # <<>> => pc'[g] = "loop"
            BY <1>2, <2>2
        <3> QED
            BY <3>1, <3>2
    <2>3. CASE UNCHANGED <<pc, clients, sessions>>
        BY <1>2, <2>3
    <2> QED
        BY <1>3, <2>1, <2>2, <2>3
<1>5. DeliveryTypeOK'
    BY <1>1, <1>4, TypesKept DEF outbound, DInv, DeliveryTypeOK
<1>6. NothingStranded'
    BY <1>1, <1>4, StrandedKept DEF outbound
<1>7. OnePlace' /\ OnceInPlace'
    BY <1>1, PlacesKept DEF outbound
<1> QED
    BY <1>5, <1>6, <1>7 DEF DInv

\* An acknowledgement is read: the loop goes on, or ends with the connection.
LEMMA HandlePubackKeepsDInv ==
    ASSUME IInv, DInv, NEW h \in Conns, HandlePuback(h)
    PROVE  DInv'
<1>1. /\ UNCHANGED <<unrouted, tasks, queue, draining, wire, received, routed, taken>>
      /\ pubacks[h] # <<>>
      /\ pubacks' = [pubacks EXCEPT ![h] = Tail(@)]
      /\ inflight' = [inflight EXCEPT ![mine[h]] = @ \ {Head(pubacks[h])}]
    BY DEF HandlePuback
<1>2. /\ pc[h] = "loop" /\ draining[h] = <<>> /\ cid[h] # None /\ mine[h] \in Conns
      /\ pc \in [Conns -> {"new", "first", "connack", "loop", "disconnecting",
                           "final", "done"}]
      /\ \A g \in Conns : draining[g] # <<>> => pc[g] = "loop"
      /\ inflight \in [Conns -> SUBSET Messages] /\ pubacks \in [Conns -> Seq(Messages)]
    BY DEF HandlePuback, Reading, CanRead, IInv, TypeOK, DInv, DeliveryTypeOK
<1>3. \A g \in Conns :
          /\ clients'[Subscriber] = g =>
                clients[Subscriber] = g /\ sessions'[Subscriber] = sessions[Subscriber]
          /\ pc'[g] = "loop" => pc[g] = "loop"
          /\ draining[g] # <<>> => pc'[g] = "loop"
    <2>1. CASE UNCHANGED <<pc, clients, sessions>>
        BY <1>2, <2>1
    <2>2. CASE /\ Teardown(h, FALSE, subs, object)
               /\ pc' = [pc EXCEPT ![h] = "final"]
        <3>1. \A g \in Conns : clients'[Subscriber] = g =>
                  clients[Subscriber] = g /\ sessions'[Subscriber] = sessions[Subscriber]
            BY <1>2, <2>2, TeardownLeaves
        <3>2. \A g \in Conns : /\ pc'[g] = "loop" => pc[g] = "loop"
                               /\ draining[g] # <<>> => pc'[g] = "loop"
            BY <1>2, <2>2
        <3> QED
            BY <3>1, <3>2
    <2> QED
        BY <2>1, <2>2 DEF HandlePuback, Continue, Finish
<1>4. inflight' \in [Conns -> SUBSET Messages] /\ pubacks' \in [Conns -> Seq(Messages)]
    <2>1. pubacks[h] \in Seq(Messages) /\ Tail(pubacks[h]) \in Seq(Messages)
        BY <1>1, <1>2
    <2> QED
        BY <1>1, <1>2, <2>1
<1>5. DeliveryTypeOK'
    BY <1>1, <1>3, <1>4, TypesKept
<1>6. NothingStranded'
    BY <1>1, <1>3, StrandedKept
<1>7. OnePlace' /\ OnceInPlace'
    BY <1>1, PlacesKept
<1> QED
    BY <1>5, <1>6, <1>7 DEF DInv

-----------------------------------------------------------------------------
(***************************************************************************)
(* The steps that move messages.                                           *)
(***************************************************************************)
LEMMA RouteKeepsDInv ==
    ASSUME IInv, DInv, NEW m \in Messages, Route(m)
    PROVE  DInv'
<1> DEFINE h == clients[Subscriber]
           task == [handler |-> h, msg |-> m]
<1>1. /\ m \in unrouted
      /\ unrouted' = unrouted \ {m}
      /\ routed' = Append(routed, m)
      /\ \/ h # None /\ tasks' = Append(tasks, task)
         \/ tasks' = tasks
      /\ \E x \in {h, Offline, None} : taken' = [taken EXCEPT ![m] = x]
      /\ UNCHANGED <<queue, inflight, draining, wire, pubacks, received, pc, clients, sessions>>
    BY DEF Route, vars
<1>2. /\ h \in Conns \cup {None}
      /\ unrouted \subseteq Messages /\ tasks \in Seq(Task) /\ routed \in Seq(Messages)
      /\ taken \in [Messages -> Conns \cup {None, Offline}]
      /\ DistinctMsgs(tasks)
    BY DeliveryAssumption DEF IInv, TypeOK, DInv, DeliveryTypeOK, OnceInPlace
<1>3. \A k \in Kinds, g \in Conns \cup {None} : At(k, g, m) => k = "unrouted" /\ g = None
    <2>1. At("unrouted", None, m) /\ "unrouted" \in Kinds
        BY <1>1 DEF At, Kinds
    <2> QED
        BY <2>1 DEF DInv, OnePlace
<1>4. m \notin MsgsIn(tasks)
    <2>1. m \in MsgsIn(tasks) => At("task", None, m)
        BY DEF At
    <2> QED
        BY <1>3, <2>1 DEF Kinds
<1>5. /\ tasks' \in Seq(Task) /\ DistinctMsgs(tasks')
      /\ MsgsIn(tasks') \subseteq MsgsIn(tasks) \cup {m}
    <2>1. CASE tasks' = tasks
        BY <1>2, <2>1
    <2>2. CASE h # None /\ tasks' = Append(tasks, task)
        <3>1. task \in Task /\ task.msg = m
            BY <1>2, <2>2 DEF Task
        <3> HIDE DEF task
        <3> QED
            BY <1>2, <1>4, <2>2, <3>1, AppendToDistinctMsgs
    <2> QED
        BY <1>1, <2>1, <2>2
<1>6. OnePlace'
    <2>1. \A n \in Messages \ {m}, j \in Kinds, g \in Conns \cup {None} :
              At(j, g, n)' => At(j, g, n)
        BY <1>1, <1>5 DEF At
    <2>2. \A j \in Kinds, g \in Conns \cup {None} : At(j, g, m)' => j = "task" /\ g = None
        <3> TAKE j \in Kinds, g \in Conns \cup {None}
        <3>1. At(j, g, m)' /\ ~(j = "task" /\ g = None) => At(j, g, m) /\ j # "unrouted"
            BY <1>1 DEF At
        <3> QED
            BY <1>3, <3>1
    <2>3. "task" \in Kinds
        BY DEF Kinds
    <2> QED
        BY <2>1, <2>2, <2>3, Moved DEF DInv
<1>7. OnceInPlace'
    BY <1>1, <1>5 DEF DInv, OnceInPlace
<1>8. DeliveryTypeOK'
    <2>1. routed' \in Seq(Messages)
        BY <1>1, <1>2
    <2>2. taken' \in [Messages -> Conns \cup {None, Offline}]
        BY <1>1, <1>2
    <2> QED
        BY <1>1, <1>5, <2>1, <2>2 DEF DInv, DeliveryTypeOK
<1>9. NothingStranded'
    BY <1>1 DEF DInv, NothingStranded
<1> QED
    BY <1>6, <1>7, <1>8, <1>9 DEF DInv

\* A message is written or is lost; nothing else changes.
LEMMA WrittenOrLost ==
    ASSUME DeliveryTypeOK, NEW h \in Conns, NEW m \in Messages, NEW replay \in BOOLEAN
    PROVE  \/ Written(h, m, replay) = wire
           \/ Written(h, m, replay)
                 = [wire EXCEPT ![h] = Append(wire[h], [msg |-> m, replay |-> replay])]
BY DEF Written, DeliveryTypeOK

\* A message that is nowhere else goes to the wire of h, or is lost.
LEMMA WrittenPlaces ==
    ASSUME DeliveryTypeOK, OnceInPlace, NEW h \in Conns, NEW m \in Messages,
           NEW replay \in BOOLEAN, wire' = Written(h, m, replay), m \notin MsgsIn(wire[h])
    PROVE  /\ wire' \in [Conns -> Seq(Copy)]
           /\ \A g \in Conns : DistinctMsgs(wire'[g])
           /\ \A g \in Conns \ {h} : wire'[g] = wire[g]
           /\ MsgsIn(wire'[h]) \subseteq MsgsIn(wire[h]) \cup {m}
<1> DEFINE e == [msg |-> m, replay |-> replay]
<1>1. wire \in [Conns -> Seq(Copy)] /\ \A g \in Conns : DistinctMsgs(wire[g])
    BY DEF DeliveryTypeOK, OnceInPlace
<1>2. CASE wire' = wire
    BY <1>1, <1>2
<1>3. CASE wire' = [wire EXCEPT ![h] = Append(wire[h], e)]
    <2>1. e \in Copy /\ e.msg = m
        BY DEF Copy
    <2> HIDE DEF e
    <2>2. /\ Append(wire[h], e) \in Seq(Copy) /\ DistinctMsgs(Append(wire[h], e))
          /\ MsgsIn(Append(wire[h], e)) = MsgsIn(wire[h]) \cup {m}
        BY <1>1, <2>1, AppendToDistinctMsgs
    <2>3. wire'[h] = Append(wire[h], e) /\ \A g \in Conns \ {h} : wire'[g] = wire[g]
        BY <1>1, <1>3
    <2>4. wire' \in [Conns -> Seq(Copy)]
        BY <1>1, <1>3, <2>2
    <2> QED
        BY <1>1, <2>2, <2>3, <2>4
<1> QED
    BY <1>2, <1>3, WrittenOrLost

LEMMA DeliverKeepsDInv ==
    ASSUME IInv, DInv, Deliver
    PROVE  DInv'
<1>0. PICK h, m, s : /\ h = Head(tasks).handler /\ m = Head(tasks).msg
                     /\ s = sessions[Subscriber]
    OBVIOUS
<1>1. /\ tasks # <<>> /\ tasks' = Tail(tasks)
      /\ \/ /\ inflight' = [inflight EXCEPT ![mine[h]] = @ \cup {m}]
            /\ wire' = Written(h, m, FALSE)
            /\ UNCHANGED queue
         \/ /\ Accepts(s) /\ queue' = [queue EXCEPT ![s] = Append(@, m)]
            /\ UNCHANGED <<inflight, wire>>
         \/ UNCHANGED <<queue, inflight, wire>>
      /\ UNCHANGED <<unrouted, draining, pubacks, received, routed, taken, pc, clients,
                     sessions, object>>
    BY <1>0 DEF Deliver, vars
<1>2. /\ s \in Conns \cup {None}
      /\ tasks \in Seq(Task) /\ DistinctMsgs(tasks)
      /\ queue \in [Conns -> Seq(Messages)] /\ \A g \in Conns : Distinct(queue[g])
      /\ wire \in [Conns -> Seq(Copy)] /\ \A g \in Conns : DistinctMsgs(wire[g])
      /\ inflight \in [Conns -> SUBSET Messages]
      /\ \A g \in Conns : Len(queue[g]) <= MaxQueue
    BY <1>0, DeliveryAssumption DEF IInv, TypeOK, DInv, DeliveryTypeOK, OnceInPlace
<1>3. /\ Tail(tasks) \in Seq(Task) /\ Head(tasks) \in Task
      /\ m \in MsgsIn(tasks) /\ DistinctMsgs(Tail(tasks))
      /\ MsgsIn(Tail(tasks)) = MsgsIn(tasks) \ {m}
    BY <1>0, <1>1, <1>2, TailOfDistinctMsgs
<1>4. h \in Conns /\ m \in Messages
    BY <1>0, <1>3 DEF Task
<1>5. \A k \in Kinds, g \in Conns \cup {None} : At(k, g, m) => k = "task" /\ g = None
    <2>1. At("task", None, m) /\ "task" \in Kinds
        BY <1>3 DEF At, Kinds
    <2> QED
        BY <1>4, <2>1 DEF DInv, OnePlace
<1>6. \A g \in Conns : m \notin MsgsIn(wire[g]) /\ m \notin Members(queue[g])
    <2> TAKE g \in Conns
    <2>1. m \in MsgsIn(wire[g]) => At("wire", g, m)
        BY DEF At
    <2>2. m \in Members(queue[g]) => At("queue", g, m)
        BY DEF At
    <2> QED
        BY <1>5, <2>1, <2>2 DEF Kinds
<1>7. CASE /\ inflight' \in [Conns -> SUBSET Messages]
           /\ wire' = Written(h, m, FALSE)
           /\ UNCHANGED queue
    <2>1. /\ wire' \in [Conns -> Seq(Copy)]
          /\ \A g \in Conns : DistinctMsgs(wire'[g])
          /\ \A g \in Conns \ {h} : wire'[g] = wire[g]
          /\ MsgsIn(wire'[h]) \subseteq MsgsIn(wire[h]) \cup {m}
        BY <1>4, <1>6, <1>7, WrittenPlaces DEF DInv
    <2>2. OnePlace'
        <3>1. \A n \in Messages \ {m}, j \in Kinds, g \in Conns \cup {None} :
                  At(j, g, n)' => At(j, g, n)
            <4>1. /\ MsgsIn(tasks') \subseteq MsgsIn(tasks)
                  /\ \A g \in Conns : MsgsIn(wire'[g]) \subseteq MsgsIn(wire[g]) \cup {m}
                  /\ UNCHANGED <<unrouted, queue, draining, received>>
                BY <1>1, <1>3, <1>7, <2>1
            <4> QED
                BY <4>1 DEF At
        <3>2. \A j \in Kinds, g \in Conns \cup {None} : At(j, g, m)' => j = "wire" /\ g = h
            <4> TAKE j \in Kinds, g \in Conns \cup {None}
            <4>1. At(j, g, m)' /\ ~(j = "wire" /\ g = h) => At(j, g, m) /\ j # "task"
                BY <1>1, <1>3, <1>7, <2>1 DEF At
            <4> QED
                BY <1>5, <4>1
        <3>3. "wire" \in Kinds
            BY DEF Kinds
        <3> QED
            BY <1>4, <3>1, <3>2, <3>3, Moved DEF DInv
    <2>3. OnceInPlace'
        BY <1>1, <1>3, <1>7, <2>1 DEF DInv, OnceInPlace
    <2>4. DeliveryTypeOK'
        BY <1>1, <1>3, <1>7, <2>1 DEF DInv, DeliveryTypeOK
    <2>5. NothingStranded'
        BY <1>1, <1>7 DEF DInv, NothingStranded
    <2> QED
        BY <2>2, <2>3, <2>4, <2>5 DEF DInv
<1>8. CASE /\ Accepts(s) /\ queue' = [queue EXCEPT ![s] = Append(@, m)]
           /\ UNCHANGED <<inflight, wire>>
    <2>1. /\ s \in Conns /\ ~object[s].connected /\ Len(queue[s]) < MaxQueue
        BY <1>2, <1>8 DEF Accepts
    <2>2. /\ Append(queue[s], m) \in Seq(Messages) /\ Distinct(Append(queue[s], m))
          /\ Members(Append(queue[s], m)) = Members(queue[s]) \cup {m}
          /\ Len(Append(queue[s], m)) <= MaxQueue
        <3>1. Len(Append(queue[s], m)) = Len(queue[s]) + 1 /\ Len(queue[s]) \in Nat
            BY <1>2, <1>4, <2>1
        <3> QED
            BY <1>2, <1>4, <1>6, <2>1, <3>1, AppendToDistinct, DeliveryAssumption
    <2>3. /\ queue'[s] = Append(queue[s], m)
          /\ \A g \in Conns \ {s} : queue'[g] = queue[g]
          /\ queue' \in [Conns -> Seq(Messages)]
        BY <1>2, <1>8, <2>1, <2>2
    <2>4. OnePlace'
        <3>1. \A n \in Messages \ {m}, j \in Kinds, g \in Conns \cup {None} :
                  At(j, g, n)' => At(j, g, n)
            BY <1>1, <1>3, <1>8, <2>2, <2>3 DEF At
        <3>2. \A j \in Kinds, g \in Conns \cup {None} : At(j, g, m)' => j = "queue" /\ g = s
            <4> TAKE j \in Kinds, g \in Conns \cup {None}
            <4>1. At(j, g, m)' /\ ~(j = "queue" /\ g = s) => At(j, g, m) /\ j # "task"
                BY <1>1, <1>3, <1>8, <2>2, <2>3 DEF At
            <4> QED
                BY <1>5, <4>1
        <3>3. "queue" \in Kinds
            BY DEF Kinds
        <3> QED
            BY <1>4, <2>1, <3>1, <3>2, <3>3, Moved DEF DInv
    <2>5. OnceInPlace'
        BY <1>1, <1>2, <1>3, <1>8, <2>2, <2>3 DEF DInv, OnceInPlace
    <2>6. DeliveryTypeOK'
        BY <1>1, <1>2, <1>3, <1>8, <2>2, <2>3 DEF DInv, DeliveryTypeOK
    <2>7. NothingStranded'
        <3>1. clients[Subscriber] = None
            BY <1>0, <2>1, ConstantsAssumption, DeliveryAssumption DEF IInv, StoreAgreesWithRegistry
        <3> QED
            BY <1>1, <3>1, ConstantsAssumption DEF NothingStranded
    <2> QED
        BY <2>4, <2>5, <2>6, <2>7 DEF DInv
<1>9. CASE UNCHANGED <<queue, inflight, wire>>
    <2>1. OnePlace'
        <3>1. \A n \in Messages, j \in Kinds, g \in Conns \cup {None} :
                  At(j, g, n)' => At(j, g, n)
            BY <1>1, <1>3, <1>9 DEF At
        <3> QED
            BY <3>1 DEF DInv, OnePlace
    <2>2. OnceInPlace' /\ DeliveryTypeOK' /\ NothingStranded'
        BY <1>1, <1>3, <1>9 DEF DInv, OnceInPlace, DeliveryTypeOK, NothingStranded
    <2> QED
        BY <2>1, <2>2 DEF DInv
<1>10. \A x : inflight' = [inflight EXCEPT ![x] = @ \cup {m}] =>
           inflight' \in [Conns -> SUBSET Messages]
    BY <1>2, <1>4
<1> QED
    BY <1>1, <1>7, <1>8, <1>9, <1>10

\* A message of the offline queue is sent, or lost with the connection.
LEMMA ReplayKeepsDInv ==
    ASSUME IInv, DInv, NEW h \in Conns, Replay(h)
    PROVE  DInv'
<1>0. PICK m : m = Head(draining[h])
    OBVIOUS
<1>1. /\ draining[h] # <<>>
      /\ draining' = [draining EXCEPT ![h] = Tail(@)]
      /\ wire' = Written(h, m, TRUE)
      /\ UNCHANGED <<unrouted, tasks, queue, inflight, pubacks, received, routed, taken,
                     pc, clients, sessions>>
    BY <1>0 DEF Replay, vars
<1>2. /\ draining \in [Conns -> Seq(Messages)] /\ \A g \in Conns : Distinct(draining[g])
      /\ DeliveryTypeOK /\ OnceInPlace /\ OnePlace
    BY DEF DInv, DeliveryTypeOK, OnceInPlace
<1>3. /\ Tail(draining[h]) \in Seq(Messages) /\ m \in Messages
      /\ m \in Members(draining[h]) /\ Distinct(Tail(draining[h]))
      /\ Members(Tail(draining[h])) = Members(draining[h]) \ {m}
    BY <1>0, <1>1, <1>2, TailOfDistinct
<1>4. \A k \in Kinds, g \in Conns \cup {None} : At(k, g, m) => k = "replay" /\ g = h
    <2>1. At("replay", h, m) /\ "replay" \in Kinds
        BY <1>3 DEF At, Kinds
    <2> QED
        BY <1>2, <1>3, <2>1 DEF OnePlace
<1>5. m \notin MsgsIn(wire[h])
    <2>1. m \in MsgsIn(wire[h]) => At("wire", h, m)
        BY DEF At
    <2> QED
        BY <1>4, <2>1 DEF Kinds
<1>6. /\ wire' \in [Conns -> Seq(Copy)]
      /\ \A g \in Conns : DistinctMsgs(wire'[g])
      /\ \A g \in Conns \ {h} : wire'[g] = wire[g]
      /\ MsgsIn(wire'[h]) \subseteq MsgsIn(wire[h]) \cup {m}
    BY <1>1, <1>2, <1>3, <1>5, WrittenPlaces
<1>7. /\ draining'[h] = Tail(draining[h]) /\ \A g \in Conns \ {h} : draining'[g] = draining[g]
      /\ draining' \in [Conns -> Seq(Messages)]
    BY <1>1, <1>2, <1>3
<1>8. OnePlace'
    <2>1. /\ \A g \in Conns : Members(draining'[g]) \subseteq Members(draining[g])
          /\ m \notin Members(draining'[h])
          /\ \A g \in Conns : MsgsIn(wire'[g]) \subseteq MsgsIn(wire[g]) \cup {m}
          /\ \A g \in Conns \ {h} : wire'[g] = wire[g] /\ draining'[g] = draining[g]
        BY <1>3, <1>6, <1>7
    <2>2. \A n \in Messages \ {m}, j \in Kinds, g \in Conns \cup {None} :
              At(j, g, n)' => At(j, g, n)
        <3>1. UNCHANGED <<unrouted, tasks, queue, received>>
            BY <1>1
        <3> QED
            BY <2>1, <3>1 DEF At
    <2>3. \A j \in Kinds, g \in Conns \cup {None} : At(j, g, m)' => j = "wire" /\ g = h
        <3> TAKE j \in Kinds, g \in Conns \cup {None}
        <3>1. At(j, g, m)' /\ ~(j = "wire" /\ g = h) => At(j, g, m) /\ ~(j = "replay" /\ g = h)
            BY <1>1, <2>1 DEF At
        <3> QED
            BY <1>4, <3>1
    <2>4. "wire" \in Kinds
        BY DEF Kinds
    <2> QED
        BY <1>2, <1>3, <2>2, <2>3, <2>4, Moved
<1>9. OnceInPlace'
    BY <1>1, <1>2, <1>3, <1>6, <1>7 DEF OnceInPlace
<1>10. DeliveryTypeOK'
    <2>1. \A g \in Conns : draining'[g] # <<>> => pc'[g] = "loop"
        BY <1>1, <1>2, <1>7 DEF DeliveryTypeOK
    <2> QED
        BY <1>1, <1>2, <1>6, <1>7, <2>1 DEF DeliveryTypeOK
<1>11. NothingStranded'
    BY <1>1 DEF DInv, NothingStranded
<1> QED
    BY <1>8, <1>9, <1>10, <1>11 DEF DInv

\* The client reads a message.
LEMMA ReceiveKeepsDInv ==
    ASSUME IInv, DInv, NEW h \in Conns, Receive(h)
    PROVE  DInv'
<1>0. PICK e, m : e = Head(wire[h]) /\ m = e.msg
    OBVIOUS
<1>1. /\ wire[h] # <<>>
      /\ wire' = [wire EXCEPT ![h] = Tail(@)]
      /\ received' = Append(received, e)
      /\ pubacks' = [pubacks EXCEPT ![h] = Append(@, m)]
      /\ UNCHANGED <<unrouted, tasks, queue, inflight, draining, routed, taken,
                     pc, clients, sessions>>
    BY <1>0 DEF Receive, vars
<1>2. /\ wire \in [Conns -> Seq(Copy)] /\ \A g \in Conns : DistinctMsgs(wire[g])
      /\ received \in Seq(Copy) /\ DistinctMsgs(received)
      /\ pubacks \in [Conns -> Seq(Messages)]
      /\ DeliveryTypeOK /\ OnceInPlace /\ OnePlace
    BY DEF DInv, DeliveryTypeOK, OnceInPlace
<1>3. /\ Tail(wire[h]) \in Seq(Copy) /\ e \in Copy
      /\ m \in MsgsIn(wire[h]) /\ DistinctMsgs(Tail(wire[h]))
      /\ MsgsIn(Tail(wire[h])) = MsgsIn(wire[h]) \ {m}
    BY <1>0, <1>1, <1>2, TailOfDistinctMsgs
<1>4. m \in Messages
    BY <1>0, <1>3 DEF Copy
<1>5. \A k \in Kinds, g \in Conns \cup {None} : At(k, g, m) => k = "wire" /\ g = h
    <2>1. At("wire", h, m) /\ "wire" \in Kinds
        BY <1>3 DEF At, Kinds
    <2> QED
        BY <1>2, <1>4, <2>1 DEF OnePlace
<1>6. m \notin MsgsIn(received)
    <2>1. m \in MsgsIn(received) => At("received", None, m)
        BY DEF At
    <2> QED
        BY <1>5, <2>1 DEF Kinds
<1>7. /\ received' \in Seq(Copy) /\ DistinctMsgs(received')
      /\ MsgsIn(received') = MsgsIn(received) \cup {m}
    BY <1>0, <1>1, <1>2, <1>3, <1>6, AppendToDistinctMsgs
<1>8. /\ wire'[h] = Tail(wire[h]) /\ \A g \in Conns \ {h} : wire'[g] = wire[g]
      /\ wire' \in [Conns -> Seq(Copy)]
    BY <1>1, <1>2, <1>3
<1>9. OnePlace'
    <2>1. /\ \A g \in Conns : MsgsIn(wire'[g]) \subseteq MsgsIn(wire[g])
          /\ m \notin MsgsIn(wire'[h])
          /\ \A g \in Conns \ {h} : wire'[g] = wire[g]
        BY <1>3, <1>8
    <2>2. \A n \in Messages \ {m}, j \in Kinds, g \in Conns \cup {None} :
              At(j, g, n)' => At(j, g, n)
        <3>1. UNCHANGED <<unrouted, tasks, queue, draining>>
            BY <1>1
        <3> QED
            BY <1>7, <2>1, <3>1 DEF At
    <2>3. \A j \in Kinds, g \in Conns \cup {None} : At(j, g, m)' => j = "received" /\ g = None
        <3> TAKE j \in Kinds, g \in Conns \cup {None}
        <3>1. At(j, g, m)' /\ ~(j = "received" /\ g = None) =>
                  At(j, g, m) /\ ~(j = "wire" /\ g = h)
            BY <1>1, <2>1 DEF At
        <3> QED
            BY <1>5, <3>1
    <2>4. "received" \in Kinds
        BY DEF Kinds
    <2> QED
        BY <1>2, <1>4, <2>2, <2>3, <2>4, Moved
<1>10. OnceInPlace'
    BY <1>1, <1>2, <1>3, <1>7, <1>8 DEF OnceInPlace
<1>11. DeliveryTypeOK'
    <2>1. pubacks' \in [Conns -> Seq(Messages)]
        BY <1>1, <1>2, <1>4
    <2> QED
        BY <1>1, <1>2, <1>7, <1>8, <2>1 DEF DeliveryTypeOK
<1>12. NothingStranded'
    BY <1>1 DEF DInv, NothingStranded
<1> QED
    BY <1>9, <1>10, <1>11, <1>12 DEF DInv

-----------------------------------------------------------------------------
(***************************************************************************)
(* The steps that take the offline queue.                                  *)
(***************************************************************************)
LEMMA DrainMovesQueue ==
    ASSUME OnePlace, OnceInPlace, DeliveryTypeOK,
           NEW h \in Conns, NEW s \in Conns, StartDrain(h, s), pc'[h] = "loop",
           \A g \in Conns : draining[g] # <<>> => pc'[g] = "loop",
           UNCHANGED <<unrouted, tasks, inflight, wire, pubacks, received, routed, taken>>
    PROVE  OnePlace' /\ OnceInPlace' /\ DeliveryTypeOK'
<1>1. /\ draining' = [draining EXCEPT ![h] = queue[s]]
      /\ queue' = [queue EXCEPT ![s] = <<>>]
    BY DEF StartDrain, Drained, QueueDrained
<1>2. /\ queue \in [Conns -> Seq(Messages)] /\ draining \in [Conns -> Seq(Messages)]
      /\ \A g \in Conns : Distinct(queue[g]) /\ Distinct(draining[g])
      /\ \A g \in Conns : Len(queue[g]) <= MaxQueue
    BY DEF DeliveryTypeOK, OnceInPlace
<1>3. /\ draining'[h] = queue[s] /\ queue'[s] = <<>>
      /\ \A g \in Conns \ {h} : draining'[g] = draining[g]
      /\ \A g \in Conns \ {s} : queue'[g] = queue[g]
      /\ queue' \in [Conns -> Seq(Messages)] /\ draining' \in [Conns -> Seq(Messages)]
    BY <1>1, <1>2
<1>4. <<>> \in Seq(Messages) /\ Members(<<>>) = {} /\ Distinct(<<>>) /\ Len(<<>>) = 0
    BY DEF Members, Distinct
<1>5. OnePlace'
    <2> SUFFICES ASSUME NEW n \in Messages, NEW k1 \in Kinds, NEW k2 \in Kinds,
                        NEW h1 \in Conns \cup {None}, NEW h2 \in Conns \cup {None},
                        At(k1, h1, n)', At(k2, h2, n)'
                 PROVE  k1 = k2 /\ h1 = h2
        BY DEF OnePlace
    <2>1. \A j \in Kinds, g \in Conns \cup {None} : At(j, g, n)' =>
              \/ j = "replay" /\ g = h /\ At("queue", s, n)
              \/ At(j, g, n) /\ ~(j = "replay" /\ g = h) /\ ~(j = "queue" /\ g = s)
        BY <1>3, <1>4 DEF At
    <2>2. "queue" \in Kinds
        BY DEF Kinds
    <2> QED
        BY <2>1, <2>2 DEF OnePlace
<1>6. OnceInPlace'
    BY <1>2, <1>3, <1>4 DEF OnceInPlace
<1>7. DeliveryTypeOK'
    <2>1. \A g \in Conns : Len(queue'[g]) <= MaxQueue
        <3> TAKE g \in Conns
        <3>1. CASE g = s
            BY <1>3, <1>4, <3>1, DeliveryAssumption
        <3>2. CASE g # s
            BY <1>2, <1>3, <3>2
        <3> QED
            BY <3>1, <3>2
    <2>2. \A g \in Conns : draining'[g] # <<>> => pc'[g] = "loop"
        BY <1>3
    <2> QED
        BY <1>3, <2>1, <2>2 DEF DeliveryTypeOK
<1> QED
    BY <1>5, <1>6, <1>7

LEMMA ConnectKeepsDInv ==
    ASSUME IInv, DInv, NEW h \in Conns, NEW o \in ConnectOptions, NEW broken \in BOOLEAN,
           ConnectSubscriber(h, o, broken)
    PROVE  DInv'
<1>0. PICK s : s = IF Resumes(Subscriber, o) THEN sessions[Subscriber] ELSE h
    OBVIOUS
<1>1. /\ pc[h] = "first"
      /\ pc' = [pc EXCEPT ![h] = IF broken THEN "connack" ELSE "loop"]
      /\ clients' = [clients EXCEPT ![Subscriber] = h]
      /\ sessions' = [sessions EXCEPT ![Subscriber] = s]
      /\ UNCHANGED <<unrouted, tasks, inflight, wire, pubacks, received, routed, taken>>
    BY <1>0 DEF ConnectSubscriber, Connect
<1>2. /\ Subscriber \in Clients /\ s \in Conns
      /\ clients \in [Clients -> Conns \cup {None}]
      /\ sessions \in [Clients -> Conns \cup {None}]
      /\ pc \in [Conns -> {"new", "first", "connack", "loop", "disconnecting",
                           "final", "done"}]
    BY <1>0, DeliveryAssumption DEF IInv, TypeOK, Resumes
<1>3. clients'[Subscriber] = h /\ sessions'[Subscriber] = s
    BY <1>1, <1>2
<1>4. \A g \in Conns : draining[g] # <<>> => pc'[g] = "loop"
    BY <1>1, <1>2 DEF DInv, DeliveryTypeOK
<1>5. CASE broken
    <2>1. UNCHANGED <<draining, queue>> /\ pc'[h] # "loop"
        BY <1>1, <1>2, <1>5 DEF ConnectSubscriber, DrainNothing
    <2>2. OnePlace' /\ OnceInPlace'
        BY <1>1, <2>1, PlacesKept
    <2>3. DeliveryTypeOK'
        BY <1>1, <1>4, <2>1, TypesKept DEF DInv, DeliveryTypeOK
    <2>4. NothingStranded'
        BY <1>3, <2>1 DEF NothingStranded
    <2> QED
        BY <2>2, <2>3, <2>4 DEF DInv
<1>6. CASE ~broken
    <2>1. StartDrain(h, s) /\ pc'[h] = "loop"
        BY <1>0, <1>1, <1>2, <1>6 DEF ConnectSubscriber
    <2>2. OnePlace' /\ OnceInPlace' /\ DeliveryTypeOK'
        BY <1>1, <1>2, <1>4, <2>1, DrainMovesQueue DEF DInv
    <2>3. queue'[s] = <<>>
        BY <1>2, <2>1 DEF StartDrain, QueueDrained, DInv, DeliveryTypeOK
    <2>4. NothingStranded'
        BY <1>3, <2>3 DEF NothingStranded
    <2> QED
        BY <2>2, <2>4 DEF DInv
<1> QED
    BY <1>5, <1>6

LEMMA ConnackedKeepsDInv ==
    ASSUME IInv, DInv, NEW h \in Conns, ConnackedSubscriber(h)
    PROVE  DInv'
<1>0. PICK s : s = sessions[Subscriber]
    OBVIOUS
<1>1. /\ pc[h] = "connack"
      /\ pc' = [pc EXCEPT ![h] = "loop"]
      /\ IF s = None THEN UNCHANGED <<draining, queue>> ELSE StartDrain(h, s)
      /\ UNCHANGED <<clients, sessions>>
      /\ UNCHANGED <<unrouted, tasks, inflight, wire, pubacks, received, routed, taken>>
    BY <1>0 DEF ConnackedSubscriber, Connacked, DrainNothing
<1>2. /\ s \in Conns \cup {None}
      /\ pc \in [Conns -> {"new", "first", "connack", "loop", "disconnecting",
                           "final", "done"}]
    BY <1>0, DeliveryAssumption DEF IInv, TypeOK
<1>3. \A g \in Conns : draining[g] # <<>> => pc'[g] = "loop"
    BY <1>1, <1>2 DEF DInv, DeliveryTypeOK
<1>4. CASE s = None
    <2>1. \A g \in Conns : clients[Subscriber] # g
        <3>1. \A g \in Conns : clients[Subscriber] = g => mine[g] = None /\ cid[g] = Subscriber
            <4> TAKE g \in Conns
            <4>1. Subscriber \in Clients /\ g # None
                BY DeliveryAssumption, ConstantsAssumption
            <4>2. clients[Subscriber] = g => mine[g] = sessions[Subscriber]
                BY <4>1 DEF IInv, StoreAgreesWithRegistry
            <4>3. clients[Subscriber] = g => cid[g] = Subscriber
                BY <4>1 DEF IInv, RegistryFresh
            <4> QED
                BY <1>0, <1>4, <4>2, <4>3
        <3> QED
            BY <3>1, DeliveryAssumption, ConstantsAssumption DEF IInv, Ownership
    <2>2. OnePlace' /\ OnceInPlace'
        BY <1>1, <1>4, PlacesKept
    <2>3. DeliveryTypeOK'
        BY <1>1, <1>3, <1>4, TypesKept DEF DInv, DeliveryTypeOK
    <2>4. NothingStranded'
        BY <1>1, <2>1 DEF NothingStranded
    <2> QED
        BY <2>2, <2>3, <2>4 DEF DInv
<1>5. CASE s # None
    <2>1. s \in Conns /\ StartDrain(h, s) /\ pc'[h] = "loop"
        BY <1>1, <1>2, <1>5
    <2>2. OnePlace' /\ OnceInPlace' /\ DeliveryTypeOK'
        BY <1>1, <1>3, <2>1, DrainMovesQueue DEF DInv
    <2>3. queue'[s] = <<>>
        BY <2>1 DEF StartDrain, QueueDrained, DInv, DeliveryTypeOK
    <2>4. NothingStranded'
        BY <1>0, <1>1, <2>3 DEF NothingStranded
    <2> QED
        BY <2>2, <2>4 DEF DInv
<1> QED
    BY <1>4, <1>5

-----------------------------------------------------------------------------
LEMMA InitDInv == DeliveryInit => DInv
<1> SUFFICES ASSUME DeliveryInit PROVE DInv
    OBVIOUS
<1> USE DEF DeliveryInit
<1>1. /\ MsgsIn(<<>>) = {} /\ Members(<<>>) = {} /\ Distinct(<<>>) /\ DistinctMsgs(<<>>)
      /\ \A S : <<>> \in Seq(S) /\ Len(<<>>) = 0
    BY DEF MsgsIn, Members, Distinct, DistinctMsgs
<1>2. DeliveryTypeOK
    BY <1>1, DeliveryAssumption DEF DeliveryTypeOK
<1>3. OnePlace
    BY <1>1 DEF OnePlace, At
<1>4. OnceInPlace
    BY <1>1 DEF OnceInPlace
<1>5. NothingStranded
    BY DEF NothingStranded, Init
<1> QED
    BY <1>2, <1>3, <1>4, <1>5 DEF DInv

LEMMA NextKeepsDInv == IInv /\ DInv /\ [DeliveryNext]_<<vars, outbound>> => DInv'
<1> SUFFICES ASSUME IInv, DInv, [DeliveryNext]_<<vars, outbound>> PROVE DInv'
    OBVIOUS
<1>1. CASE UNCHANGED <<vars, outbound>>
    <2>1. OnePlace' /\ OnceInPlace'
        BY <1>1, PlacesKept DEF outbound
    <2>2. DeliveryTypeOK' /\ NothingStranded'
        BY <1>1 DEF vars, outbound, DInv, DeliveryTypeOK, NothingStranded
    <2> QED
        BY <2>1, <2>2 DEF DInv
<1> QED
    BY <1>1, RouteKeepsDInv, DeliverKeepsDInv, ReplayKeepsDInv, HandlePubackKeepsDInv,
       ReceiveKeepsDInv, ConnectKeepsDInv, ConnackedKeepsDInv, LifecycleKeepsDInv
    DEF DeliveryNext

\* The invariant holds of every behaviour.
THEOREM DeliveryInvariance == DeliverySpec => []DInv
<1> QED
    BY InitDInv, NextKeepsDInv, DeliveryIsOverConnections, Invariance, PTL DEF DeliverySpec

\* Queues never grow over their limit, and only a handler in its loop replays.
THEOREM DeliveryTypes == DeliverySpec => []DeliveryTypeOK
<1>1. DInv => DeliveryTypeOK
    BY DEF DInv
<1> QED
    BY <1>1, DeliveryInvariance, PTL

\* No message reaches its client twice, however often it connects and is taken
\* over, and whichever sends fail.
THEOREM NoMessageTwice == DeliverySpec => []ReceivedAtMostOnce
<1>1. DInv => ReceivedAtMostOnce
    BY DEF DInv, OnceInPlace, DistinctMsgs, ReceivedAtMostOnce
<1> QED
    BY <1>1, DeliveryInvariance, PTL

\* The offline queue of a connected client is empty once its CONNACK is out.
THEOREM NothingIsStranded == DeliverySpec => []NothingStranded
<1>1. DInv => NothingStranded
    BY DEF DInv
<1> QED
    BY <1>1, DeliveryInvariance, PTL

-----------------------------------------------------------------------------
(***************************************************************************)
(* Messages of a connection that is up.                                    *)
(***************************************************************************)
\* A connection before its CONNECT has no messages, nor has its session.
Started ==
    \A h \in Conns :
        pc[h] \in {"new", "first"} =>
            /\ wire[h] = <<>> /\ queue[h] = <<>>
            /\ \A i \in 1..Len(tasks) : tasks[i].handler # h
            /\ \A m \in Messages : taken[m] # h

\* The handler of an open stream is in its loop, or has not read a CONNECT.
OpenStreams ==
    \A h \in Conns : transport[h] = "open" => pc[h] \in {"new", "first", "loop"}

\* The message m waits in a task for h, or was sent to h.
OnItsWay(h, m) ==
    \/ \E i \in 1..Len(tasks) : tasks[i].handler = h /\ tasks[i].msg = m
    \/ m \in MsgsIn(wire[h])
    \/ m \in MsgsIn(received)

Served ==
    \A h \in Conns, m \in Messages :
        taken[m] = h /\ connected[h] /\ transport[h] = "open" => OnItsWay(h, m)

UInv ==
    /\ Started
    /\ OpenStreams
    /\ Served

\* A step that brings no connection up.
Ends ==
    /\ \A g \in Conns : connected'[g] => connected[g]
    /\ \A g \in Conns : transport'[g] = "open" =>
           transport[g] = "open" /\ (pc'[g] = pc[g] \/ pc'[g] \in {"new", "first", "loop"})
    /\ \A g \in Conns : pc'[g] \in {"new", "first"} => pc[g] \in {"new", "first"}
    /\ sessions'[Subscriber] \in {sessions[Subscriber], None}
    /\ cid' = cid

LEMMA TeardownEnds ==
    ASSUME IInv, NEW h \in Conns, cid[h] # None,
           NEW clean, NEW table, NEW objs, Teardown(h, clean, table, objs)
    PROVE  /\ \A g \in Conns : connected'[g] => connected[g]
           /\ sessions'[Subscriber] \in {sessions[Subscriber], None}
<1>1. /\ cid[h] \in Clients /\ Subscriber \in Clients
      /\ connected \in [Conns -> BOOLEAN]
      /\ sessions \in [Clients -> Conns \cup {None}]
    BY DeliveryAssumption DEF IInv, TypeOK
<1>2. /\ connected' = [connected EXCEPT ![h] = FALSE]
      /\ sessions' = [sessions EXCEPT ![cid[h]] = None] \/ sessions' = sessions
    BY DEF Teardown, NotConnected
<1> QED
    BY <1>1, <1>2

LEMMA LifecycleEnds ==
    ASSUME IInv, OpenStreams, NEW h \in Conns, Lifecycle(h)
    PROVE  Ends
<1>1. /\ pc \in [Conns -> {"new", "first", "connack", "loop", "disconnecting",
                           "final", "done"}]
      /\ transport \in [Conns -> {"open", "unread", "closed"}]
      /\ connected \in [Conns -> BOOLEAN]
      /\ pc[h] \in {"connack", "loop", "disconnecting"} => cid[h] # None
      /\ kick[h] = "due" => cid[h] # None
    BY DEF IInv, TypeOK, Ownership
<1>2. \/ Accept(h) \/ Reject(h) \/ SendFails(h) \/ Closed(h)
      \/ \E clean, table, objs :
             /\ cid[h] # None
             /\ Teardown(h, clean, table, objs)
             /\ \E t \in {"unread", "closed"} : transport' = [transport EXCEPT ![h] = t]
             /\ \/ \E place \in {"disconnecting", "final"} : pc' = [pc EXCEPT ![h] = place]
                \/ pc' = pc
             /\ cid' = cid
      \/ UNCHANGED <<pc, transport, connected, sessions, cid>>
    <2>1. CASE Subscribe(h, TheFilter, FALSE)
        BY <1>1, <2>1, Zenon DEF Subscribe, Continue, Finish, CanRead
    <2>2. CASE Unsubscribe(h, TheFilter)
        BY <1>1, <2>2, Zenon DEF Unsubscribe, Continue, Finish, CanRead
    <2>3. CASE Disconnect(h, TRUE)
        BY <1>1, <2>3 DEF Disconnect, CanRead
    <2>4. CASE DisconnectClosed(h)
        BY <1>1, <2>4 DEF DisconnectClosed, Finish
    <2>5. CASE LeaveLoop(h)
        BY <1>1, <2>5 DEF LeaveLoop, Finish
    <2>6. CASE KickTask(h)
        BY <1>1, <2>6 DEF KickTask
    <2> QED
        BY <2>1, <2>2, <2>3, <2>4, <2>5, <2>6 DEF Lifecycle, Reading
<1>3. CASE Accept(h) \/ Reject(h) \/ SendFails(h) \/ Closed(h)
    <2>1. CASE Accept(h)
        BY <1>1, <2>1 DEF Accept, Ends
    <2>2. CASE Reject(h)
        BY <1>1, <2>2 DEF Reject, Ends
    <2>3. CASE SendFails(h)
        BY <1>1, <2>3 DEF SendFails, Ends
    <2>4. CASE Closed(h)
        BY <1>1, <2>4 DEF Closed, OpenStreams, Ends
    <2> QED
        BY <1>3, <2>1, <2>2, <2>3, <2>4
<1>4. ASSUME NEW clean, NEW table, NEW objs, cid[h] # None,
             Teardown(h, clean, table, objs),
             \E t \in {"unread", "closed"} : transport' = [transport EXCEPT ![h] = t],
             \/ \E place \in {"disconnecting", "final"} : pc' = [pc EXCEPT ![h] = place]
             \/ pc' = pc,
             cid' = cid
      PROVE  Ends
    <2>1. /\ \A g \in Conns : connected'[g] => connected[g]
          /\ sessions'[Subscriber] \in {sessions[Subscriber], None}
        BY <1>4, TeardownEnds
    <2>2. \A g \in Conns : transport'[g] = "open" =>
              transport[g] = "open" /\ pc'[g] = pc[g]
        BY <1>1, <1>4
    <2>3. \A g \in Conns : pc'[g] \in {"new", "first"} => pc[g] \in {"new", "first"}
        BY <1>1, <1>4
    <2> QED
        BY <1>4, <2>1, <2>2, <2>3 DEF Ends
<1>5. CASE UNCHANGED <<pc, transport, connected, sessions, cid>>
    BY <1>5 DEF Ends
<1> QED
    BY <1>2, <1>3, <1>4, <1>5

LEMMA HandlePubackEnds ==
    ASSUME IInv, NEW h \in Conns, HandlePuback(h)
    PROVE  Ends
<1>1. /\ pc \in [Conns -> {"new", "first", "connack", "loop", "disconnecting",
                           "final", "done"}]
      /\ transport \in [Conns -> {"open", "unread", "closed"}]
      /\ cid[h] # None
      /\ cid' = cid
    BY DEF IInv, TypeOK, HandlePuback, Reading, CanRead
<1>2. CASE UNCHANGED <<pc, transport, connected, sessions>>
    BY <1>1, <1>2 DEF Ends
<1>3. CASE Finish(h, subs, object)
    <2>1. /\ \A g \in Conns : connected'[g] => connected[g]
          /\ sessions'[Subscriber] \in {sessions[Subscriber], None}
        BY <1>1, <1>3, TeardownEnds DEF Finish
    <2>2. /\ pc' = [pc EXCEPT ![h] = "final"]
          /\ transport' = [transport EXCEPT ![h] = "closed"]
        BY <1>3 DEF Finish
    <2>3. \A g \in Conns :
              /\ transport'[g] = "open" => transport[g] = "open" /\ pc'[g] = pc[g]
              /\ pc'[g] \in {"new", "first"} => pc[g] \in {"new", "first"}
        BY <1>1, <2>2
    <2> QED
        BY <1>1, <2>1, <2>3 DEF Ends
<1> QED
    BY <1>2, <1>3 DEF HandlePuback, Continue

LEMMA EndsKeepsUInv ==
    ASSUME UInv, Ends, UNCHANGED <<wire, queue, tasks, taken, received>>
    PROVE  UInv'
<1>1. Started'
    BY DEF UInv, Started, Ends
<1>2. OpenStreams'
    BY DEF UInv, OpenStreams, Ends
<1>3. Served'
    BY DEF UInv, Served, OnItsWay, Ends
<1> QED
    BY <1>1, <1>2, <1>3 DEF UInv

LEMMA RouteKeepsUInv ==
    ASSUME IInv, DInv, UInv, NEW m \in Messages, Route(m)
    PROVE  UInv'
<1> DEFINE h == clients[Subscriber]
           task == [handler |-> h, msg |-> m]
<1>1. /\ \/ /\ h # None /\ tasks' = Append(tasks, task)
            /\ taken' = [taken EXCEPT ![m] = h]
         \/ /\ tasks' = tasks
            /\ \E x \in {Offline, None} : taken' = [taken EXCEPT ![m] = x]
      /\ UNCHANGED <<queue, wire, received, pc, transport, connected>>
    BY DEF Route, vars
<1>2. /\ h \in Conns \cup {None}
      /\ h # None => pc[h] \in {"connack", "loop"}
      /\ tasks \in Seq(Task)
      /\ taken \in [Messages -> Conns \cup {None, Offline}]
      /\ None \notin Conns /\ Offline \notin Conns
    BY DeliveryAssumption, ConstantsAssumption
    DEF IInv, TypeOK, RegistryFresh, DInv, DeliveryTypeOK
<1>3. /\ Len(tasks) \in Nat
      /\ Len(Append(tasks, task)) = Len(tasks) + 1
      /\ \A i \in 1..Len(tasks) : Append(tasks, task)[i] = tasks[i]
      /\ Append(tasks, task)[Len(tasks) + 1] = task
      /\ task.handler = h /\ task.msg = m
    BY <1>2
<1> HIDE DEF h, task
<1>4. /\ \A n \in Messages \ {m} : taken'[n] = taken[n]
      /\ taken'[m] \in {h, None, Offline}
      /\ taken'[m] = h /\ h # None /\ h # Offline => tasks' = Append(tasks, task)
    BY <1>1, <1>2
<1>5. Started'
    <2> SUFFICES ASSUME NEW g \in Conns, pc[g] \in {"new", "first"}
                 PROVE  /\ \A i \in 1..Len(tasks') : tasks'[i].handler # g
                        /\ \A n \in Messages : taken'[n] # g
        BY <1>1 DEF Started, UInv
    <2>1. \A i \in 1..Len(tasks) : tasks[i].handler # g
        BY DEF UInv, Started
    <2>2. h # g
        BY <1>2
    <2>3. \A i \in 1..Len(tasks') : tasks'[i].handler # g
        <3>1. CASE tasks' = tasks
            BY <2>1, <3>1
        <3>2. CASE tasks' = Append(tasks, task)
            BY <1>3, <2>1, <2>2, <3>2
        <3> QED
            BY <1>1, <3>1, <3>2
    <2>4. \A n \in Messages : taken'[n] # g
        BY <1>2, <1>4, <2>2 DEF UInv, Started
    <2> QED
        BY <2>3, <2>4
<1>6. OpenStreams'
    BY <1>1 DEF UInv, OpenStreams
<1>7. Served'
    <2> SUFFICES ASSUME NEW g \in Conns, NEW n \in Messages,
                        taken'[n] = g, connected[g], transport[g] = "open"
                 PROVE  OnItsWay(g, n)'
        BY <1>1 DEF Served
    <2>1. CASE n = m
        <3>1. g = h /\ tasks' = Append(tasks, task)
            BY <1>2, <1>4, <2>1
        <3>2. Len(tasks) + 1 \in 1..Len(tasks')
            BY <1>3, <3>1
        <3>3. tasks'[Len(tasks) + 1].handler = g /\ tasks'[Len(tasks) + 1].msg = n
            BY <1>3, <2>1, <3>1
        <3> QED
            BY <3>2, <3>3 DEF OnItsWay
    <2>2. CASE n # m
        <3>1. OnItsWay(g, n)
            BY <1>4, <2>2 DEF UInv, Served
        <3>2. \A i \in 1..Len(tasks) : i \in 1..Len(tasks') /\ tasks'[i] = tasks[i]
            BY <1>1, <1>3
        <3> QED
            BY <1>1, <3>1, <3>2 DEF OnItsWay
    <2> QED
        BY <2>1, <2>2
<1> QED
    BY <1>5, <1>6, <1>7 DEF UInv

LEMMA DeliverKeepsUInv ==
    ASSUME IInv, DInv, UInv, Deliver
    PROVE  UInv'
<1>0. PICK h, m, s : /\ h = Head(tasks).handler /\ m = Head(tasks).msg
                     /\ s = sessions[Subscriber]
    OBVIOUS
<1>1. /\ tasks # <<>> /\ tasks' = Tail(tasks)
      /\ \/ /\ connected[h]
            /\ wire' = Written(h, m, FALSE)
            /\ UNCHANGED queue
         \/ /\ ~connected[h]
            /\ s # None /\ queue' = [queue EXCEPT ![s] = Append(@, m)]
            /\ UNCHANGED wire
         \/ /\ ~connected[h]
            /\ UNCHANGED <<queue, wire>>
      /\ UNCHANGED <<received, taken, pc, transport, connected>>
    BY <1>0 DEF Deliver, Ready, Accepts, vars
<1>2. /\ s \in Conns \cup {None}
      /\ s # None => pc[s] \notin {"new", "first"}
      /\ tasks \in Seq(Task) /\ queue \in [Conns -> Seq(Messages)]
      /\ wire \in [Conns -> Seq(Copy)]
    BY <1>0, DeliveryAssumption, ConstantsAssumption
    DEF IInv, TypeOK, Ownership, Untouched, DInv, DeliveryTypeOK
<1>3. /\ Len(tasks) \in Nat \ {0} /\ Len(Tail(tasks)) = Len(tasks) - 1
      /\ \A i \in 1..Len(Tail(tasks)) : Tail(tasks)[i] = tasks[i + 1]
      /\ Head(tasks) = tasks[1] /\ Head(tasks) \in Task
    BY <1>1, <1>2
<1>4. h \in Conns /\ m \in Messages /\ pc[h] \notin {"new", "first"}
    <2>1. h \in Conns /\ m \in Messages
        BY <1>0, <1>3 DEF Task
    <2>2. 1 \in 1..Len(tasks) /\ tasks[1].handler = h
        BY <1>0, <1>3
    <2> QED
        BY <2>1, <2>2 DEF UInv, Started
<1>5. /\ \A g \in Conns : m \in MsgsIn(wire'[g]) \/ wire'[g] = wire[g]
      /\ \A g \in Conns : MsgsIn(wire[g]) \subseteq MsgsIn(wire'[g])
      /\ \A g \in Conns \ {h} : wire'[g] = wire[g]
      /\ connected[h] /\ transport[h] = "open" => m \in MsgsIn(wire'[h])
    <2>1. CASE wire' = wire /\ ~(connected[h] /\ transport[h] = "open")
        BY <2>1
    <2>2. CASE wire' = [wire EXCEPT ![h] = Append(wire[h], [msg |-> m, replay |-> FALSE])]
        <3> DEFINE e == [msg |-> m, replay |-> FALSE]
        <3>1. e \in Copy /\ e.msg = m
            BY <1>4 DEF Copy
        <3> HIDE DEF e
        <3>2. wire'[h] = Append(wire[h], e) /\ \A g \in Conns \ {h} : wire'[g] = wire[g]
            BY <1>2, <1>4, <2>2 DEF e
        <3>3. /\ Len(wire[h]) \in Nat /\ Len(wire'[h]) = Len(wire[h]) + 1
              /\ \A i \in 1..Len(wire[h]) : wire'[h][i] = wire[h][i]
              /\ wire'[h][Len(wire[h]) + 1] = e
            BY <1>2, <1>4, <3>1, <3>2
        <3>4. m \in MsgsIn(wire'[h]) /\ MsgsIn(wire[h]) \subseteq MsgsIn(wire'[h])
            BY <3>1, <3>3 DEF MsgsIn
        <3> QED
            BY <3>2, <3>4
    <2> QED
        BY <1>1, <2>1, <2>2 DEF Written
<1>6. Started'
    <2> SUFFICES ASSUME NEW g \in Conns, pc[g] \in {"new", "first"}
                 PROVE  /\ wire'[g] = <<>> /\ queue'[g] = <<>>
                        /\ \A i \in 1..Len(tasks') : tasks'[i].handler # g
        BY <1>1 DEF Started, UInv
    <2>1. /\ wire[g] = <<>> /\ queue[g] = <<>>
          /\ \A i \in 1..Len(tasks) : tasks[i].handler # g
        BY DEF UInv, Started
    <2>2. g # h /\ g # s
        BY <1>2, <1>4, ConstantsAssumption
    <2>3. queue'[g] = queue[g]
        BY <1>1, <1>2, <2>2
    <2> QED
        BY <1>1, <1>3, <1>5, <2>1, <2>2, <2>3
<1>7. OpenStreams'
    BY <1>1 DEF UInv, OpenStreams
<1>8. Served'
    <2> SUFFICES ASSUME NEW g \in Conns, NEW n \in Messages,
                        taken[n] = g, connected[g], transport[g] = "open"
                 PROVE  OnItsWay(g, n)'
        BY <1>1 DEF Served
    <2>1. OnItsWay(g, n)
        BY DEF UInv, Served
    <2>2. ASSUME NEW i \in 1..Len(tasks), tasks[i].handler = g, tasks[i].msg = n
          PROVE  OnItsWay(g, n)'
        <3>1. CASE i = 1
            BY <1>0, <1>3, <1>5, <2>2, <3>1 DEF OnItsWay
        <3>2. CASE i # 1
            <4>1. i - 1 \in 1..Len(tasks') /\ tasks'[i - 1] = tasks[i]
                BY <1>1, <1>3, <3>2
            <4> QED
                BY <2>2, <4>1 DEF OnItsWay
        <3> QED
            BY <3>1, <3>2
    <2>3. CASE n \in MsgsIn(wire[g]) \/ n \in MsgsIn(received)
        BY <1>1, <1>5, <2>3 DEF OnItsWay
    <2> QED
        BY <2>1, <2>2, <2>3 DEF OnItsWay
<1> QED
    BY <1>6, <1>7, <1>8 DEF UInv

LEMMA ReplayKeepsUInv ==
    ASSUME IInv, DInv, UInv, NEW h \in Conns, Replay(h)
    PROVE  UInv'
<1>0. PICK m : m = Head(draining[h])
    OBVIOUS
<1>1. /\ draining[h] # <<>> /\ wire' = Written(h, m, TRUE)
      /\ UNCHANGED <<tasks, queue, received, taken, pc, transport, connected>>
    BY <1>0 DEF Replay, vars
<1>2. /\ pc[h] = "loop" /\ m \in Messages /\ wire \in [Conns -> Seq(Copy)]
    BY <1>0, <1>1 DEF DInv, DeliveryTypeOK
<1>3. /\ \A g \in Conns \ {h} : wire'[g] = wire[g]
      /\ MsgsIn(wire[h]) \subseteq MsgsIn(wire'[h])
    <2>1. CASE wire' = wire
        BY <2>1
    <2>2. CASE wire' = [wire EXCEPT ![h] = Append(wire[h], [msg |-> m, replay |-> TRUE])]
        <3> DEFINE e == [msg |-> m, replay |-> TRUE]
        <3>1. e \in Copy
            BY <1>2 DEF Copy
        <3> HIDE DEF e
        <3>2. wire'[h] = Append(wire[h], e) /\ \A g \in Conns \ {h} : wire'[g] = wire[g]
            BY <1>2, <2>2 DEF e
        <3>3. /\ Len(wire[h]) \in Nat /\ Len(wire'[h]) = Len(wire[h]) + 1
              /\ \A i \in 1..Len(wire[h]) : wire'[h][i] = wire[h][i]
            BY <1>2, <3>1, <3>2
        <3> QED
            BY <3>2, <3>3 DEF MsgsIn
    <2> QED
        BY <1>1, <2>1, <2>2 DEF Written
<1>4. Started'
    BY <1>1, <1>2, <1>3 DEF UInv, Started
<1>5. OpenStreams'
    BY <1>1 DEF UInv, OpenStreams
<1>6. Served'
    BY <1>1, <1>3 DEF UInv, Served, OnItsWay
<1> QED
    BY <1>4, <1>5, <1>6 DEF UInv

LEMMA ReceiveKeepsUInv ==
    ASSUME IInv, DInv, UInv, NEW h \in Conns, Receive(h)
    PROVE  UInv'
<1>0. PICK e, m : e = Head(wire[h]) /\ m = e.msg
    OBVIOUS
<1>1. /\ wire[h] # <<>>
      /\ wire' = [wire EXCEPT ![h] = Tail(@)]
      /\ received' = Append(received, e)
      /\ UNCHANGED <<tasks, queue, taken, pc, transport, connected>>
    BY <1>0 DEF Receive, vars
<1>2. /\ wire \in [Conns -> Seq(Copy)] /\ DistinctMsgs(wire[h])
      /\ received \in Seq(Copy)
    BY DEF DInv, DeliveryTypeOK, OnceInPlace
<1>3. /\ wire'[h] = Tail(wire[h]) /\ \A g \in Conns \ {h} : wire'[g] = wire[g]
      /\ MsgsIn(Tail(wire[h])) = MsgsIn(wire[h]) \ {m} /\ e \in Copy
    BY <1>0, <1>1, <1>2, TailOfDistinctMsgs
<1>4. MsgsIn(received') = MsgsIn(received) \cup {m}
    <2>1. /\ Len(received) \in Nat /\ Len(received') = Len(received) + 1
          /\ \A i \in 1..Len(received) : received'[i] = received[i]
          /\ received'[Len(received) + 1] = e
        BY <1>1, <1>2, <1>3
    <2> QED
        BY <1>0, <2>1 DEF MsgsIn
<1>5. Started'
    BY <1>1, <1>3 DEF UInv, Started
<1>6. OpenStreams'
    BY <1>1 DEF UInv, OpenStreams
<1>7. Served'
    <2> SUFFICES ASSUME NEW g \in Conns, NEW n \in Messages, OnItsWay(g, n)
                 PROVE  OnItsWay(g, n)'
        BY <1>1 DEF UInv, Served
    <2> QED
        BY <1>1, <1>3, <1>4 DEF OnItsWay
<1> QED
    BY <1>5, <1>6, <1>7 DEF UInv

LEMMA ConnectKeepsUInv ==
    ASSUME IInv, DInv, UInv, NEW h \in Conns, NEW o \in ConnectOptions, NEW broken \in BOOLEAN,
           ConnectSubscriber(h, o, broken)
    PROVE  UInv'
<1>1. /\ pc[h] = "first"
      /\ pc' = [pc EXCEPT ![h] = IF broken THEN "connack" ELSE "loop"]
      /\ \E t \in IF broken THEN {"closed", "unread"} ELSE {"open"} :
               transport' = [transport EXCEPT ![h] = t]
      /\ \A g \in Conns \ {h} : connected'[g] => connected[g]
      /\ UNCHANGED <<tasks, wire, received, taken>>
      /\ \/ queue' = queue
         \/ \E s \in Conns : queue' = [queue EXCEPT ![s] = <<>>]
    <2>1. sessions[Subscriber] \in Conns \cup {None}
        BY DeliveryAssumption DEF IInv, TypeOK
    <2> QED
        BY <2>1 DEF ConnectSubscriber, Connect, StartDrain, DrainNothing, QueueDrained, Resumes
<1>2. /\ pc \in [Conns -> {"new", "first", "connack", "loop", "disconnecting",
                           "final", "done"}]
      /\ transport \in [Conns -> {"open", "unread", "closed"}]
      /\ queue \in [Conns -> Seq(Messages)]
    BY DEF IInv, TypeOK, DInv, DeliveryTypeOK
<1>3. \A g \in Conns : queue'[g] = queue[g] \/ queue'[g] = <<>>
    BY <1>1, <1>2
<1>4. Started'
    BY <1>1, <1>2, <1>3 DEF UInv, Started
<1>5. OpenStreams'
    BY <1>1, <1>2 DEF UInv, OpenStreams
<1>6. Served'
    <2>1. \A m \in Messages : taken[m] # h
        BY <1>1 DEF UInv, Started
    <2>2. \A g \in Conns \ {h} : transport'[g] = transport[g]
        BY <1>1, <1>2
    <2>3. ASSUME NEW g \in Conns, NEW m \in Messages, OnItsWay(g, m)
          PROVE  OnItsWay(g, m)'
        BY <1>1, <2>3 DEF OnItsWay
    <2> QED
        BY <1>1, <2>1, <2>2, <2>3 DEF UInv, Served
<1> QED
    BY <1>4, <1>5, <1>6 DEF UInv

LEMMA ConnackedKeepsUInv ==
    ASSUME IInv, DInv, UInv, NEW h \in Conns, ConnackedSubscriber(h)
    PROVE  UInv'
<1>1. /\ pc[h] = "connack"
      /\ pc' = [pc EXCEPT ![h] = "loop"]
      /\ connected' = [connected EXCEPT ![h] = TRUE]
      /\ UNCHANGED <<transport, tasks, wire, received, taken>>
      /\ \/ queue' = queue
         \/ \E s \in Conns : queue' = [queue EXCEPT ![s] = <<>>]
    <2>1. sessions[Subscriber] \in Conns \cup {None}
        BY DeliveryAssumption DEF IInv, TypeOK
    <2> QED
        BY <2>1 DEF ConnackedSubscriber, Connacked, StartDrain, DrainNothing, QueueDrained
<1>2. /\ pc \in [Conns -> {"new", "first", "connack", "loop", "disconnecting",
                           "final", "done"}]
      /\ connected \in [Conns -> BOOLEAN]
      /\ queue \in [Conns -> Seq(Messages)]
    BY DEF IInv, TypeOK, DInv, DeliveryTypeOK
<1>3. \A g \in Conns : queue'[g] = queue[g] \/ queue'[g] = <<>>
    BY <1>1, <1>2
<1>4. Started'
    BY <1>1, <1>2, <1>3 DEF UInv, Started
<1>5. OpenStreams'
    BY <1>1, <1>2 DEF UInv, OpenStreams
<1>6. Served'
    <2>1. transport[h] # "open"
        BY <1>1 DEF UInv, OpenStreams
    <2> QED
        BY <1>1, <1>2, <2>1 DEF UInv, Served, OnItsWay
<1> QED
    BY <1>4, <1>5, <1>6 DEF UInv

LEMMA InitUInv == DeliveryInit => UInv
<1> SUFFICES ASSUME DeliveryInit PROVE UInv
    OBVIOUS
<1>1. Len(tasks) = 0
    BY DEF DeliveryInit
<1> QED
    BY <1>1, ConstantsAssumption DEF DeliveryInit, Init, UInv, Started, OpenStreams, Served

LEMMA NextKeepsUInv == IInv /\ DInv /\ UInv /\ [DeliveryNext]_<<vars, outbound>> => UInv'
<1> SUFFICES ASSUME IInv, DInv, UInv, [DeliveryNext]_<<vars, outbound>> PROVE UInv'
    OBVIOUS
<1>1. CASE UNCHANGED <<vars, outbound>>
    BY <1>1 DEF vars, outbound, UInv, Started, OpenStreams, Served, OnItsWay
<1>2. ASSUME NEW h \in Conns, Lifecycle(h) PROVE UInv'
    <2>1. UNCHANGED <<wire, queue, tasks, taken, received>>
        BY <1>2 DEF Lifecycle, outbound
    <2> QED
        BY <1>2, <2>1, LifecycleEnds, EndsKeepsUInv DEF UInv
<1>3. ASSUME NEW h \in Conns, HandlePuback(h) PROVE UInv'
    <2>1. UNCHANGED <<wire, queue, tasks, taken, received>>
        BY <1>3 DEF HandlePuback
    <2> QED
        BY <1>3, <2>1, HandlePubackEnds, EndsKeepsUInv
<1> QED
    BY <1>1, <1>2, <1>3, RouteKeepsUInv, DeliverKeepsUInv, ReplayKeepsUInv, ReceiveKeepsUInv,
       ConnectKeepsUInv, ConnackedKeepsUInv
    DEF DeliveryNext

\* What holds of connections that are up holds in every behaviour.
THEOREM UpInvariance == DeliverySpec => []UInv
<1> QED
    BY InitUInv, NextKeepsUInv, DeliveryInvariance, DeliveryIsOverConnections, Invariance, PTL
    DEF DeliverySpec

\* With takeovers: what was routed to a connection that stays up is with the
\* client once nothing of it waits in a task, a replay or on the wire.
THEOREM EverythingArrives == DeliverySpec => []DeliveredWhileUp
<1>1. UInv => DeliveredWhileUp
    <2> SUFFICES ASSUME UInv, NEW h \in Conns, NEW m \in Messages, taken[m] = h,
                        connected[h], transport[h] = "open",
                        tasks = <<>>, wire[h] = <<>>
                 PROVE  \E i \in 1..Len(received) : received[i].msg = m
        BY DEF DeliveredWhileUp
    <2>1. OnItsWay(h, m)
        BY DEF UInv, Served
    <2>2. Len(tasks) = 0 /\ Len(wire[h]) = 0
        OBVIOUS
    <2> QED
        BY <2>1, <2>2 DEF OnItsWay, MsgsIn
<1> QED
    BY <1>1, UpInvariance, PTL

-----------------------------------------------------------------------------
(***************************************************************************)
(* The order of the messages.                                              *)
(***************************************************************************)
\* Pairs of messages in the order of route.
Precedes ==
    {p \in Messages \X Messages :
        \E i, j \in 1..Len(routed) : i < j /\ routed[i] = p[1] /\ routed[j] = p[2]}

\* Each message of A comes before each of B in the order R.
Before(A, B, R) == \A a \in A, b \in B : <<a, b>> \in R

\* Sequences of messages, of tasks and of copies that are in the order R; live
\* and replayed copies each among themselves.
Ordered(q, R) == \A i, j \in 1..Len(q) : i < j => <<q[i], q[j]>> \in R

MsgsOrdered(q, R) == \A i, j \in 1..Len(q) : i < j => <<q[i].msg, q[j].msg>> \in R

CopiesOrdered(q, R) ==
    \A i, j \in 1..Len(q) :
        i < j /\ q[i].replay = q[j].replay => <<q[i].msg, q[j].msg>> \in R

\* The messages of the live or of the replayed copies in a sequence.
Sent(q, replay) == {q[i].msg : i \in {j \in 1..Len(q) : q[j].replay = replay}}

LEMMA TailOrdered ==
    ASSUME NEW S, NEW R, NEW q \in Seq(S), q # <<>>, Ordered(q, R)
    PROVE  Ordered(Tail(q), R) /\ Before({Head(q)}, Members(Tail(q)), R)
<1>1. /\ Len(q) \in Nat \ {0} /\ Len(Tail(q)) = Len(q) - 1 /\ Head(q) = q[1]
      /\ \A i \in 1..Len(Tail(q)) : Tail(q)[i] = q[i + 1]
    OBVIOUS
<1>2. \A i \in 1..Len(Tail(q)) : i + 1 \in 1..Len(q) /\ 1 < i + 1
    BY <1>1
<1>3. Ordered(Tail(q), R)
    BY <1>1, <1>2 DEF Ordered
<1>4. \A i \in 1..Len(Tail(q)) : <<q[1], Tail(q)[i]>> \in R
    BY <1>1, <1>2 DEF Ordered
<1> QED
    BY <1>1, <1>3, <1>4 DEF Before, Members

LEMMA AppendOrdered ==
    ASSUME NEW S, NEW R, NEW q \in Seq(S), NEW e \in S,
           Ordered(q, R), Before(Members(q), {e}, R)
    PROVE  Ordered(Append(q, e), R)
<1>1. /\ Len(q) \in Nat /\ Len(Append(q, e)) = Len(q) + 1
      /\ \A i \in 1..Len(q) : Append(q, e)[i] = q[i]
      /\ Append(q, e)[Len(q) + 1] = e
    OBVIOUS
<1>2. \A i \in 1..Len(q) : <<q[i], e>> \in R
    BY DEF Before, Members
<1> QED
    BY <1>1, <1>2 DEF Ordered

LEMMA TailMsgsOrdered ==
    ASSUME NEW S, NEW R, NEW q \in Seq(S), q # <<>>, MsgsOrdered(q, R)
    PROVE  MsgsOrdered(Tail(q), R) /\ Before({Head(q).msg}, MsgsIn(Tail(q)), R)
<1>1. /\ Len(q) \in Nat \ {0} /\ Len(Tail(q)) = Len(q) - 1 /\ Head(q) = q[1]
      /\ \A i \in 1..Len(Tail(q)) : Tail(q)[i] = q[i + 1]
    OBVIOUS
<1>2. \A i \in 1..Len(Tail(q)) : i + 1 \in 1..Len(q) /\ 1 < i + 1
    BY <1>1
<1>3. MsgsOrdered(Tail(q), R)
    BY <1>1, <1>2 DEF MsgsOrdered
<1>4. \A i \in 1..Len(Tail(q)) : <<q[1].msg, Tail(q)[i].msg>> \in R
    BY <1>1, <1>2 DEF MsgsOrdered
<1> QED
    BY <1>1, <1>3, <1>4 DEF Before, MsgsIn

LEMMA AppendMsgsOrdered ==
    ASSUME NEW S, NEW R, NEW q \in Seq(S), NEW e \in S,
           MsgsOrdered(q, R), Before(MsgsIn(q), {e.msg}, R)
    PROVE  MsgsOrdered(Append(q, e), R)
<1>1. /\ Len(q) \in Nat /\ Len(Append(q, e)) = Len(q) + 1
      /\ \A i \in 1..Len(q) : Append(q, e)[i] = q[i]
      /\ Append(q, e)[Len(q) + 1] = e
    OBVIOUS
<1>2. \A i \in 1..Len(q) : <<q[i].msg, e.msg>> \in R
    BY DEF Before, MsgsIn
<1> QED
    BY <1>1, <1>2 DEF MsgsOrdered

LEMMA TailCopiesOrdered ==
    ASSUME NEW R, NEW q \in Seq(Copy), q # <<>>, CopiesOrdered(q, R)
    PROVE  /\ CopiesOrdered(Tail(q), R)
           /\ Before({Head(q).msg}, Sent(Tail(q), Head(q).replay), R)
           /\ Head(q).msg \in Sent(q, Head(q).replay)
           /\ \A r : Sent(Tail(q), r) \subseteq Sent(q, r)
<1>1. /\ Len(q) \in Nat \ {0} /\ Len(Tail(q)) = Len(q) - 1 /\ Head(q) = q[1]
      /\ \A i \in 1..Len(Tail(q)) : Tail(q)[i] = q[i + 1]
    OBVIOUS
<1>2. \A i \in 1..Len(Tail(q)) : i + 1 \in 1..Len(q) /\ 1 < i + 1
    BY <1>1
<1>3. CopiesOrdered(Tail(q), R)
    BY <1>1, <1>2 DEF CopiesOrdered
<1>4. \A i \in 1..Len(Tail(q)) :
          Tail(q)[i].replay = q[1].replay => <<q[1].msg, Tail(q)[i].msg>> \in R
    BY <1>1, <1>2 DEF CopiesOrdered
<1>5. Before({Head(q).msg}, Sent(Tail(q), Head(q).replay), R)
    BY <1>1, <1>4 DEF Before, Sent
<1>6. Head(q).msg \in Sent(q, Head(q).replay)
    <2>1. 1 \in 1..Len(q) /\ q[1] = Head(q)
        BY <1>1
    <2> QED
        BY <2>1 DEF Sent
<1>7. \A r : Sent(Tail(q), r) \subseteq Sent(q, r)
    BY <1>1, <1>2 DEF Sent
<1> QED
    BY <1>3, <1>5, <1>6, <1>7

LEMMA AppendCopiesOrdered ==
    ASSUME NEW R, NEW q \in Seq(Copy), NEW e \in Copy,
           CopiesOrdered(q, R), Before(Sent(q, e.replay), {e.msg}, R)
    PROVE  CopiesOrdered(Append(q, e), R)
<1>1. /\ Len(q) \in Nat /\ Len(Append(q, e)) = Len(q) + 1
      /\ \A i \in 1..Len(q) : Append(q, e)[i] = q[i]
      /\ Append(q, e)[Len(q) + 1] = e
    OBVIOUS
<1>2. \A i \in 1..Len(q) : q[i].replay = e.replay => <<q[i].msg, e.msg>> \in R
    BY DEF Before, Sent
<1> QED
    BY <1>1, <1>2 DEF CopiesOrdered

LEMMA AppendSent ==
    ASSUME NEW q \in Seq(Copy), NEW e \in Copy
    PROVE  /\ \A r : r # e.replay => Sent(Append(q, e), r) = Sent(q, r)
           /\ Sent(Append(q, e), e.replay) = Sent(q, e.replay) \cup {e.msg}
<1>1. /\ Len(q) \in Nat /\ Len(Append(q, e)) = Len(q) + 1
      /\ \A i \in 1..Len(q) : Append(q, e)[i] = q[i]
      /\ Append(q, e)[Len(q) + 1] = e
    OBVIOUS
<1>2. 1..(Len(q) + 1) = 1..Len(q) \cup {Len(q) + 1}
    BY <1>1
<1>3. \A r : \A x : x \in Sent(Append(q, e), r) <=>
          (\E i \in 1..Len(q) : q[i].replay = r /\ x = q[i].msg) \/ (e.replay = r /\ x = e.msg)
    BY <1>1, <1>2 DEF Sent
<1>4. \A r : \A x : x \in Sent(q, r) <=> \E i \in 1..Len(q) : q[i].replay = r /\ x = q[i].msg
    BY DEF Sent
<1>5. \A r : r # e.replay => Sent(Append(q, e), r) = Sent(q, r)
    <2> TAKE r
    <2>1. r # e.replay => \A x : x \in Sent(Append(q, e), r) <=> x \in Sent(q, r)
        BY <1>3, <1>4
    <2> QED
        BY <2>1
<1>6. Sent(Append(q, e), e.replay) = Sent(q, e.replay) \cup {e.msg}
    BY <1>3, <1>4
<1> QED
    BY <1>5, <1>6

\* An order that grows keeps what it ordered.
LEMMA OrderGrows ==
    ASSUME NEW R, NEW T, R \subseteq T
    PROVE  /\ \A q : Ordered(q, R) => Ordered(q, T)
           /\ \A q : MsgsOrdered(q, R) => MsgsOrdered(q, T)
           /\ \A q : CopiesOrdered(q, R) => CopiesOrdered(q, T)
           /\ \A A, B : Before(A, B, R) => Before(A, B, T)
BY DEF Ordered, MsgsOrdered, CopiesOrdered, Before

\* Sent messages are messages of the sequence.
LEMMA SentIsIn ==
    \A q, r : Sent(q, r) \subseteq MsgsIn(q)
BY DEF Sent, MsgsIn

\* Nothing is in an empty sequence.
LEMMA EmptyIsOrdered ==
    ASSUME NEW R
    PROVE  /\ Ordered(<<>>, R) /\ MsgsOrdered(<<>>, R) /\ CopiesOrdered(<<>>, R)
           /\ Members(<<>>) = {} /\ MsgsIn(<<>>) = {} /\ \A r : Sent(<<>>, r) = {}
<1>1. Len(<<>>) = 0 /\ 1..0 = {}
    OBVIOUS
<1> QED
    BY <1>1 DEF Ordered, MsgsOrdered, CopiesOrdered, Members, MsgsIn, Sent


-----------------------------------------------------------------------------
\* The messages whose task has started and that are not lost.
Past ==
    {m \in Messages :
        \/ m \in MsgsIn(received)
        \/ \E h \in Conns : \/ m \in Members(queue[h])
                            \/ m \in Members(draining[h])
                            \/ m \in MsgsIn(wire[h])}

\* route is called once for a message, and before all that follows.
Recorded ==
    /\ Distinct(routed)
    /\ unrouted \cap Members(routed) = {}
    /\ MsgsIn(tasks) \cup Past \subseteq Members(routed)

\* Tasks start in the order of route.
TasksLast ==
    /\ MsgsOrdered(tasks, Precedes)
    /\ Before(Past, MsgsIn(tasks), Precedes)

\* So queues and replays are in this order, and what is on a wire is so for
\* live and for replayed messages.
PlacesOrdered ==
    /\ \A h \in Conns : Ordered(queue[h], Precedes) /\ Ordered(draining[h], Precedes)
    /\ \A h \in Conns : transport[h] = "open" =>
          /\ CopiesOrdered(wire[h], Precedes)
          /\ Before(Sent(wire[h], TRUE), Members(draining[h]), Precedes)

RInv ==
    /\ Recorded
    /\ TasksLast
    /\ PlacesOrdered

\* Messages and places have their types.
LEMMA PlacesAreMessages ==
    ASSUME DeliveryTypeOK
    PROVE  /\ MsgsIn(tasks) \subseteq Messages /\ MsgsIn(received) \subseteq Messages
           /\ \A h \in Conns : /\ Members(queue[h]) \subseteq Messages
                               /\ Members(draining[h]) \subseteq Messages
                               /\ MsgsIn(wire[h]) \subseteq Messages
<1>1. /\ tasks \in Seq(Task) /\ received \in Seq(Copy)
      /\ queue \in [Conns -> Seq(Messages)] /\ draining \in [Conns -> Seq(Messages)]
      /\ wire \in [Conns -> Seq(Copy)]
    BY DEF DeliveryTypeOK
<1>2. \A q \in Seq(Task) : MsgsIn(q) \subseteq Messages
    <2> TAKE q \in Seq(Task)
    <2>1. \A i \in 1..Len(q) : q[i].msg \in Messages
        <3>1. \A i \in 1..Len(q) : q[i] \in Task
            OBVIOUS
        <3> QED
            BY <3>1 DEF Task
    <2> QED
        BY <2>1 DEF MsgsIn
<1>3. \A q \in Seq(Copy) : MsgsIn(q) \subseteq Messages
    <2> TAKE q \in Seq(Copy)
    <2>1. \A i \in 1..Len(q) : q[i].msg \in Messages
        <3>1. \A i \in 1..Len(q) : q[i] \in Copy
            OBVIOUS
        <3> QED
            BY <3>1 DEF Copy
    <2> QED
        BY <2>1 DEF MsgsIn
<1>4. \A q \in Seq(Messages) : Members(q) \subseteq Messages
    BY DEF Members
<1> QED
    BY <1>1, <1>2, <1>3, <1>4

\* What a send does to the wire of h.
LEMMA WrittenCopy ==
    ASSUME DeliveryTypeOK, NEW h \in Conns, NEW m \in Messages, NEW replay \in BOOLEAN,
           wire' = Written(h, m, replay)
    PROVE  /\ wire' \in [Conns -> Seq(Copy)]
           /\ \A g \in Conns \ {h} : wire'[g] = wire[g]
           /\ MsgsIn(wire'[h]) \subseteq MsgsIn(wire[h]) \cup {m}
           /\ \A r : r # replay => Sent(wire'[h], r) = Sent(wire[h], r)
           /\ Sent(wire'[h], replay) \subseteq Sent(wire[h], replay) \cup {m}
           /\ \A R : CopiesOrdered(wire[h], R) /\ Before(Sent(wire[h], replay), {m}, R) =>
                         CopiesOrdered(wire'[h], R)
           /\ transport[h] # "open" => wire' = wire
<1> DEFINE e == [msg |-> m, replay |-> replay]
<1>1. wire \in [Conns -> Seq(Copy)]
    BY DEF DeliveryTypeOK
<1>2. e \in Copy /\ e.msg = m /\ e.replay = replay
    BY DEF Copy
<1>3. \/ wire' = wire
      \/ transport[h] = "open" /\ wire' = [wire EXCEPT ![h] = Append(wire[h], e)]
    BY <1>1 DEF Written
<1> HIDE DEF e
<1>4. CASE wire' = wire
    BY <1>1, <1>4
<1>5. CASE transport[h] = "open" /\ wire' = [wire EXCEPT ![h] = Append(wire[h], e)]
    <2>1. wire'[h] = Append(wire[h], e) /\ \A g \in Conns \ {h} : wire'[g] = wire[g]
        BY <1>1, <1>5
    <2>2. wire' \in [Conns -> Seq(Copy)]
        BY <1>1, <1>2, <1>5
    <2>3. PICK q : q = wire[h] /\ q \in Seq(Copy)
        BY <1>1
    <2>4. /\ \A r : r # e.replay => Sent(Append(q, e), r) = Sent(q, r)
          /\ Sent(Append(q, e), e.replay) = Sent(q, e.replay) \cup {e.msg}
        BY <1>2, <2>3, AppendSent
    <2>5. MsgsIn(Append(q, e)) \subseteq MsgsIn(q) \cup {m}
        <3>1. /\ Len(q) \in Nat /\ Len(Append(q, e)) = Len(q) + 1
              /\ \A i \in 1..Len(q) : Append(q, e)[i] = q[i]
              /\ Append(q, e)[Len(q) + 1] = e
            BY <1>2, <2>3
        <3> QED
            BY <1>2, <3>1 DEF MsgsIn
    <2>6. \A R : CopiesOrdered(q, R) /\ Before(Sent(q, e.replay), {e.msg}, R) =>
                     CopiesOrdered(Append(q, e), R)
        BY <1>2, <2>3, AppendCopiesOrdered
    <2> QED
        BY <1>2, <1>5, <2>1, <2>2, <2>3, <2>4, <2>5, <2>6
<1> QED
    BY <1>3, <1>4, <1>5

\* route makes the message the last one.
LEMMA RouteExtends ==
    ASSUME DeliveryTypeOK, NEW m \in Messages, routed' = Append(routed, m)
    PROVE  /\ Precedes \subseteq Precedes'
           /\ \A n \in Members(routed) : <<n, m>> \in Precedes'
           /\ Members(routed') = Members(routed) \cup {m}
<1>1. routed \in Seq(Messages)
    BY DEF DeliveryTypeOK
<1>2. /\ Len(routed) \in Nat /\ Len(routed') = Len(routed) + 1
      /\ \A i \in 1..Len(routed) : routed'[i] = routed[i] /\ i \in 1..Len(routed')
      /\ routed'[Len(routed) + 1] = m /\ Len(routed) + 1 \in 1..Len(routed')
      /\ \A i \in 1..Len(routed) : i < Len(routed) + 1
    BY <1>1
<1>3. Precedes \subseteq Precedes'
    BY <1>2 DEF Precedes
<1>4. ASSUME NEW n \in Members(routed) PROVE <<n, m>> \in Precedes'
    <2>1. PICK i \in 1..Len(routed) : n = routed[i]
        BY <1>4 DEF Members
    <2>2. n \in Messages
        BY <1>1, <2>1
    <2>3. i < Len(routed) + 1 /\ routed'[i] = n /\ routed'[Len(routed) + 1] = m
        BY <1>2, <2>1
    <2> QED
        BY <1>2, <2>2, <2>3 DEF Precedes
<1>5. Members(routed') = Members(routed) \cup {m}
    BY <1>2 DEF Members
<1> QED
    BY <1>3, <1>4, <1>5

LEMMA RouteKeepsRInv ==
    ASSUME IInv, DInv, RInv, NEW m \in Messages, Route(m)
    PROVE  RInv'
<1> DEFINE h == clients[Subscriber]
           task == [handler |-> h, msg |-> m]
<1>1. /\ m \in unrouted
      /\ unrouted' = unrouted \ {m}
      /\ routed' = Append(routed, m)
      /\ \/ h # None /\ tasks' = Append(tasks, task)
         \/ tasks' = tasks
      /\ UNCHANGED <<queue, draining, wire, received, transport>>
    BY DEF Route, vars
<1>2. /\ h \in Conns \cup {None}
      /\ tasks \in Seq(Task) /\ routed \in Seq(Messages) /\ DeliveryTypeOK
    BY DeliveryAssumption DEF IInv, TypeOK, DInv, DeliveryTypeOK
<1>3. /\ Precedes \subseteq Precedes'
      /\ \A n \in Members(routed) : <<n, m>> \in Precedes'
      /\ Members(routed') = Members(routed) \cup {m}
    BY <1>1, <1>2, RouteExtends
<1>4. PICK R, T : R = Precedes /\ T = Precedes'
    OBVIOUS
<1>5. /\ \A q : Ordered(q, R) => Ordered(q, T)
      /\ \A q : MsgsOrdered(q, R) => MsgsOrdered(q, T)
      /\ \A q : CopiesOrdered(q, R) => CopiesOrdered(q, T)
      /\ \A A, B : Before(A, B, R) => Before(A, B, T)
    BY <1>3, <1>4, OrderGrows
<1>6. Past' = Past
    BY <1>1 DEF Past
<1>7. /\ MsgsIn(tasks') \subseteq MsgsIn(tasks) \cup {m}
      /\ MsgsOrdered(tasks', T)
    <2>1. MsgsOrdered(tasks, T)
        BY <1>4, <1>5 DEF RInv, TasksLast
    <2>2. CASE tasks' = tasks
        BY <2>1, <2>2
    <2>3. CASE h # None /\ tasks' = Append(tasks, task)
        <3>1. task \in Task /\ task.msg = m
            BY <1>2, <2>3 DEF Task
        <3> HIDE DEF task
        <3>2. Before(MsgsIn(tasks), {m}, T)
            BY <1>3, <1>4 DEF RInv, Recorded, Before
        <3>3. MsgsOrdered(tasks', T)
            BY <1>2, <2>1, <2>3, <3>1, <3>2, AppendMsgsOrdered
        <3>4. /\ Len(tasks) \in Nat /\ Len(tasks') = Len(tasks) + 1
              /\ \A i \in 1..Len(tasks) : tasks'[i] = tasks[i]
              /\ tasks'[Len(tasks) + 1] = task
            BY <1>2, <2>3, <3>1
        <3> QED
            BY <3>1, <3>3, <3>4 DEF MsgsIn
    <2> QED
        BY <1>1, <2>2, <2>3
<1>8. Recorded'
    <2>1. Distinct(routed')
        BY <1>1, <1>2, AppendToDistinct DEF RInv, Recorded
    <2> QED
        BY <1>1, <1>3, <1>6, <1>7, <2>1 DEF RInv, Recorded
<1>9. TasksLast'
    <2>1. Before(Past, MsgsIn(tasks'), T)
        BY <1>3, <1>4, <1>5, <1>7 DEF RInv, Recorded, TasksLast, Before
    <2> QED
        BY <1>4, <1>6, <1>7, <2>1 DEF TasksLast
<1>10. PlacesOrdered'
    BY <1>1, <1>4, <1>5 DEF RInv, PlacesOrdered
<1> QED
    BY <1>8, <1>9, <1>10 DEF RInv

LEMMA DeliverKeepsRInv ==
    ASSUME IInv, DInv, RInv, Deliver
    PROVE  RInv'
<1>0. PICK h, m, s, R : /\ h = Head(tasks).handler /\ m = Head(tasks).msg
                        /\ s = sessions[Subscriber] /\ R = Precedes
    OBVIOUS
<1>1. /\ tasks # <<>> /\ tasks' = Tail(tasks)
      /\ \/ wire' = Written(h, m, FALSE) /\ queue' = queue
         \/ s # None /\ queue' = [queue EXCEPT ![s] = Append(@, m)] /\ wire' = wire
         \/ UNCHANGED <<queue, wire>>
      /\ UNCHANGED <<unrouted, draining, received, routed, transport>>
    BY <1>0 DEF Deliver, Accepts, vars
<1>2. /\ s \in Conns \cup {None}
      /\ tasks \in Seq(Task) /\ DistinctMsgs(tasks)
      /\ queue \in [Conns -> Seq(Messages)] /\ DeliveryTypeOK
      /\ MsgsOrdered(tasks, R) /\ Before(Past, MsgsIn(tasks), R)
    BY <1>0, DeliveryAssumption
    DEF IInv, TypeOK, DInv, DeliveryTypeOK, OnceInPlace, RInv, TasksLast
<1>3. /\ Head(tasks) \in Task /\ m \in MsgsIn(tasks)
      /\ MsgsIn(tasks') = MsgsIn(tasks) \ {m}
      /\ MsgsOrdered(tasks', R) /\ Before({m}, MsgsIn(tasks'), R)
    BY <1>0, <1>1, <1>2, TailOfDistinctMsgs, TailMsgsOrdered
<1>4. h \in Conns /\ m \in Messages
    BY <1>0, <1>3 DEF Task
<1>5. Precedes' = R
    BY <1>0, <1>1 DEF Precedes
<1>6. \A g \in Conns : /\ Before(MsgsIn(wire[g]), {m}, R)
                       /\ Before(Members(queue[g]), {m}, R)
    <2>1. \A g \in Conns : MsgsIn(wire[g]) \cup Members(queue[g]) \subseteq Past
        BY <1>2, PlacesAreMessages DEF Past
    <2> QED
        BY <1>2, <1>3, <2>1 DEF Before
<1>7. /\ \A g \in Conns : MsgsIn(wire'[g]) \subseteq MsgsIn(wire[g]) \cup {m}
      /\ \A g \in Conns : Sent(wire'[g], TRUE) = Sent(wire[g], TRUE)
      /\ \A g \in Conns : CopiesOrdered(wire[g], R) => CopiesOrdered(wire'[g], R)
    <2>1. CASE wire' = wire
        BY <2>1
    <2>2. CASE wire' = Written(h, m, FALSE)
        <3>1. /\ \A g \in Conns \ {h} : wire'[g] = wire[g]
              /\ MsgsIn(wire'[h]) \subseteq MsgsIn(wire[h]) \cup {m}
              /\ \A r : r # FALSE => Sent(wire'[h], r) = Sent(wire[h], r)
              /\ CopiesOrdered(wire[h], R) /\ Before(Sent(wire[h], FALSE), {m}, R) =>
                     CopiesOrdered(wire'[h], R)
            BY <1>2, <1>4, <2>2, WrittenCopy
        <3>2. Before(Sent(wire[h], FALSE), {m}, R)
            BY <1>4, <1>6, SentIsIn DEF Before
        <3>3. Sent(wire'[h], TRUE) = Sent(wire[h], TRUE)
            BY <3>1
        <3> QED
            BY <3>1, <3>2, <3>3
    <2> QED
        BY <1>1, <2>1, <2>2
<1>8. /\ \A g \in Conns : Members(queue'[g]) \subseteq Members(queue[g]) \cup {m}
      /\ \A g \in Conns : Ordered(queue[g], R) => Ordered(queue'[g], R)
    <2>1. CASE queue' = queue
        BY <2>1
    <2>2. CASE s # None /\ queue' = [queue EXCEPT ![s] = Append(queue[s], m)]
        <3>1. s \in Conns /\ queue[s] \in Seq(Messages)
            BY <1>2, <2>2
        <3>2. queue'[s] = Append(queue[s], m) /\ \A g \in Conns \ {s} : queue'[g] = queue[g]
            BY <1>2, <2>2, <3>1
        <3>3. Ordered(queue[s], R) => Ordered(Append(queue[s], m), R)
            BY <1>4, <1>6, <3>1, AppendOrdered
        <3>4. Members(Append(queue[s], m)) \subseteq Members(queue[s]) \cup {m}
            <4>1. /\ Len(queue[s]) \in Nat /\ Len(Append(queue[s], m)) = Len(queue[s]) + 1
                  /\ \A i \in 1..Len(queue[s]) : Append(queue[s], m)[i] = queue[s][i]
                  /\ Append(queue[s], m)[Len(queue[s]) + 1] = m
                BY <1>4, <3>1
            <4> QED
                BY <4>1 DEF Members
        <3> QED
            BY <3>2, <3>3, <3>4
    <2> QED
        BY <1>1, <2>1, <2>2
<1>9. Past' \subseteq Past \cup {m}
    BY <1>1, <1>7, <1>8 DEF Past
<1>10. Recorded'
    BY <1>1, <1>3, <1>9 DEF RInv, Recorded
<1>11. TasksLast'
    BY <1>2, <1>3, <1>5, <1>9 DEF TasksLast, Before
<1>12. PlacesOrdered'
    BY <1>0, <1>1, <1>5, <1>7, <1>8 DEF RInv, PlacesOrdered
<1> QED
    BY <1>10, <1>11, <1>12 DEF RInv

LEMMA ReplayKeepsRInv ==
    ASSUME IInv, DInv, RInv, NEW h \in Conns, Replay(h)
    PROVE  RInv'
<1>0. PICK m, R : m = Head(draining[h]) /\ R = Precedes
    OBVIOUS
<1>1. /\ draining[h] # <<>>
      /\ draining' = [draining EXCEPT ![h] = Tail(@)]
      /\ wire' = Written(h, m, TRUE)
      /\ UNCHANGED <<unrouted, tasks, queue, received, routed, transport>>
    BY <1>0 DEF Replay, vars
<1>2. /\ draining \in [Conns -> Seq(Messages)] /\ Distinct(draining[h])
      /\ DeliveryTypeOK /\ Ordered(draining[h], R)
    BY <1>0 DEF DInv, DeliveryTypeOK, OnceInPlace, RInv, PlacesOrdered
<1>3. /\ m \in Messages /\ m \in Members(draining[h])
      /\ draining'[h] = Tail(draining[h])
      /\ \A g \in Conns \ {h} : draining'[g] = draining[g]
      /\ Members(draining'[h]) = Members(draining[h]) \ {m}
      /\ Ordered(draining'[h], R) /\ Before({m}, Members(draining'[h]), R)
    BY <1>0, <1>1, <1>2, TailOfDistinct, TailOrdered
<1>4. /\ \A g \in Conns \ {h} : wire'[g] = wire[g]
      /\ MsgsIn(wire'[h]) \subseteq MsgsIn(wire[h]) \cup {m}
      /\ Sent(wire'[h], TRUE) \subseteq Sent(wire[h], TRUE) \cup {m}
      /\ CopiesOrdered(wire[h], R) /\ Before(Sent(wire[h], TRUE), {m}, R) =>
             CopiesOrdered(wire'[h], R)
    BY <1>1, <1>2, <1>3, WrittenCopy
<1>5. Precedes' = R
    BY <1>0, <1>1 DEF Precedes
<1>6. Past' \subseteq Past
    BY <1>1, <1>3, <1>4 DEF Past
<1>7. Recorded' /\ TasksLast'
    BY <1>0, <1>1, <1>5, <1>6 DEF RInv, Recorded, TasksLast, Before
<1>8. PlacesOrdered'
    <2>1. \A g \in Conns : Ordered(queue'[g], R) /\ Ordered(draining'[g], R)
        BY <1>0, <1>1, <1>3 DEF RInv, PlacesOrdered
    <2>2. ASSUME NEW g \in Conns, transport[g] = "open"
          PROVE  CopiesOrdered(wire'[g], R) /\ Before(Sent(wire'[g], TRUE), Members(draining'[g]), R)
        <3>1. /\ CopiesOrdered(wire[g], R)
              /\ Before(Sent(wire[g], TRUE), Members(draining[g]), R)
            BY <1>0, <2>2 DEF RInv, PlacesOrdered
        <3>2. CASE g = h
            BY <1>3, <1>4, <3>1, <3>2 DEF Before
        <3>3. CASE g # h
            BY <1>3, <1>4, <3>1, <3>3
        <3> QED
            BY <3>2, <3>3
    <2> QED
        BY <1>1, <1>5, <2>1, <2>2 DEF PlacesOrdered
<1> QED
    BY <1>7, <1>8 DEF RInv

LEMMA ReceiveKeepsRInv ==
    ASSUME IInv, DInv, RInv, NEW h \in Conns, Receive(h)
    PROVE  RInv'
<1>0. PICK e, m, R : e = Head(wire[h]) /\ m = e.msg /\ R = Precedes
    OBVIOUS
<1>1. /\ wire[h] # <<>> /\ transport[h] = "open"
      /\ wire' = [wire EXCEPT ![h] = Tail(@)]
      /\ received' = Append(received, e)
      /\ UNCHANGED <<unrouted, tasks, queue, draining, routed, transport>>
    BY <1>0 DEF Receive, vars
<1>2. /\ wire \in [Conns -> Seq(Copy)] /\ DistinctMsgs(wire[h]) /\ received \in Seq(Copy)
      /\ CopiesOrdered(wire[h], R)
    BY <1>0, <1>1 DEF DInv, DeliveryTypeOK, OnceInPlace, RInv, PlacesOrdered
<1>3. /\ e \in Copy /\ m \in MsgsIn(wire[h])
      /\ wire'[h] = Tail(wire[h]) /\ \A g \in Conns \ {h} : wire'[g] = wire[g]
      /\ MsgsIn(wire'[h]) = MsgsIn(wire[h]) \ {m}
      /\ CopiesOrdered(wire'[h], R) /\ Sent(wire'[h], TRUE) \subseteq Sent(wire[h], TRUE)
    BY <1>0, <1>1, <1>2, TailOfDistinctMsgs, TailCopiesOrdered
<1>4. MsgsIn(received') = MsgsIn(received) \cup {m}
    <2>1. /\ Len(received) \in Nat /\ Len(received') = Len(received) + 1
          /\ \A i \in 1..Len(received) : received'[i] = received[i]
          /\ received'[Len(received) + 1] = e
        BY <1>1, <1>2, <1>3
    <2> QED
        BY <1>0, <2>1 DEF MsgsIn
<1>5. Precedes' = R
    BY <1>0, <1>1 DEF Precedes
<1>6. Past' \subseteq Past
    BY <1>1, <1>3, <1>4 DEF Past
<1>7. Recorded' /\ TasksLast'
    BY <1>0, <1>1, <1>5, <1>6 DEF RInv, Recorded, TasksLast, Before
<1>8. PlacesOrdered'
    BY <1>0, <1>1, <1>3, <1>5 DEF RInv, PlacesOrdered, Before
<1> QED
    BY <1>7, <1>8 DEF RInv

\* The queue of the session becomes the replay of a connection without one.
LEMMA DrainKeepsRInv ==
    ASSUME DInv, RInv, NEW h \in Conns, NEW s \in Conns, StartDrain(h, s),
           transport'[h] = "open" => wire[h] = <<>>,
           \A g \in Conns \ {h} : transport'[g] = transport[g],
           UNCHANGED <<unrouted, tasks, wire, received, routed>>
    PROVE  RInv'
<1>0. PICK R : R = Precedes
    OBVIOUS
<1>1. /\ draining' = [draining EXCEPT ![h] = queue[s]]
      /\ queue' = [queue EXCEPT ![s] = <<>>]
    BY DEF StartDrain, Drained, QueueDrained
<1>2. queue \in [Conns -> Seq(Messages)] /\ draining \in [Conns -> Seq(Messages)]
    BY DEF DInv, DeliveryTypeOK
<1>3. /\ draining'[h] = queue[s] /\ \A g \in Conns \ {h} : draining'[g] = draining[g]
      /\ queue'[s] = <<>> /\ \A g \in Conns \ {s} : queue'[g] = queue[g]
    BY <1>1, <1>2
<1>4. Precedes' = R
    BY <1>0 DEF Precedes
<1>5. Members(<<>>) = {} /\ Ordered(<<>>, R) /\ Sent(<<>>, TRUE) = {} /\ CopiesOrdered(<<>>, R)
    BY EmptyIsOrdered
<1>6. Past' \subseteq Past
    BY <1>3, <1>5 DEF Past
<1>7. Recorded' /\ TasksLast'
    BY <1>0, <1>4, <1>6 DEF RInv, Recorded, TasksLast, Before
<1>8. PlacesOrdered'
    <2>1. \A g \in Conns : Ordered(queue'[g], R) /\ Ordered(draining'[g], R)
        BY <1>0, <1>3, <1>5 DEF RInv, PlacesOrdered
    <2>2. ASSUME NEW g \in Conns, transport'[g] = "open"
          PROVE  CopiesOrdered(wire[g], R) /\ Before(Sent(wire[g], TRUE), Members(draining'[g]), R)
        <3>1. CASE g = h
            BY <1>5, <2>2, <3>1 DEF Before
        <3>2. CASE g # h
            BY <1>0, <1>3, <2>2, <3>2 DEF RInv, PlacesOrdered
        <3> QED
            BY <3>1, <3>2
    <2> QED
        BY <1>4, <2>1, <2>2 DEF PlacesOrdered
<1> QED
    BY <1>7, <1>8 DEF RInv

\* A step that leaves the messages alone and opens no stream.
LEMMA NothingMovedKeepsRInv ==
    ASSUME RInv, UNCHANGED <<unrouted, tasks, queue, draining, wire, received, routed>>,
           \A g \in Conns : transport'[g] = "open" =>
               transport[g] = "open" \/ wire[g] = <<>>
    PROVE  RInv'
<1>1. Precedes' = Precedes /\ Past' = Past
    BY DEF Precedes, Past
<1>2. Recorded' /\ TasksLast'
    BY <1>1 DEF RInv, Recorded, TasksLast
<1>3. PlacesOrdered'
    BY <1>1, EmptyIsOrdered DEF RInv, PlacesOrdered, Before
<1> QED
    BY <1>2, <1>3 DEF RInv

\* What CONNECT does to the stream and to the offline queue.
LEMMA ConnectMoves ==
    ASSUME IInv, DInv, UInv, NEW h \in Conns, NEW o \in ConnectOptions, NEW broken \in BOOLEAN,
           ConnectSubscriber(h, o, broken)
    PROVE  /\ UNCHANGED <<unrouted, tasks, wire, received, routed>>
           /\ wire[h] = <<>> /\ draining[h] = <<>> /\ queue[h] = <<>>
           /\ \A g \in Conns \ {h} : transport'[g] = transport[g]
           /\ transport'[h] = "open" => ~broken
           /\ cid' = [cid EXCEPT ![h] = Subscriber]
           /\ \E s \in Conns :
                 /\ sessions'[Subscriber] = s
                 /\ s = h \/ s = sessions[Subscriber]
                 /\ IF broken THEN UNCHANGED <<draining, queue>> ELSE StartDrain(h, s)
<1>0. PICK s : s = IF Resumes(Subscriber, o) THEN sessions[Subscriber] ELSE h
    OBVIOUS
<1>1. /\ pc[h] = "first"
      /\ \E t \in IF broken THEN {"closed", "unread"} ELSE {"open"} :
               transport' = [transport EXCEPT ![h] = t]
      /\ cid' = [cid EXCEPT ![h] = Subscriber]
      /\ sessions' = [sessions EXCEPT ![Subscriber] = s]
      /\ UNCHANGED <<unrouted, tasks, wire, received, routed>>
      /\ IF broken THEN UNCHANGED <<draining, queue>> ELSE StartDrain(h, s)
    BY <1>0 DEF ConnectSubscriber, Connect, DrainNothing
<1>2. /\ s \in Conns /\ Subscriber \in Clients
      /\ sessions \in [Clients -> Conns \cup {None}]
      /\ transport \in [Conns -> {"open", "unread", "closed"}]
    BY <1>0, DeliveryAssumption DEF IInv, TypeOK, Resumes
<1>3. wire[h] = <<>> /\ draining[h] = <<>> /\ queue[h] = <<>>
    BY <1>1 DEF UInv, Started, DInv, DeliveryTypeOK
<1>4. /\ \A g \in Conns \ {h} : transport'[g] = transport[g]
      /\ transport'[h] = "open" => ~broken
    BY <1>1, <1>2
<1>5. sessions'[Subscriber] = s /\ (s = h \/ s = sessions[Subscriber])
    BY <1>0, <1>1, <1>2
<1> QED
    BY <1>1, <1>2, <1>3, <1>4, <1>5

\* The connection that ends its CONNACK has lost its stream.
LEMMA ConnackedMoves ==
    ASSUME IInv, UInv, NEW h \in Conns, ConnackedSubscriber(h)
    PROVE  /\ UNCHANGED <<unrouted, tasks, wire, received, routed, transport, sessions, cid>>
           /\ transport[h] # "open"
           /\ \/ UNCHANGED <<draining, queue>>
              \/ \E s \in Conns : sessions[Subscriber] = s /\ StartDrain(h, s)
<1>1. /\ pc[h] = "connack"
      /\ UNCHANGED <<unrouted, tasks, wire, received, routed, transport, sessions, cid>>
      /\ IF sessions[Subscriber] = None THEN UNCHANGED <<draining, queue>>
         ELSE StartDrain(h, sessions[Subscriber])
    BY DEF ConnackedSubscriber, Connacked, DrainNothing
<1>2. transport[h] # "open"
    BY <1>1 DEF UInv, OpenStreams
<1>3. sessions[Subscriber] \in Conns \cup {None}
    BY DeliveryAssumption DEF IInv, TypeOK
<1> QED
    BY <1>1, <1>2, <1>3

LEMMA InitRInv == DeliveryInit => RInv
<1> SUFFICES ASSUME DeliveryInit PROVE RInv
    OBVIOUS
<1>1. \A R : /\ Ordered(<<>>, R) /\ MsgsOrdered(<<>>, R) /\ CopiesOrdered(<<>>, R)
             /\ Members(<<>>) = {} /\ MsgsIn(<<>>) = {} /\ Sent(<<>>, TRUE) = {}
    BY EmptyIsOrdered
<1>2. Past = {}
    BY <1>1 DEF DeliveryInit, Past
<1>3. Recorded
    BY <1>1, <1>2 DEF DeliveryInit, Recorded, Distinct
<1>4. TasksLast /\ PlacesOrdered
    BY <1>1, <1>2 DEF DeliveryInit, TasksLast, PlacesOrdered, Before
<1> QED
    BY <1>3, <1>4 DEF RInv

LEMMA NextKeepsRInv ==
    IInv /\ DInv /\ UInv /\ RInv /\ [DeliveryNext]_<<vars, outbound>> => RInv'
<1> SUFFICES ASSUME IInv, DInv, UInv, RInv, [DeliveryNext]_<<vars, outbound>> PROVE RInv'
    OBVIOUS
<1>1. CASE UNCHANGED <<vars, outbound>>
    BY <1>1, NothingMovedKeepsRInv DEF vars, outbound
<1>2. ASSUME NEW h \in Conns, Lifecycle(h) PROVE RInv'
    <2>1. UNCHANGED outbound /\ Ends
        BY <1>2, LifecycleEnds DEF Lifecycle, UInv
    <2> QED
        BY <2>1, NothingMovedKeepsRInv DEF outbound, Ends
<1>3. ASSUME NEW h \in Conns, HandlePuback(h) PROVE RInv'
    <2>1. UNCHANGED <<unrouted, tasks, queue, draining, wire, received, routed>> /\ Ends
        BY <1>3, HandlePubackEnds DEF HandlePuback
    <2> QED
        BY <2>1, NothingMovedKeepsRInv DEF Ends
<1>4. ASSUME NEW h \in Conns, NEW o \in ConnectOptions, NEW broken \in BOOLEAN,
             ConnectSubscriber(h, o, broken)
      PROVE  RInv'
    <2>1. /\ UNCHANGED <<unrouted, tasks, wire, received, routed>>
          /\ wire[h] = <<>>
          /\ \A g \in Conns \ {h} : transport'[g] = transport[g]
          /\ \E s \in Conns : IF broken THEN UNCHANGED <<draining, queue>> ELSE StartDrain(h, s)
        BY <1>4, ConnectMoves
    <2>2. CASE UNCHANGED <<draining, queue>>
        <3>1. \A g \in Conns : transport'[g] = "open" => transport[g] = "open" \/ wire[g] = <<>>
            BY <2>1
        <3> QED
            BY <2>1, <2>2, <3>1, NothingMovedKeepsRInv
    <2>3. ASSUME NEW s \in Conns, StartDrain(h, s) PROVE RInv'
        BY <2>1, <2>3, DrainKeepsRInv
    <2> QED
        BY <2>1, <2>2, <2>3
<1>5. ASSUME NEW h \in Conns, ConnackedSubscriber(h) PROVE RInv'
    <2>1. /\ UNCHANGED <<unrouted, tasks, wire, received, routed, transport>>
          /\ transport[h] # "open"
          /\ \/ UNCHANGED <<draining, queue>>
             \/ \E s \in Conns : StartDrain(h, s)
        BY <1>5, ConnackedMoves
    <2>2. CASE UNCHANGED <<draining, queue>>
        BY <2>1, <2>2, NothingMovedKeepsRInv
    <2>3. ASSUME NEW s \in Conns, StartDrain(h, s) PROVE RInv'
        BY <2>1, <2>3, DrainKeepsRInv
    <2> QED
        BY <2>1, <2>2, <2>3
<1> QED
    BY <1>1, <1>2, <1>3, <1>4, <1>5, RouteKeepsRInv, DeliverKeepsRInv, ReplayKeepsRInv,
       ReceiveKeepsRInv
    DEF DeliveryNext

\* With takeovers: whatever is under way is in the order of route.
THEOREM OrderInvariance == DeliverySpec => []RInv
<1> QED
    BY InitRInv, NextKeepsRInv, DeliveryInvariance, UpInvariance, DeliveryIsOverConnections,
       Invariance, PTL
    DEF DeliverySpec

-----------------------------------------------------------------------------
(***************************************************************************)
(* Without overlapping connections of the client: the order in which it    *)
(* reads.                                                                  *)
(***************************************************************************)
\* All connections belong to the receiver.
OneClient == \A h \in Conns : cid[h] \in {None, Subscriber}

\* What was read comes before what an open connection can still bring, and
\* this before what waits in the queue of the session for the next one.
ReceivedFirst ==
    /\ CopiesOrdered(received, Precedes)
    /\ \A h \in Conns : transport[h] = "open" =>
          /\ Before(Sent(received, FALSE), Sent(wire[h], FALSE), Precedes)
          /\ Before(Sent(received, TRUE), Sent(wire[h], TRUE), Precedes)
          /\ Before(Sent(received, TRUE), Members(draining[h]), Precedes)

QueueLast ==
    \A s \in Conns : sessions[Subscriber] = s =>
        /\ Before(Sent(received, TRUE), Members(queue[s]), Precedes)
        /\ \A h \in Conns : transport[h] = "open" =>
              /\ Before(Sent(wire[h], TRUE), Members(queue[s]), Precedes)
              /\ Before(Members(draining[h]), Members(queue[s]), Precedes)

FInv ==
    /\ OneClient
    /\ ReceivedFirst
    /\ QueueLast

LEMMA RouteKeepsFInv ==
    ASSUME DInv, FInv, NEW m \in Messages, Route(m)
    PROVE  FInv'
<1>1. /\ routed' = Append(routed, m)
      /\ UNCHANGED <<queue, draining, wire, received, transport, sessions, cid>>
    BY DEF Route, vars
<1>2. PICK R, T : R = Precedes /\ T = Precedes'
    OBVIOUS
<1>3. R \subseteq T
    BY <1>1, <1>2, RouteExtends DEF DInv
<1>4. /\ \A q : CopiesOrdered(q, R) => CopiesOrdered(q, T)
      /\ \A A, B : Before(A, B, R) => Before(A, B, T)
    BY <1>3, OrderGrows
<1>5. OneClient'
    BY <1>1 DEF FInv, OneClient
<1>6. ReceivedFirst'
    BY <1>1, <1>2, <1>4 DEF FInv, ReceivedFirst
<1>7. QueueLast'
    BY <1>1, <1>2, <1>4 DEF FInv, QueueLast
<1> QED
    BY <1>5, <1>6, <1>7 DEF FInv

LEMMA DeliverKeepsFInv ==
    ASSUME IInv, DInv, RInv, FInv, Deliver
    PROVE  FInv'
<1>0. PICK h, m, s, R : /\ h = Head(tasks).handler /\ m = Head(tasks).msg
                        /\ s = sessions[Subscriber] /\ R = Precedes
    OBVIOUS
<1>1. /\ tasks # <<>>
      /\ \/ wire' = Written(h, m, FALSE) /\ queue' = queue
         \/ s # None /\ queue' = [queue EXCEPT ![s] = Append(@, m)] /\ wire' = wire
         \/ UNCHANGED <<queue, wire>>
      /\ UNCHANGED <<draining, received, routed, transport, sessions, cid>>
    BY <1>0 DEF Deliver, Accepts, vars
<1>2. /\ tasks \in Seq(Task) /\ DistinctMsgs(tasks)
      /\ queue \in [Conns -> Seq(Messages)] /\ DeliveryTypeOK
      /\ Before(Past, MsgsIn(tasks), R) /\ s \in Conns \cup {None}
    BY <1>0, DeliveryAssumption
    DEF IInv, TypeOK, DInv, DeliveryTypeOK, OnceInPlace, RInv, TasksLast
<1>3. Head(tasks) \in Task /\ m \in MsgsIn(tasks)
    BY <1>0, <1>1, <1>2, TailOfDistinctMsgs
<1>4. h \in Conns /\ m \in Messages
    BY <1>0, <1>3 DEF Task
<1>5. Precedes' = R
    BY <1>0, <1>1 DEF Precedes
<1>6. /\ \A r : Before(Sent(received, r), {m}, R)
      /\ \A g \in Conns : /\ \A r : Before(Sent(wire[g], r), {m}, R)
                          /\ Before(Members(draining[g]), {m}, R)
    <2>1. /\ MsgsIn(received) \subseteq Past
          /\ \A g \in Conns : MsgsIn(wire[g]) \cup Members(draining[g]) \subseteq Past
        BY <1>2, PlacesAreMessages DEF Past
    <2> QED
        BY <1>2, <1>3, <2>1, SentIsIn DEF Before
<1>7. /\ \A g \in Conns : Sent(wire'[g], TRUE) = Sent(wire[g], TRUE)
      /\ \A g \in Conns : Sent(wire'[g], FALSE) \subseteq Sent(wire[g], FALSE) \cup {m}
    <2>1. CASE wire' = wire
        BY <2>1
    <2>2. CASE wire' = Written(h, m, FALSE)
        <3>1. /\ \A g \in Conns \ {h} : wire'[g] = wire[g]
              /\ \A r : r # FALSE => Sent(wire'[h], r) = Sent(wire[h], r)
              /\ Sent(wire'[h], FALSE) \subseteq Sent(wire[h], FALSE) \cup {m}
            BY <1>2, <1>4, <2>2, WrittenCopy
        <3>2. Sent(wire'[h], TRUE) = Sent(wire[h], TRUE)
            BY <3>1
        <3> QED
            BY <3>1, <3>2
    <2> QED
        BY <1>1, <2>1, <2>2
<1>8. \A g \in Conns : Members(queue'[g]) \subseteq Members(queue[g]) \cup {m}
    <2>1. CASE queue' = queue
        BY <2>1
    <2>2. CASE s # None /\ queue' = [queue EXCEPT ![s] = Append(queue[s], m)]
        <3>1. s \in Conns /\ queue[s] \in Seq(Messages)
            BY <1>2, <2>2
        <3>2. queue'[s] = Append(queue[s], m) /\ \A g \in Conns \ {s} : queue'[g] = queue[g]
            BY <1>2, <2>2, <3>1
        <3>3. /\ Len(queue[s]) \in Nat /\ Len(Append(queue[s], m)) = Len(queue[s]) + 1
              /\ \A i \in 1..Len(queue[s]) : Append(queue[s], m)[i] = queue[s][i]
              /\ Append(queue[s], m)[Len(queue[s]) + 1] = m
            BY <1>4, <3>1
        <3>4. Members(Append(queue[s], m)) \subseteq Members(queue[s]) \cup {m}
            BY <3>3 DEF Members
        <3> QED
            BY <3>2, <3>4
    <2> QED
        BY <1>1, <2>1, <2>2
<1>9. OneClient'
    BY <1>1 DEF FInv, OneClient
<1>10. ReceivedFirst'
    <2> SUFFICES ASSUME NEW g \in Conns, transport[g] = "open"
                 PROVE  /\ Before(Sent(received, FALSE), Sent(wire'[g], FALSE), R)
                        /\ Before(Sent(received, TRUE), Sent(wire'[g], TRUE), R)
                        /\ Before(Sent(received, TRUE), Members(draining[g]), R)
        BY <1>0, <1>1, <1>5 DEF FInv, ReceivedFirst
    <2>1. /\ Before(Sent(received, FALSE), Sent(wire[g], FALSE), R)
          /\ Before(Sent(received, TRUE), Sent(wire[g], TRUE), R)
          /\ Before(Sent(received, TRUE), Members(draining[g]), R)
        BY <1>0 DEF FInv, ReceivedFirst
    <2> QED
        BY <1>6, <1>7, <2>1 DEF Before
<1>11. QueueLast'
    <2> SUFFICES ASSUME NEW t \in Conns, sessions[Subscriber] = t
                 PROVE  /\ Before(Sent(received, TRUE), Members(queue'[t]), R)
                        /\ \A g \in Conns : transport[g] = "open" =>
                              /\ Before(Sent(wire'[g], TRUE), Members(queue'[t]), R)
                              /\ Before(Members(draining[g]), Members(queue'[t]), R)
        BY <1>1, <1>5 DEF QueueLast
    <2>1. /\ Before(Sent(received, TRUE), Members(queue[t]), R)
          /\ \A g \in Conns : transport[g] = "open" =>
                /\ Before(Sent(wire[g], TRUE), Members(queue[t]), R)
                /\ Before(Members(draining[g]), Members(queue[t]), R)
        BY <1>0 DEF FInv, QueueLast
    <2> QED
        BY <1>6, <1>7, <1>8, <2>1 DEF Before
<1> QED
    BY <1>9, <1>10, <1>11 DEF FInv

LEMMA ReplayKeepsFInv ==
    ASSUME IInv, DInv, FInv, NEW h \in Conns, Replay(h)
    PROVE  FInv'
<1>0. PICK m, R : m = Head(draining[h]) /\ R = Precedes
    OBVIOUS
<1>1. /\ draining[h] # <<>>
      /\ draining' = [draining EXCEPT ![h] = Tail(@)]
      /\ wire' = Written(h, m, TRUE)
      /\ UNCHANGED <<queue, received, routed, transport, sessions, cid>>
    BY <1>0 DEF Replay, vars
<1>2. /\ draining \in [Conns -> Seq(Messages)] /\ Distinct(draining[h])
      /\ DeliveryTypeOK
    BY DEF DInv, DeliveryTypeOK, OnceInPlace
<1>3. /\ m \in Messages /\ m \in Members(draining[h])
      /\ \A g \in Conns : Members(draining'[g]) \subseteq Members(draining[g])
    BY <1>0, <1>1, <1>2, TailOfDistinct
<1>4. /\ \A g \in Conns \ {h} : wire'[g] = wire[g]
      /\ \A r : r # TRUE => Sent(wire'[h], r) = Sent(wire[h], r)
      /\ Sent(wire'[h], TRUE) \subseteq Sent(wire[h], TRUE) \cup {m}
    BY <1>1, <1>2, <1>3, WrittenCopy
<1>5. \A g \in Conns :
          /\ Sent(wire'[g], FALSE) = Sent(wire[g], FALSE)
          /\ Sent(wire'[g], TRUE) \subseteq Sent(wire[g], TRUE) \cup Members(draining[g])
    <2> TAKE g \in Conns
    <2>1. Sent(wire'[h], FALSE) = Sent(wire[h], FALSE)
        BY <1>4
    <2> QED
        BY <1>3, <1>4, <2>1
<1>6. Precedes' = R
    BY <1>0, <1>1 DEF Precedes
<1>7. OneClient'
    BY <1>1 DEF FInv, OneClient
<1>8. ReceivedFirst'
    BY <1>0, <1>1, <1>3, <1>5, <1>6 DEF FInv, ReceivedFirst, Before
<1>9. QueueLast'
    BY <1>0, <1>1, <1>3, <1>5, <1>6 DEF FInv, QueueLast, Before
<1> QED
    BY <1>7, <1>8, <1>9 DEF FInv

\* The only open connection of the client brings the next message.
LEMMA ReceiveKeepsFInv ==
    ASSUME IInv, SInv, DInv, UInv, RInv, FInv, NEW h \in Conns, Receive(h)
    PROVE  FInv'
<1>0. PICK e, m, R : e = Head(wire[h]) /\ m = e.msg /\ R = Precedes
    OBVIOUS
<1>1. /\ wire[h] # <<>> /\ transport[h] = "open"
      /\ wire' = [wire EXCEPT ![h] = Tail(@)]
      /\ received' = Append(received, e)
      /\ UNCHANGED <<queue, draining, routed, transport, sessions, cid, pc>>
    BY <1>0 DEF Receive, vars
<1>2. /\ wire \in [Conns -> Seq(Copy)] /\ received \in Seq(Copy)
      /\ CopiesOrdered(wire[h], R) /\ CopiesOrdered(received, R)
      /\ Before(Sent(wire[h], TRUE), Members(draining[h]), R)
    BY <1>0, <1>1 DEF DInv, DeliveryTypeOK, RInv, PlacesOrdered, FInv, ReceivedFirst
<1>3. /\ e \in Copy
      /\ wire'[h] = Tail(wire[h]) /\ \A g \in Conns \ {h} : wire'[g] = wire[g]
      /\ Before({m}, Sent(wire'[h], e.replay), R)
      /\ m \in Sent(wire[h], e.replay)
      /\ \A r : Sent(wire'[h], r) \subseteq Sent(wire[h], r)
    <2>1. wire'[h] = Tail(wire[h]) /\ \A g \in Conns \ {h} : wire'[g] = wire[g]
        BY <1>1, <1>2
    <2>2. e \in Copy /\ wire[h] \in Seq(Copy)
        BY <1>0, <1>1, <1>2
    <2> QED
        BY <1>0, <1>1, <1>2, <2>1, <2>2, TailCopiesOrdered
<1>4. e.replay \in BOOLEAN
    BY <1>3 DEF Copy
<1>5. /\ \A r : r # e.replay => Sent(received', r) = Sent(received, r)
      /\ Sent(received', e.replay) = Sent(received, e.replay) \cup {m}
    BY <1>0, <1>1, <1>2, <1>3, AppendSent
<1>6. Precedes' = R
    BY <1>0, <1>1 DEF Precedes
<1>7. ASSUME NEW g \in Conns, g # h, transport[g] = "open"
      PROVE  wire[g] = <<>> /\ draining[g] = <<>>
    <2>1. pc[h] = "loop" /\ cid[h] = Subscriber
        <3>1. pc[h] = "loop"
            BY <1>1 DEF UInv, OpenStreams, Started
        <3> QED
            BY <3>1 DEF IInv, TypeOK, FInv, OneClient
    <2>2. pc[g] # "loop"
        <3>1. pc[g] = "loop" => cid[g] = Subscriber
            BY DEF IInv, TypeOK, FInv, OneClient
        <3>2. Subscriber # None
            BY DeliveryAssumption, ConstantsAssumption
        <3> QED
            BY <1>7, <2>1, <3>1, <3>2 DEF SInv, Alone
    <2>3. pc[g] \in {"new", "first"}
        BY <1>7, <2>2 DEF UInv, OpenStreams
    <2> QED
        BY <2>3 DEF UInv, Started, DInv, DeliveryTypeOK
<1>8. OneClient'
    BY <1>1 DEF FInv, OneClient
<1>9. Before(Sent(received, e.replay), {m}, R)
    <2>1. /\ Before(Sent(received, FALSE), Sent(wire[h], FALSE), R)
          /\ Before(Sent(received, TRUE), Sent(wire[h], TRUE), R)
        BY <1>0, <1>1 DEF FInv, ReceivedFirst
    <2>2. Before(Sent(received, e.replay), Sent(wire[h], e.replay), R)
        BY <1>4, <2>1
    <2> QED
        BY <1>3, <2>2 DEF Before
<1>10. CopiesOrdered(received', R)
    BY <1>0, <1>1, <1>2, <1>3, <1>9, AppendCopiesOrdered
<1>11. ReceivedFirst'
    <2> SUFFICES ASSUME NEW g \in Conns, transport[g] = "open"
                 PROVE  /\ Before(Sent(received', FALSE), Sent(wire'[g], FALSE), R)
                        /\ Before(Sent(received', TRUE), Sent(wire'[g], TRUE), R)
                        /\ Before(Sent(received', TRUE), Members(draining[g]), R)
        BY <1>1, <1>6, <1>10 DEF ReceivedFirst
    <2>1. CASE g # h
        <3>1. wire'[g] = <<>> /\ draining[g] = <<>>
            BY <1>3, <1>7, <2>1
        <3> QED
            BY <3>1, EmptyIsOrdered DEF Before
    <2>2. CASE g = h
        <3>1. /\ Before(Sent(received, FALSE), Sent(wire[h], FALSE), R)
              /\ Before(Sent(received, TRUE), Sent(wire[h], TRUE), R)
              /\ Before(Sent(received, TRUE), Members(draining[h]), R)
            BY <1>0, <1>1 DEF FInv, ReceivedFirst
        <3>2. CASE e.replay = TRUE
            <4>1. Sent(received', FALSE) = Sent(received, FALSE)
                BY <1>5, <3>2
            <4>2. Sent(received', TRUE) = Sent(received, TRUE) \cup {m}
                BY <1>5, <3>2
            <4>3. Before({m}, Sent(wire'[h], TRUE), R) /\ m \in Sent(wire[h], TRUE)
                BY <1>3, <3>2
            <4> QED
                BY <1>2, <1>3, <2>2, <3>1, <4>1, <4>2, <4>3 DEF Before
        <3>3. CASE e.replay = FALSE
            <4>1. Sent(received', TRUE) = Sent(received, TRUE)
                BY <1>5, <3>3
            <4>2. Sent(received', FALSE) = Sent(received, FALSE) \cup {m}
                BY <1>5, <3>3
            <4>3. Before({m}, Sent(wire'[h], FALSE), R)
                BY <1>3, <3>3
            <4> QED
                BY <1>3, <2>2, <3>1, <4>1, <4>2, <4>3 DEF Before
        <3> QED
            BY <1>4, <3>2, <3>3
    <2> QED
        BY <2>1, <2>2
<1>12. QueueLast'
    <2> SUFFICES ASSUME NEW t \in Conns, sessions[Subscriber] = t
                 PROVE  /\ Before(Sent(received', TRUE), Members(queue[t]), R)
                        /\ \A g \in Conns : transport[g] = "open" =>
                              /\ Before(Sent(wire'[g], TRUE), Members(queue[t]), R)
                              /\ Before(Members(draining[g]), Members(queue[t]), R)
        BY <1>1, <1>6 DEF QueueLast
    <2>1. /\ Before(Sent(received, TRUE), Members(queue[t]), R)
          /\ \A g \in Conns : transport[g] = "open" =>
                /\ Before(Sent(wire[g], TRUE), Members(queue[t]), R)
                /\ Before(Members(draining[g]), Members(queue[t]), R)
        BY <1>0 DEF FInv, QueueLast
    <2>2. Sent(received', TRUE) \subseteq Sent(received, TRUE) \cup Sent(wire[h], TRUE)
        BY <1>3, <1>4, <1>5
    <2>3. \A g \in Conns : Sent(wire'[g], TRUE) \subseteq Sent(wire[g], TRUE)
        BY <1>3
    <2> QED
        BY <1>1, <2>1, <2>2, <2>3 DEF Before
<1> QED
    BY <1>8, <1>11, <1>12 DEF FInv

\* A step that leaves the messages alone, opens no stream with a message and
\* changes the session to none or to one without a queue.
LEMMA NothingMovedKeepsFInv ==
    ASSUME FInv, OneClient', UNCHANGED <<queue, draining, wire, received, routed>>,
           \A g \in Conns : transport'[g] = "open" =>
               transport[g] = "open" \/ (wire[g] = <<>> /\ draining[g] = <<>>),
           \A s \in Conns : sessions'[Subscriber] = s =>
               sessions[Subscriber] = s \/ queue[s] = <<>>
    PROVE  FInv'
<1>1. Precedes' = Precedes
    BY DEF Precedes
<1>2. Members(<<>>) = {} /\ Sent(<<>>, TRUE) = {} /\ Sent(<<>>, FALSE) = {}
    BY EmptyIsOrdered
<1>3. ReceivedFirst'
    BY <1>1, <1>2 DEF FInv, ReceivedFirst, Before
<1>4. QueueLast'
    BY <1>1, <1>2 DEF FInv, QueueLast, Before
<1> QED
    BY <1>3, <1>4 DEF FInv

\* The queue of the session becomes the replay of a connection that has sent
\* nothing or has lost its stream.
LEMMA DrainKeepsFInv ==
    ASSUME DInv, FInv, OneClient', NEW h \in Conns, NEW s \in Conns, StartDrain(h, s),
           sessions'[Subscriber] = s,
           sessions[Subscriber] = s \/ queue[s] = <<>>,
           transport'[h] = "open" => wire[h] = <<>>,
           \A g \in Conns \ {h} : transport'[g] = transport[g],
           UNCHANGED <<wire, received, routed>>
    PROVE  FInv'
<1>0. PICK R : R = Precedes
    OBVIOUS
<1>1. /\ draining' = [draining EXCEPT ![h] = queue[s]]
      /\ queue' = [queue EXCEPT ![s] = <<>>]
    BY DEF StartDrain, Drained, QueueDrained
<1>2. queue \in [Conns -> Seq(Messages)] /\ draining \in [Conns -> Seq(Messages)]
    BY DEF DInv, DeliveryTypeOK
<1>3. /\ draining'[h] = queue[s] /\ \A g \in Conns \ {h} : draining'[g] = draining[g]
      /\ queue'[s] = <<>>
    BY <1>1, <1>2
<1>4. Precedes' = R
    BY <1>0 DEF Precedes
<1>5. Members(<<>>) = {} /\ Sent(<<>>, TRUE) = {} /\ Sent(<<>>, FALSE) = {}
    BY EmptyIsOrdered
<1>6. Before(Sent(received, TRUE), Members(queue[s]), R)
    BY <1>0, <1>5 DEF FInv, QueueLast, Before
<1>7. ReceivedFirst'
    <2> SUFFICES ASSUME NEW g \in Conns, transport'[g] = "open"
                 PROVE  /\ Before(Sent(received, FALSE), Sent(wire[g], FALSE), R)
                        /\ Before(Sent(received, TRUE), Sent(wire[g], TRUE), R)
                        /\ Before(Sent(received, TRUE), Members(draining'[g]), R)
        BY <1>0, <1>4 DEF FInv, ReceivedFirst
    <2>1. CASE g = h
        BY <1>3, <1>5, <1>6, <2>1 DEF Before
    <2>2. CASE g # h
        BY <1>0, <1>3, <2>2 DEF FInv, ReceivedFirst
    <2> QED
        BY <2>1, <2>2
<1>8. QueueLast'
    BY <1>3, <1>5 DEF QueueLast, Before
<1> QED
    BY <1>7, <1>8 DEF FInv

LEMMA InitFInv == DeliveryInit => FInv
<1> SUFFICES ASSUME DeliveryInit PROVE FInv
    OBVIOUS
<1>1. \A R : /\ CopiesOrdered(<<>>, R) /\ Members(<<>>) = {}
             /\ Sent(<<>>, TRUE) = {} /\ Sent(<<>>, FALSE) = {}
    BY EmptyIsOrdered
<1>2. OneClient
    BY DEF DeliveryInit, Init, OneClient
<1>3. ReceivedFirst /\ QueueLast
    BY <1>1 DEF DeliveryInit, ReceivedFirst, QueueLast, Before
<1> QED
    BY <1>2, <1>3 DEF FInv

LEMMA NextKeepsFInv ==
    /\ IInv /\ SInv /\ DInv /\ UInv /\ RInv /\ FInv
    /\ [DeliveryNext]_<<vars, outbound>>
    => FInv'
<1> SUFFICES ASSUME IInv, SInv, DInv, UInv, RInv, FInv, [DeliveryNext]_<<vars, outbound>>
             PROVE  FInv'
    OBVIOUS
<1>1. CASE UNCHANGED <<vars, outbound>>
    <2>1. OneClient'
        BY <1>1 DEF vars, FInv, OneClient
    <2> QED
        BY <1>1, <2>1, NothingMovedKeepsFInv DEF vars, outbound
<1>2. ASSUME UNCHANGED <<queue, draining, wire, received, routed>>, Ends PROVE FInv'
    <2>1. OneClient'
        BY <1>2 DEF Ends, FInv, OneClient
    <2>2. \A s \in Conns : sessions'[Subscriber] = s => sessions[Subscriber] = s
        BY <1>2, ConstantsAssumption DEF Ends
    <2>3. \A g \in Conns : transport'[g] = "open" => transport[g] = "open"
        BY <1>2 DEF Ends
    <2> QED
        BY <1>2, <2>1, <2>2, <2>3, NothingMovedKeepsFInv
<1>3. ASSUME NEW h \in Conns, Lifecycle(h) PROVE FInv'
    <2>1. UNCHANGED outbound /\ Ends
        BY <1>3, LifecycleEnds DEF Lifecycle, UInv
    <2> QED
        BY <1>2, <2>1 DEF outbound
<1>4. ASSUME NEW h \in Conns, HandlePuback(h) PROVE FInv'
    <2>1. UNCHANGED <<queue, draining, wire, received, routed>> /\ Ends
        BY <1>4, HandlePubackEnds DEF HandlePuback
    <2> QED
        BY <1>2, <2>1
<1>5. ASSUME NEW h \in Conns, NEW o \in ConnectOptions, NEW broken \in BOOLEAN,
             ConnectSubscriber(h, o, broken)
      PROVE  FInv'
    <2>1. /\ UNCHANGED <<wire, received, routed>>
          /\ wire[h] = <<>> /\ draining[h] = <<>> /\ queue[h] = <<>>
          /\ \A g \in Conns \ {h} : transport'[g] = transport[g]
          /\ cid' = [cid EXCEPT ![h] = Subscriber]
        BY <1>5, ConnectMoves
    <2>2. OneClient'
        BY <2>1 DEF FInv, OneClient, IInv, TypeOK
    <2>3. PICK s \in Conns : /\ sessions'[Subscriber] = s
                             /\ s = h \/ s = sessions[Subscriber]
                             /\ IF broken THEN UNCHANGED <<draining, queue>> ELSE StartDrain(h, s)
        BY <1>5, ConnectMoves
    <2>4. CASE broken
        <3>1. \A g \in Conns : transport'[g] = "open" =>
                  transport[g] = "open" \/ (wire[g] = <<>> /\ draining[g] = <<>>)
            BY <2>1
        <3>2. \A t \in Conns : sessions'[Subscriber] = t =>
                  sessions[Subscriber] = t \/ queue[t] = <<>>
            BY <2>1, <2>3
        <3> QED
            BY <2>1, <2>2, <2>3, <2>4, <3>1, <3>2, NothingMovedKeepsFInv
    <2>5. CASE ~broken
        <3>1. sessions[Subscriber] = s \/ queue[s] = <<>>
            BY <2>1, <2>3
        <3> QED
            BY <2>1, <2>2, <2>3, <2>5, <3>1, DrainKeepsFInv
    <2> QED
        BY <2>4, <2>5
<1>6. ASSUME NEW h \in Conns, ConnackedSubscriber(h) PROVE FInv'
    <2>1. /\ UNCHANGED <<wire, received, routed, transport, sessions, cid>>
          /\ transport[h] # "open"
          /\ \/ UNCHANGED <<draining, queue>>
             \/ \E s \in Conns : sessions[Subscriber] = s /\ StartDrain(h, s)
        BY <1>6, ConnackedMoves
    <2>2. OneClient'
        BY <2>1 DEF FInv, OneClient
    <2>3. CASE UNCHANGED <<draining, queue>>
        BY <2>1, <2>2, <2>3, NothingMovedKeepsFInv
    <2>4. ASSUME NEW s \in Conns, sessions[Subscriber] = s, StartDrain(h, s) PROVE FInv'
        BY <2>1, <2>2, <2>4, DrainKeepsFInv
    <2> QED
        BY <2>1, <2>3, <2>4
<1> QED
    BY <1>1, <1>3, <1>4, <1>5, <1>6, RouteKeepsFInv, DeliverKeepsFInv, ReplayKeepsFInv,
       ReceiveKeepsFInv
    DEF DeliveryNext

\* The invariant holds when the client never connects before its last
\* connection is over.
THEOREM ReadingInvariance == ASSUME ~Overlap PROVE DeliverySpec => []FInv
<1> QED
    BY InitFInv, NextKeepsFInv, DeliveryInvariance, UpInvariance, OrderInvariance,
       DeliveryIsOverConnections, Invariance, SequentialInvariance, PTL
    DEF DeliverySpec

\* The client reads live messages in the order of route, and so the replayed
\* ones, across its connections and whatever is lost with them.
THEOREM MessagesArriveInOrder == ASSUME ~Overlap PROVE DeliverySpec => []ReceivedInOrder
<1>1. DInv /\ RInv /\ FInv => ReceivedInOrder
    <2> SUFFICES ASSUME DInv, RInv, FInv,
                        NEW i \in 1..Len(received), NEW j \in 1..Len(received),
                        i < j, received[i].replay = received[j].replay
                 PROVE  (CHOOSE k \in 1..Len(routed) : routed[k] = received[i].msg)
                        < (CHOOSE k \in 1..Len(routed) : routed[k] = received[j].msg)
        BY DEF ReceivedInOrder
    <2>1. <<received[i].msg, received[j].msg>> \in Precedes
        BY DEF FInv, ReceivedFirst, CopiesOrdered
    <2>2. PICK a \in 1..Len(routed), b \in 1..Len(routed) :
              a < b /\ routed[a] = received[i].msg /\ routed[b] = received[j].msg
        BY <2>1 DEF Precedes
    <2>3. \A k \in 1..Len(routed) : /\ routed[k] = received[i].msg <=> k = a
                                    /\ routed[k] = received[j].msg <=> k = b
        BY <2>2 DEF RInv, Recorded, Distinct
    <2>4. (CHOOSE k \in 1..Len(routed) : routed[k] = received[i].msg) = a
        BY <2>2, <2>3
    <2>5. (CHOOSE k \in 1..Len(routed) : routed[k] = received[j].msg) = b
        BY <2>2, <2>3
    <2> QED
        BY <2>2, <2>4, <2>5
<1> QED
    BY <1>1, DeliveryInvariance, OrderInvariance, ReadingInvariance, PTL

=============================================================================
