------------------------------ MODULE Delivery ------------------------------
(***************************************************************************)
(* How a message leaves the broker: route, the deliver tasks it creates,   *)
(* the offline queue of a persistent session and its replay, and the QoS 1 *)
(* messages in flight, over the connections of BrokerSessions.             *)
(*                                                                         *)
(* The messages go to one client with one filter.  Each is published once  *)
(* and has an effective QoS of 1.  asyncio starts created tasks in the     *)
(* order of their creation, and its locks are fair: packets of a handler   *)
(* are written in the order their sends began.                             *)
(***************************************************************************)
EXTENDS BrokerSessions, SequencesExt

CONSTANTS Messages,
          Subscriber,  \* the client identifier of the receiver
          TheFilter,   \* the filter that the messages match
          MaxQueue     \* the limit of enqueue_offline

\* Of a message that came while its subscriber was away.
Offline == "offline"

ASSUME DeliveryAssumption ==
    /\ Subscriber \in Clients
    /\ TheFilter \in Filters
    /\ MaxQueue \in Nat
    /\ Offline \notin Conns

VARIABLES
    unrouted,  \* the messages that were not published yet
    tasks,     \* deliver tasks created and not started
    queue,     \* offline_queue of each session object
    inflight,  \* inflight_qos1 of each session object
    draining,  \* what run has still to send of the queue it drained
    wire,      \* written to a connection and not read by the client
    pubacks,   \* PUBACKs written by the client and not read
    received,  \* history: what the client read, in order
    routed,    \* history: the messages in the order of route
    taken      \* history: the handler a message was routed to, or Offline

outbound == <<unrouted, tasks, queue, inflight, draining, wire, pubacks,
              received, routed, taken>>

\* A message as it is sent: live, or replayed from the queue.
Copy == [msg: Messages, replay: BOOLEAN]

Task == [handler: Conns, msg: Messages]

DeliveryInit ==
    /\ Init
    /\ unrouted = Messages
    /\ tasks = <<>>
    /\ queue = [s \in Conns |-> <<>>]
    /\ inflight = [s \in Conns |-> {}]
    /\ draining = [h \in Conns |-> <<>>]
    /\ wire = [h \in Conns |-> <<>>]
    /\ pubacks = [h \in Conns |-> <<>>]
    /\ received = <<>>
    /\ routed = <<>>
    /\ taken = [m \in Messages |-> None]

-----------------------------------------------------------------------------
\* route: a task for the registered handler of the client, if there is one.
Route(m) ==
    LET h == clients[Subscriber]
        goes == TheFilter \in subs[Subscriber] /\ h # None
        s == sessions[Subscriber]
        awaited == /\ h = None /\ s # None
                   /\ ~object[s].clean /\ TheFilter \in object[s].subs
    IN  /\ m \in unrouted
        /\ unrouted' = unrouted \ {m}
        /\ routed' = Append(routed, m)
        /\ tasks' = IF goes THEN Append(tasks, [handler |-> h, msg |-> m]) ELSE tasks
        /\ taken' = [taken EXCEPT ![m] =
               CASE goes -> h [] awaited -> Offline [] OTHER -> None]
        /\ UNCHANGED <<vars, queue, inflight, draining, wire, pubacks, received>>

\* Fault: a message is queued for a session that is connected.
AcceptsConnected(s) ==
    s # None /\ ~object[s].clean /\ Len(queue[s]) < MaxQueue

\* enqueue_offline accepts a message for the stored session s.
Accepts(s) ==
    /\ s # None
    /\ ~object[s].connected /\ ~object[s].clean
    /\ Len(queue[s]) < MaxQueue

\* What is written to an open stream can reach the client.  A send that fails
\* clears connected as well: that is SendFails, at any time.
Written(h, m, replay) ==
    IF transport[h] = "open"
    THEN [wire EXCEPT ![h] = Append(@, [msg |-> m, replay |-> replay])]
    ELSE wire

\* Fault: nothing is sent live while the queue is replayed.
ReadyIfDrained(h) == connected[h] /\ draining[h] = <<>>

\* The test deliver makes.
Ready(h) == connected[h]

\* The first deliver task starts: to the client or to the offline queue.
Deliver ==
    LET h == Head(tasks).handler
        m == Head(tasks).msg
        s == sessions[Subscriber]
    IN  /\ tasks # <<>>
        /\ tasks' = Tail(tasks)
        /\ IF Ready(h)
           THEN /\ inflight' = [inflight EXCEPT ![mine[h]] = @ \cup {m}]
                /\ wire' = Written(h, m, FALSE)
                /\ UNCHANGED queue
           ELSE /\ queue' = IF ~object[mine[h]].clean /\ Accepts(s)
                            THEN [queue EXCEPT ![s] = Append(@, m)]
                            ELSE queue
                /\ UNCHANGED <<inflight, wire>>
        /\ UNCHANGED <<vars, unrouted, draining, pubacks, received, routed, taken>>

\* Fault: drain_offline leaves the queue as it is.
QueueKept(s) == queue

\* The queues after drain_offline.
QueueDrained(s) == [queue EXCEPT ![s] = <<>>]

\* Fault: the newest message is replayed first.
NewestFirst(s) == Reverse(queue[s])

\* What drain_offline returns for the stored session s.
Drained(s) == queue[s]

\* run takes the offline queue; the sends follow, and each may suspend.
StartDrain(h, s) ==
    /\ draining' = [draining EXCEPT ![h] = Drained(s)]
    /\ queue' = QueueDrained(s)

DrainNothing == UNCHANGED <<draining, queue>>

\* The next replayed message; a failed send does not stop the replay.
Replay(h) ==
    /\ draining[h] # <<>>
    /\ draining' = [draining EXCEPT ![h] = Tail(@)]
    /\ wire' = Written(h, Head(draining[h]), TRUE)
    /\ UNCHANGED <<vars, unrouted, tasks, queue, inflight, pubacks, received,
                   routed, taken>>

\* Fault: the replay is a task of its own, beside the loop.
ReadsWhileReplaying(h) == CanRead(h)

\* The handler is in its loop and reads packets.
Reading(h) == CanRead(h) /\ draining[h] = <<>>

\* _handle_puback; a replayed message has no entry in inflight_qos1.
HandlePuback(h) ==
    /\ Reading(h)
    /\ pubacks[h] # <<>>
    /\ pubacks' = [pubacks EXCEPT ![h] = Tail(@)]
    /\ inflight' = [inflight EXCEPT ![mine[h]] = @ \ {Head(pubacks[h])}]
    /\ Continue(h, subs, object)
    /\ UNCHANGED <<cid, mine, kick, willsSent, brought>>
    /\ UNCHANGED <<unrouted, tasks, queue, draining, wire, received, routed, taken>>

\* The client reads a message and acknowledges it.
Receive(h) ==
    /\ transport[h] = "open"
    /\ wire[h] # <<>>
    /\ wire' = [wire EXCEPT ![h] = Tail(@)]
    /\ received' = Append(received, Head(wire[h]))
    /\ pubacks' = [pubacks EXCEPT ![h] = Append(@, Head(wire[h]).msg)]
    /\ UNCHANGED <<vars, unrouted, tasks, queue, inflight, draining, routed, taken>>

-----------------------------------------------------------------------------
\* A CONNACK that does not suspend is followed by the replay at once.
ConnectSubscriber(h, o, broken) ==
    /\ Connect(h, Subscriber, o, broken)
    /\ IF broken THEN DrainNothing
       ELSE StartDrain(h, IF Resumes(Subscriber, o) THEN sessions[Subscriber] ELSE h)
    /\ UNCHANGED <<unrouted, tasks, inflight, wire, pubacks, received, routed, taken>>

ConnackedSubscriber(h) ==
    /\ Connacked(h)
    /\ IF sessions[Subscriber] = None THEN DrainNothing
       ELSE StartDrain(h, sessions[Subscriber])
    /\ UNCHANGED <<unrouted, tasks, inflight, wire, pubacks, received, routed, taken>>

\* The other steps of the connections; packets are read in order.
Lifecycle(h) ==
    /\ \/ Accept(h)
       \/ Reject(h)
       \/ Reading(h) /\ pubacks[h] = <<>> /\ Subscribe(h, TheFilter, FALSE)
       \/ Reading(h) /\ pubacks[h] = <<>> /\ Unsubscribe(h, TheFilter)
       \/ Reading(h) /\ pubacks[h] = <<>> /\ Disconnect(h, TRUE)
       \/ DisconnectClosed(h)
       \/ draining[h] = <<>> /\ LeaveLoop(h)
       \/ SendFails(h)
       \/ KickTask(h)
       \/ Closed(h)
    /\ UNCHANGED outbound

DeliveryNext ==
    \/ \E m \in Messages : Route(m)
    \/ Deliver
    \/ \E h \in Conns :
          \/ Replay(h)
          \/ HandlePuback(h)
          \/ Receive(h)
          \/ \E o \in ConnectOptions, broken \in BOOLEAN :
                ~o.will /\ ConnectSubscriber(h, o, broken)
          \/ ConnackedSubscriber(h)
          \/ Lifecycle(h)

DeliverySpec == DeliveryInit /\ [][DeliveryNext]_<<vars, outbound>>

-----------------------------------------------------------------------------
\* Types; only a handler in its loop replays.
DeliveryTypeOK ==
    /\ unrouted \subseteq Messages
    /\ tasks \in Seq(Task)
    /\ queue \in [Conns -> Seq(Messages)]
    /\ \A s \in Conns : Len(queue[s]) <= MaxQueue
    /\ inflight \in [Conns -> SUBSET Messages]
    /\ draining \in [Conns -> Seq(Messages)]
    /\ \A h \in Conns : draining[h] # <<>> => pc[h] = "loop"
    /\ wire \in [Conns -> Seq(Copy)]
    /\ pubacks \in [Conns -> Seq(Messages)]
    /\ received \in Seq(Copy)
    /\ routed \in Seq(Messages)
    /\ taken \in [Messages -> Conns \cup {None, Offline}]

\* However often the client comes back, no message reaches it twice: a message
\* is in one place only, be it a task, a queue, a replay or the wire.
ReceivedAtMostOnce ==
    \A i, j \in 1..Len(received) :
        i # j => received[i].msg # received[j].msg

\* Messages that were sent live arrive in the order they were routed, and so
\* do the replayed ones among themselves, across connections.
ReceivedInOrder ==
    LET place(i) == CHOOSE k \in 1..Len(routed) : routed[k] = received[i].msg
    IN  \A i, j \in 1..Len(received) :
            i < j /\ received[i].replay = received[j].replay => place(i) < place(j)

\* Once the CONNACK is out, no message waits in the queue of a session whose
\* client is connected: nothing would send it before the next connection.
NothingStranded ==
    \A h \in Conns :
        clients[Subscriber] = h /\ pc[h] = "loop" => queue[sessions[Subscriber]] = <<>>

\* As long as a connection stays up every message routed to it arrives: when
\* there is nothing left to start, to replay or to read, the client has it.
DeliveredWhileUp ==
    \A h \in Conns, m \in Messages :
        /\ taken[m] = h
        /\ connected[h] /\ transport[h] = "open"
        /\ tasks = <<>> /\ draining[h] = <<>> /\ wire[h] = <<>>
        => \E i \in 1..Len(received) : received[i].msg = m

(***************************************************************************)
(* What the documents say, and the code does not do.                       *)
(***************************************************************************)

\* "Offline message queue", "Persistent sessions": a message for a client that
\* is away, and whose persistent session subscribes to it, is not lost.
QueuedWhileOffline ==
    \A m \in Messages :
        taken[m] = Offline =>
            \/ \E s \in Conns : m \in ToSet(queue[s]) \cup ToSet(draining[s])
            \/ \E h \in Conns, replay \in BOOLEAN :
                  [msg |-> m, replay |-> replay] \in ToSet(wire[h]) \cup ToSet(received)

=============================================================================
