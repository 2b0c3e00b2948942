--------------------------- MODULE BrokerProcess ---------------------------
(***************************************************************************)
(* The process around the handlers: listening and the connection limit     *)
(* (_client_connected), the forwarding of messages through a pool of       *)
(* threads (forward and the forwarders), and start and shutdown (_run).    *)
(*                                                                         *)
(* The loop, the threads of the pool and the threads of the outbound MQTT  *)
(* clients interleave freely.  Messages are numbered as they are passed to *)
(* forward().  Patient says whether a server that is cancelled waits for   *)
(* its connections, as asyncio does from Python 3.12 on.                   *)
(***************************************************************************)
EXTENDS Integers, Sequences, FiniteSets

CONSTANTS Conns,           \* TCP connections
          MaxConnections,  \* limits.max_connections
          Forwarders,      \* the configured ones, a sequence
          Mqtt,            \* those of type mqtt; the others are http and udp
          Workers,         \* limits.forwarder_threads
          MaxMessages,     \* a bound of the model
          Patient

ASSUME ProcessAssumption ==
    /\ IsFiniteSet(Conns)
    /\ MaxConnections \in Nat
    /\ Workers \in Nat \ {0} /\ MaxMessages \in Nat
    /\ Forwarders \in Seq(STRING)
    /\ \A i, j \in DOMAIN Forwarders : Forwarders[i] = Forwarders[j] => i = j
    /\ Patient \in BOOLEAN

ForwarderSet == {Forwarders[i] : i \in DOMAIN Forwarders}
Jobs == (1..MaxMessages) \X ForwarderSet

VARIABLES
    handler,   \* the _client_connected task of each connection
    attached,  \* connections whose transport is not lost
    count,     \* _connection_count
    tasks,     \* forward() tasks that have not started, by message
    jobs,      \* the queue of the pool
    sending,   \* jobs the threads are at
    checked,   \* those of them that found the flag _connected set
    link,      \* the flag _connected of each MQTT forwarder
    phase,     \* where _run and the process are
    listening,
    stop,      \* the stop event
    messages,  \* history: how many were passed to forward()
    submitted, \* history: jobs that were queued
    done       \* history: jobs that ended, with the outcome

net == <<handler, attached, count>>
pool == <<jobs, sending, checked, done>>
main == <<phase, listening, stop>>
vars == <<net, tasks, pool, link, main, messages, submitted>>

Init ==
    /\ handler = [c \in Conns |-> "none"]
    /\ attached = {}
    /\ count = 0
    /\ tasks = <<>>
    /\ jobs = <<>>
    /\ sending = {} /\ checked = {}
    /\ link = [f \in Mqtt |-> FALSE]
    /\ phase = "starting" /\ listening = FALSE /\ stop = FALSE
    /\ messages = 0 /\ submitted = {} /\ done = {}

\* The event loop runs.
LoopRuns == phase \in {"starting", "running", "cancelling", "down"}

-----------------------------------------------------------------------------
(***************************************************************************)
(* _client_connected.                                                      *)
(***************************************************************************)
\* Fault: the counter is not lowered again for a rejected connection.
NotLowered(raised) == raised

\* The counter after a rejection, which raised it first.
Lowered(raised) == raised - 1

Connected(c) ==
    /\ LoopRuns /\ listening
    /\ handler[c] = "none"
    /\ attached' = attached \cup {c}
    /\ \/ /\ count + 1 > MaxConnections
          /\ count' = Lowered(count + 1)
          /\ handler' = [handler EXCEPT ![c] = "rejecting"]
       \/ /\ count + 1 <= MaxConnections
          /\ count' = count + 1
          /\ handler' = [handler EXCEPT ![c] = "serving"]
    /\ UNCHANGED <<tasks, pool, link, main, messages, submitted>>

\* The transport is lost: the peer closed, or what was closed here is flushed.
ConnectionLost(c) ==
    /\ LoopRuns /\ c \in attached
    /\ attached' = attached \ {c}
    /\ UNCHANGED <<handler, count, tasks, pool, link, main, messages, submitted>>

\* ClientHandler.run comes to its teardown and waits for wait_closed().
RunEnds(c) ==
    /\ LoopRuns /\ handler[c] = "serving"
    /\ handler' = [handler EXCEPT ![c] = "closing"]
    /\ UNCHANGED <<attached, count, tasks, pool, link, main, messages, submitted>>

\* Fault: every task lowers the counter at its end, a rejected one too.
Always(c) == TRUE

\* Only an accepted connection passes the finally clause.
WasServed(c) == handler[c] = "closing"

\* wait_closed() returns, and the task ends.
TaskEnds(c) ==
    /\ LoopRuns /\ handler[c] \in {"closing", "rejecting"} /\ c \notin attached
    /\ handler' = [handler EXCEPT ![c] = IF @ = "closing" THEN "ended" ELSE "rejected"]
    /\ count' = IF WasServed(c) THEN count - 1 ELSE count
    /\ UNCHANGED <<attached, tasks, pool, link, main, messages, submitted>>

-----------------------------------------------------------------------------
(***************************************************************************)
(* MQTTBroker.forward and the forwarders.                                  *)
(***************************************************************************)
\* A message was routed, by the handler of its sender or, when that ended, by
\* the task of its will; a task is created to forward it.
Publish(c) ==
    /\ LoopRuns /\ handler[c] \in {"serving", "closing", "ended"}
    /\ messages < MaxMessages
    /\ messages' = messages + 1
    /\ tasks' = Append(tasks, messages + 1)
    /\ UNCHANGED <<net, pool, link, main, submitted>>

\* forward() starts: a job per forwarder.  After the shutdown of the pool
\* run_in_executor raises, and the message is lost.
Forward ==
    /\ LoopRuns /\ tasks # <<>>
    /\ tasks' = Tail(tasks)
    /\ IF phase = "down" THEN UNCHANGED <<jobs, submitted>>
       ELSE /\ jobs' = jobs \o [i \in DOMAIN Forwarders |-> <<Head(tasks), Forwarders[i]>>]
            /\ submitted' = submitted \cup {<<Head(tasks), f>> : f \in ForwarderSet}
    /\ UNCHANGED <<net, sending, checked, done, link, main, messages>>

\* Fault: the newest job is taken first.
Newest == <<jobs[Len(jobs)], SubSeq(jobs, 1, Len(jobs) - 1)>>

\* The job a thread takes, and what it leaves.
Oldest == <<Head(jobs), Tail(jobs)>>

Take ==
    /\ jobs # <<>> /\ Cardinality(sending) < Workers
    /\ sending' = sending \cup {Oldest[1]}
    /\ jobs' = Oldest[2]
    /\ UNCHANGED <<net, tasks, checked, done, link, main, messages, submitted>>

\* A job ends; what goes wrong is logged.
End(job, outcome) ==
    /\ done' = done \cup {<<job, outcome>>}
    /\ sending' = sending \ {job}
    /\ checked' = checked \ {job}
    /\ UNCHANGED <<net, tasks, jobs, link, main, messages, submitted>>

\* HttpForwarder.forward and UdpForwarder.forward.
Send(job) ==
    /\ job \in sending /\ job[2] \notin Mqtt
    /\ \E outcome \in {"sent", "failed"} : End(job, outcome)

\* MqttForwarder.forward: the flag is tested, then the client publishes.
CheckLink(job) ==
    /\ job \in sending \ checked /\ job[2] \in Mqtt
    /\ \/ /\ link[job[2]]
          /\ checked' = checked \cup {job}
          /\ UNCHANGED <<net, tasks, jobs, sending, done, link, main, messages, submitted>>
       \/ /\ ~link[job[2]]
          /\ End(job, "dropped")

PublishOut(job) ==
    /\ job \in checked
    /\ End(job, IF link[job[2]] THEN "sent" ELSE "failed")

\* _on_connect and _on_disconnect, called by the thread of the client.
LinkChanges(f) ==
    /\ phase # "exited"
    /\ link' = [link EXCEPT ![f] = ~link[f]]
    /\ UNCHANGED <<net, tasks, pool, main, messages, submitted>>

-----------------------------------------------------------------------------
(***************************************************************************)
(* serve, _run and main.                                                   *)
(***************************************************************************)
\* One of the listeners is open.
Listen ==
    /\ phase = "starting" /\ ~listening
    /\ listening' = TRUE
    /\ UNCHANGED <<net, tasks, pool, link, phase, stop, messages, submitted>>

\* All are, and serve_forever runs.
Serve ==
    /\ phase = "starting" /\ listening
    /\ phase' = "running"
    /\ UNCHANGED <<net, tasks, pool, link, listening, stop, messages, submitted>>

Signal ==
    /\ LoopRuns /\ ~stop
    /\ stop' = TRUE
    /\ UNCHANGED <<net, tasks, pool, link, phase, listening, messages, submitted>>

\* serve() fails, or is cancelled, before serve_forever: listeners that are
\* open stay so, and the pool is shut down.
ServeEnds ==
    /\ phase = "starting"
    /\ phase' = "down"
    /\ UNCHANGED <<net, tasks, pool, link, listening, stop, messages, submitted>>

\* serve() is cancelled in serve_forever, which closes the listeners.
Cancel ==
    /\ phase = "running" /\ stop
    /\ phase' = "cancelling"
    /\ listening' = FALSE
    /\ UNCHANGED <<net, tasks, pool, link, stop, messages, submitted>>

\* Fault: jobs that wait are cancelled, as shutdown(cancel_futures=True) does.
NoJobs == <<>>

\* The jobs that executor.shutdown(wait=False) leaves in the queue.
JobsLeft == jobs

\* The cancelled task ends, and the pool is shut down.
Shutdown ==
    /\ phase = "cancelling"
    /\ Patient => attached = {}
    /\ phase' = "down"
    /\ jobs' = JobsLeft
    /\ UNCHANGED <<net, tasks, sending, checked, done, link, listening, stop, messages, submitted>>

\* run_until_complete returns and main closes the loop, with all its tasks.
CloseLoop ==
    /\ phase = "down"
    /\ phase' = "exiting"
    /\ listening' = FALSE
    /\ UNCHANGED <<net, tasks, pool, link, stop, messages, submitted>>

\* The interpreter waits for the threads of the pool, which empty the queue.
Exit ==
    /\ phase = "exiting" /\ jobs = <<>> /\ sending = {}
    /\ phase' = "exited"
    /\ UNCHANGED <<net, tasks, pool, link, listening, stop, messages, submitted>>

-----------------------------------------------------------------------------
Loop == Forward \/ Cancel \/ Shutdown \/ CloseLoop \/ Listen \/ Serve

Threads ==
    \/ Take
    \/ \E job \in Jobs : Send(job) \/ CheckLink(job) \/ PublishOut(job)

Next ==
    \/ \E c \in Conns :
          Connected(c) \/ ConnectionLost(c) \/ RunEnds(c) \/ TaskEnds(c) \/ Publish(c)
    \/ Loop \/ Threads
    \/ \E f \in Mqtt : LinkChanges(f)
    \/ Signal \/ ServeEnds \/ Exit

\* The loop runs what is ready, and a thread its job: requests have timeouts.
\* Nothing is assumed of signals, peers and links.
Fairness ==
    /\ WF_vars(Loop) /\ WF_vars(Take) /\ WF_vars(Exit)
    /\ \A job \in Jobs : WF_vars(Send(job) \/ CheckLink(job) \/ PublishOut(job))
    /\ \A c \in Conns : WF_vars(TaskEnds(c))

Spec == Init /\ [][Next]_vars /\ Fairness

-----------------------------------------------------------------------------
TypeOK ==
    /\ handler \in [Conns -> {"none", "serving", "rejecting", "closing",
                           "ended", "rejected"}]
    /\ attached \subseteq Conns
    /\ count \in Nat
    /\ tasks \in Seq(1..MaxMessages) /\ jobs \in Seq(Jobs)
    /\ sending \subseteq Jobs /\ checked \subseteq sending
    /\ link \in [Mqtt -> BOOLEAN]
    /\ phase \in {"starting", "running", "cancelling", "down", "exiting", "exited"}
    /\ listening \in BOOLEAN /\ stop \in BOOLEAN
    /\ messages \in 0..MaxMessages
    /\ submitted \subseteq Jobs
    /\ done \subseteq Jobs \X {"sent", "failed", "dropped"}

\* The counter says how many connections hold a slot, from the acceptance to
\* the end of wait_closed(), and no more than the limit do: no way out of
\* _client_connected (broker.py:606-622) loses a slot or frees one twice.
HoldsSlot(c) == handler[c] \in {"serving", "closing"}

SlotsAreHeld ==
    /\ count = Cardinality({c \in Conns : HoldsSlot(c)})
    /\ count <= MaxConnections

\* A later message is through with a forwarder before an earlier one only
\* while a thread is busy with the earlier one: order is lost between threads
\* of the pool, never between tasks or in the queue (broker.py:303, 558-562).
Ended(m, f) == \E outcome \in {"sent", "failed", "dropped"} : <<<<m, f>>, outcome>> \in done

OvertakenOnlyWhileSending ==
    \A m, n \in 1..MaxMessages : \A f \in ForwarderSet :
        m < n /\ Ended(n, f) /\ ~Ended(m, f) => <<m, f>> \in sending

\* Once the signal came and all clients are gone, the process ends, and not
\* before every job that was queued has been tried: shutdown(wait=False) does
\* not give up what the pool still has to do (__main__.py:58-65).
Drained == phase = "exited" /\ \A job \in submitted : Ended(job[1], job[2])

ShutdownDrains == <>[](attached = {}) => (stop ~> Drained)

=============================================================================
