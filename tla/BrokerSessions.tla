--------------------------- MODULE BrokerSessions ---------------------------
(***************************************************************************)
(* The connection lifecycle of the MQTT broker (mqtt_broker/broker.py and  *)
(* mqtt_broker/session.py): what CONNECT, SUBSCRIBE, UNSUBSCRIBE,          *)
(* DISCONNECT, a lost connection and a takeover do to the four structures  *)
(* the handlers share: the registry _clients, the session store _sessions, *)
(* the session objects and the routing table of the SubscriptionStore.     *)
(*                                                                         *)
(* One action is what one asyncio task runs between two suspensions.  The  *)
(* awaits that suspend here are reading a packet, wait_closed(), a send on *)
(* a closing transport and the start of a created task.  A task runs at    *)
(* some later time: the model keeps no order among the runnable tasks.     *)
(*                                                                         *)
(* A connection stands for its TCP connection and its ClientHandler; a     *)
(* ClientSession object is named by the connection whose CONNECT built it. *)
(***************************************************************************)
EXTENDS Naturals

CONSTANTS Conns,      \* the TCP connections, one ClientHandler each
          Clients,    \* the client identifiers
          Filters,    \* the topic filters clients subscribe to
          Levels,     \* the protocol levels in use, a subset of {3, 4, 5}
          None,       \* absence of a handler, a session or an identifier
          Overlap     \* may a client connect while an earlier connection
                      \* with its identifier is not finished?

ASSUME ConstantsAssumption ==
    /\ None \notin Conns \cup Clients
    /\ Levels \subseteq {3, 4, 5}
    /\ Overlap \in BOOLEAN

VARIABLES
    pc,         \* where the task of ClientHandler.run is
    transport,  \* the stream: open, closed, or closed with a packet unread
    connected,  \* ClientHandler.connected
    cid,        \* ClientHandler.client_id
    mine,       \* ClientHandler.session
    kick,       \* the teardown task made by kick_existing
    clients,    \* MQTTBroker._clients
    sessions,   \* SessionStore._sessions
    object,     \* the ClientSession objects
    subs,       \* SubscriptionStore: the filters of each client
    willsDue,   \* _send_will tasks created and not run, by session object
    willsSent,  \* wills published, by session object
    brought,    \* history: the CONNECT of the connection carried a will
    parting     \* history: how the connection ended

vars == <<pc, transport, connected, cid, mine, kick, clients, sessions,
          object, subs, willsDue, willsSent, brought, parting>>

(***************************************************************************)
(* What a CONNECT packet asks for: protocol level, clean session flag, a   *)
(* session expiry interval above 0 (MQTT 5.0 only) and a will.             *)
(***************************************************************************)
ConnectOptions ==
    {o \in [level: Levels, clean: BOOLEAN, expires: BOOLEAN, will: BOOLEAN] :
        o.expires => o.level = 5}

ClientSession ==
    [level: {3, 4, 5}, clean: BOOLEAN, expires: BOOLEAN, will: BOOLEAN,
     connected: BOOLEAN, subs: SUBSET Filters]

NewSession(o) ==
    [level |-> o.level, clean |-> o.clean, expires |-> o.expires,
     will |-> o.will, connected |-> TRUE, subs |-> {}]

\* An object that no CONNECT has built yet.
Unbuilt ==
    [level |-> 3, clean |-> TRUE, expires |-> FALSE,
     will |-> FALSE, connected |-> FALSE, subs |-> {}]

Init ==
    /\ pc = [h \in Conns |-> "new"]
    /\ transport = [h \in Conns |-> "open"]
    /\ connected = [h \in Conns |-> FALSE]
    /\ cid = [h \in Conns |-> None]
    /\ mine = [h \in Conns |-> None]
    /\ kick = [h \in Conns |-> "no"]
    /\ clients = [c \in Clients |-> None]
    /\ sessions = [c \in Clients |-> None]
    /\ object = [s \in Conns |-> Unbuilt]
    /\ subs = [c \in Clients |-> {}]
    /\ willsDue = [s \in Conns |-> 0]
    /\ willsSent = [s \in Conns |-> 0]
    /\ brought = [h \in Conns |-> FALSE]
    /\ parting = [h \in Conns |-> "no"]

-----------------------------------------------------------------------------
\* Fault: on MQTT 5.0 the session is kept whatever its expiry.
EndsOnlyBeforeV5(s) == s.clean /\ s.level < 5

\* SessionStore.on_disconnect discards the session.
EndsWithConnection(s) == s.clean /\ (s.level < 5 \/ ~s.expires)

\* Fault: the will is returned after a clean end too.
WillGoesOutAlways(s, clean) == s.will

\* SessionStore.on_disconnect returns the will to send.
WillGoesOut(s, clean) == s.will /\ ~clean

\* Fault: the will is not consumed.
DisconnectedKeepsWill(objs, s) == [objs EXCEPT ![s].connected = FALSE]

\* The marks SessionStore.on_disconnect leaves on the session s.
Disconnected(objs, s) ==
    [objs EXCEPT ![s].connected = FALSE, ![s].will = FALSE]

\* Fault: the routes of a clean session stay.
RoutesStay(s, c, table) == table

\* Fault: the routes of a persistent session are removed too.
RoutesRemoved(s, c, table) == [table EXCEPT ![c] = {}]

\* SubscriptionStore.remove_all at the end of a clean session.
RoutesAfter(s, c, table) == IF s.clean THEN [table EXCEPT ![c] = {}] ELSE table

\* Fault: teardown leaves the handler connected.
StaysConnected(h) == connected

\* The first line of _teardown.
NotConnected(h) == [connected EXCEPT ![h] = FALSE]

\* Fault: a handler that is no longer connected does not unregister.
UnregisteredIfConnected(h) ==
    IF connected[h] THEN [clients EXCEPT ![cid[h]] = None] ELSE clients

\* MQTTBroker.unregister, by client identifier.
Unregistered(h) == [clients EXCEPT ![cid[h]] = None]

(***************************************************************************)
(* ClientHandler._teardown up to its await, with SessionStore.on_disconnect*)
(* inside.  Everything is looked up by client identifier; only the routes  *)
(* depend on the handler's own session.  table and objs are the routing    *)
(* table and the session objects the step has reached so far.              *)
(***************************************************************************)
Teardown(h, clean, table, objs) ==
    LET c == cid[h]
        s == sessions[c]
        known == s # None
    IN  /\ connected' = NotConnected(h)
        /\ clients' = Unregistered(h)
        /\ object' = IF known THEN Disconnected(objs, s) ELSE objs
        /\ sessions' = IF known /\ EndsWithConnection(objs[s])
                       THEN [sessions EXCEPT ![c] = None]
                       ELSE sessions
        /\ willsDue' = IF known /\ WillGoesOut(objs[s], clean)
                       THEN [willsDue EXCEPT ![s] = @ + 1]
                       ELSE willsDue
        /\ subs' = RoutesAfter(objs[mine[h]], c, table)
        /\ parting' = [parting EXCEPT ![h] =
                          IF @ # "no" THEN @
                          ELSE IF clean THEN "clean" ELSE "unclean"]

(***************************************************************************)
(* The finally clause of run: a second teardown follows whatever the loop  *)
(* did, never a clean one.                                                 *)
(***************************************************************************)
Finish(h, table, objs) ==
    /\ Teardown(h, FALSE, table, objs)
    /\ pc' = [pc EXCEPT ![h] = "final"]
    /\ transport' = [transport EXCEPT ![h] = "closed"]

(***************************************************************************)
(* The end of _dispatch: the loop goes on while the handler is connected.  *)
(***************************************************************************)
Continue(h, table, objs) ==
    IF connected[h]
    THEN /\ subs' = table
         /\ object' = objs
         /\ UNCHANGED <<pc, transport, connected, clients, sessions, willsDue,
                        parting>>
    ELSE Finish(h, table, objs)

\* A packet can still be read: the stream is up, or it arrived before close().
CanRead(h) == pc[h] = "loop" /\ transport[h] \in {"open", "unread"}

-----------------------------------------------------------------------------
Accept(h) ==
    /\ pc[h] = "new"
    /\ pc' = [pc EXCEPT ![h] = "first"]
    /\ UNCHANGED <<transport, connected, cid, mine, kick, clients, sessions,
                   object, subs, willsDue, willsSent, brought, parting>>

\* Fault: run does not return when _handle_connect refused the connection.
RejectGoesOn(h) ==
    /\ pc[h] = "first"
    /\ pc' = [pc EXCEPT ![h] = "loop"]
    /\ UNCHANGED <<transport, connected, cid, mine, kick, clients, sessions,
                   object, subs, willsDue, willsSent, brought, parting>>

(***************************************************************************)
(* No CONNECT within the timeout, a malformed or unauthorised one, or an   *)
(* unsupported level: run returns before a client identifier is set.       *)
(***************************************************************************)
Reject(h) ==
    /\ pc[h] = "first"
    /\ pc' = [pc EXCEPT ![h] = "final"]
    /\ transport' = [transport EXCEPT ![h] = "closed"]
    /\ UNCHANGED <<connected, cid, mine, kick, clients, sessions, object, subs,
                   willsDue, willsSent, brought, parting>>

\* The environment: all connections of a client are over, or overlap is allowed.
MayConnect(c) ==
    Overlap \/ \A g \in Conns : cid[g] = c => pc[g] = "done" /\ kick[g] # "due"

\* MQTTBroker.kick_existing finds a handler to disconnect.
Kicks(c) == clients[c] # None /\ connected[clients[c]]

\* Fault: a resumed session gets no subscriptions back.
RestoreNothing(c, filters) == subs

\* SubscriptionStore.restore adds the filters of the session to the table.
Restore(c, filters) == [subs EXCEPT ![c] = @ \cup filters]

\* Fault: a resumed session stays marked disconnected.
ResumedUnmarked(s) == object

\* The marks SessionStore.on_connect leaves on a resumed session.
Resumed(s) == [object EXCEPT ![s].connected = TRUE]

\* SessionStore.on_connect resumes the stored session.
Resumes(c, o) ==
    /\ sessions[c] # None
    /\ object[sessions[c]].level = o.level
    /\ ~o.clean

(***************************************************************************)
(* _handle_connect up to the CONNACK: take over, resume or build the       *)
(* session, register, restore the subscriptions.  A resumed session keeps  *)
(* its clean flag, expiry and will, whatever the CONNECT says.  Sending    *)
(* the CONNACK suspends the task only on a transport that is closing; the  *)
(* handler is then registered and not connected until it goes on.          *)
(***************************************************************************)
Connect(h, c, o, broken) ==
    LET s == IF Resumes(c, o) THEN sessions[c] ELSE h
    IN  /\ pc[h] = "first"
        /\ MayConnect(c)
        /\ pc' = [pc EXCEPT ![h] = IF broken THEN "connack" ELSE "loop"]
        /\ \E t \in IF broken THEN {"closed", "unread"} ELSE {"open"} :
               transport' = [transport EXCEPT ![h] = t]
        /\ cid' = [cid EXCEPT ![h] = c]
        /\ mine' = [mine EXCEPT ![h] = s]
        /\ connected' = [g \in Conns |-> IF g = h THEN ~broken
                                         ELSE connected[g] /\ g # clients[c]]
        /\ kick' = IF Kicks(c)
                   THEN [kick EXCEPT ![clients[c]] = "due"]
                   ELSE kick
        /\ object' = IF Resumes(c, o)
                     THEN Resumed(s)
                     ELSE [object EXCEPT ![h] = NewSession(o)]
        /\ sessions' = [sessions EXCEPT ![c] = s]
        /\ clients' = [clients EXCEPT ![c] = h]
        /\ subs' = Restore(c, object'[s].subs)
        /\ brought' = [brought EXCEPT ![h] = o.will]
        /\ UNCHANGED <<willsDue, willsSent, parting>>

\* The task goes on after a suspended CONNACK, even one that failed.
Connacked(h) ==
    /\ pc[h] = "connack"
    /\ pc' = [pc EXCEPT ![h] = "loop"]
    /\ connected' = [connected EXCEPT ![h] = TRUE]
    /\ UNCHANGED <<transport, cid, mine, kick, clients, sessions, object, subs,
                   willsDue, willsSent, brought, parting>>

(***************************************************************************)
(* _handle_subscribe for one filter.  Replaying the retained messages may  *)
(* raise (fails): the exception ends the loop with the filter added.       *)
(***************************************************************************)
Subscribe(h, f, fails) ==
    LET table == [subs EXCEPT ![cid[h]] = @ \cup {f}]
        objs == [object EXCEPT ![mine[h]].subs = @ \cup {f}]
    IN  /\ CanRead(h)
        /\ IF fails THEN Finish(h, table, objs) ELSE Continue(h, table, objs)
        /\ UNCHANGED <<cid, mine, kick, willsSent, brought>>

\* _handle_unsubscribe for one filter, which must be in the routing table.
Unsubscribe(h, f) ==
    /\ CanRead(h)
    /\ f \in subs[cid[h]]
    /\ Continue(h, [subs EXCEPT ![cid[h]] = @ \ {f}],
                   [object EXCEPT ![mine[h]].subs = @ \ {f}])
    /\ UNCHANGED <<cid, mine, kick, willsSent, brought>>

(***************************************************************************)
(* _handle_disconnect_packet: reason code 0 is a clean end; MQTT 5.0 has   *)
(* other codes.  The task then waits for the transport to close.           *)
(***************************************************************************)
Disconnect(h, clean) ==
    /\ CanRead(h)
    /\ clean \/ object[mine[h]].level = 5
    /\ Teardown(h, clean, subs, object)
    /\ pc' = [pc EXCEPT ![h] = "disconnecting"]
    /\ transport' = [transport EXCEPT ![h] = "closed"]
    /\ UNCHANGED <<cid, mine, kick, willsSent, brought>>

\* The loop ends after the DISCONNECT, and run tears down once more.
DisconnectClosed(h) ==
    /\ pc[h] = "disconnecting"
    /\ Finish(h, subs, object)
    /\ UNCHANGED <<cid, mine, kick, willsSent, brought>>

(***************************************************************************)
(* The loop ends: end of stream, keepalive timeout, a packet refused with  *)
(* connected = False, an exception, or any packet to a handler that is no  *)
(* longer connected.                                                       *)
(***************************************************************************)
LeaveLoop(h) ==
    /\ pc[h] = "loop"
    /\ Finish(h, subs, object)
    /\ UNCHANGED <<cid, mine, kick, willsSent, brought>>

\* _send fails on a broken connection; the read loop has not noticed yet.
SendFails(h) ==
    /\ pc[h] = "loop"
    /\ connected[h]
    /\ connected' = [connected EXCEPT ![h] = FALSE]
    /\ \E t \in {"closed", "unread"} : transport' = [transport EXCEPT ![h] = t]
    /\ UNCHANGED <<pc, cid, mine, kick, clients, sessions, object, subs,
                   willsDue, willsSent, brought, parting>>

\* Fault: the kick task does not close the stream of the old handler.
KickTaskLeavesOpen(h) ==
    /\ kick[h] = "due"
    /\ kick' = [kick EXCEPT ![h] = "ran"]
    /\ Teardown(h, FALSE, subs, object)
    /\ UNCHANGED <<pc, transport, cid, mine, willsSent, brought>>

(***************************************************************************)
(* The task created by kick_existing.  A packet may have reached the       *)
(* reader of the old handler before its stream is closed.                  *)
(***************************************************************************)
KickTask(h) ==
    /\ kick[h] = "due"
    /\ kick' = [kick EXCEPT ![h] = "ran"]
    /\ Teardown(h, FALSE, subs, object)
    /\ \E t \in IF CanRead(h) THEN {"closed", "unread"} ELSE {"closed"} :
           transport' = [transport EXCEPT ![h] = t]
    /\ UNCHANGED <<pc, cid, mine, willsSent, brought>>

\* wait_closed returns and the task of run ends.
Closed(h) ==
    /\ pc[h] = "final"
    /\ pc' = [pc EXCEPT ![h] = "done"]
    /\ UNCHANGED <<transport, connected, cid, mine, kick, clients, sessions,
                   object, subs, willsDue, willsSent, brought, parting>>

\* Fault: after the delay the will is read from the stored session.
SendStoredWill(s) ==
    /\ willsDue[s] > 0 /\ sessions[cid[s]] = s
    /\ willsDue' = [willsDue EXCEPT ![s] = @ - 1]
    /\ willsSent' = [willsSent EXCEPT ![s] = @ + 1]
    /\ UNCHANGED <<pc, transport, connected, cid, mine, kick, clients,
                   sessions, object, subs, brought, parting>>

\* A _send_will task publishes, after the delay if there is one.
SendWill(s) ==
    /\ willsDue[s] > 0
    /\ willsDue' = [willsDue EXCEPT ![s] = @ - 1]
    /\ willsSent' = [willsSent EXCEPT ![s] = @ + 1]
    /\ UNCHANGED <<pc, transport, connected, cid, mine, kick, clients,
                   sessions, object, subs, brought, parting>>

-----------------------------------------------------------------------------
Handler(h) ==
    \/ Accept(h)
    \/ Reject(h)
    \/ \E c \in Clients, o \in ConnectOptions, broken \in BOOLEAN :
           Connect(h, c, o, broken)
    \/ Connacked(h)
    \/ \E f \in Filters, fails \in BOOLEAN : Subscribe(h, f, fails)
    \/ \E f \in Filters : Unsubscribe(h, f)
    \/ \E clean \in BOOLEAN : Disconnect(h, clean)
    \/ DisconnectClosed(h)
    \/ LeaveLoop(h)
    \/ SendFails(h)
    \/ KickTask(h)
    \/ Closed(h)
    \/ SendWill(h)

Next == \E h \in Conns : Handler(h)

Spec == Init /\ [][Next]_vars

(***************************************************************************)
(* What asyncio and the network see to: a closed stream is read to its end,*)
(* wait_closed returns, a created task starts and a delayed will is due in *)
(* the end.  Clients owe nothing, and an open connection may idle forever. *)
(***************************************************************************)
Fairness ==
    \A h \in Conns :
        /\ WF_vars(Connacked(h))
        /\ WF_vars(transport[h] # "open" /\ LeaveLoop(h))
        /\ WF_vars(DisconnectClosed(h))
        /\ WF_vars(KickTask(h))
        /\ WF_vars(Closed(h))
        /\ WF_vars(SendWill(h))

FairSpec == Spec /\ Fairness

-----------------------------------------------------------------------------
\* Types; in the packet loop a handler has an identifier and a session, which
\* the packet handlers of run use without a test.
TypeOK ==
    /\ pc \in [Conns -> {"new", "first", "connack", "loop", "disconnecting",
                         "final", "done"}]
    /\ transport \in [Conns -> {"open", "unread", "closed"}]
    /\ connected \in [Conns -> BOOLEAN]
    /\ cid \in [Conns -> Clients \cup {None}]
    /\ mine \in [Conns -> Conns \cup {None}]
    /\ kick \in [Conns -> {"no", "due", "ran"}]
    /\ clients \in [Clients -> Conns \cup {None}]
    /\ sessions \in [Clients -> Conns \cup {None}]
    /\ object \in [Conns -> ClientSession]
    /\ subs \in [Clients -> SUBSET Filters]
    /\ willsDue \in [Conns -> Nat]
    /\ willsSent \in [Conns -> Nat]
    /\ brought \in [Conns -> BOOLEAN]
    /\ parting \in [Conns -> {"no", "clean", "unclean"}]
    /\ \A h \in Conns :
          pc[h] \in {"connack", "loop", "disconnecting"} =>
              cid[h] # None /\ mine[h] # None

\* Finished(h): the task of the connection is over, and so is its kick task.
Finished(h) == pc[h] = "done" /\ kick[h] # "due"

(***************************************************************************)
(* With takeovers and without.                                             *)
(***************************************************************************)

\* A handler found in _clients has never been torn down nor kicked, and serves
\* the client it is found under: route never delivers to a dead handler.
RegistryFresh ==
    \A c \in Clients, h \in Conns :
        clients[c] = h =>
            /\ cid[h] = c
            /\ pc[h] \in {"connack", "loop"}
            /\ kick[h] = "no"
            /\ parting[h] = "no"

\* The session store and the registry never disagree: a stored session is
\* marked connected exactly while some handler of its client is registered,
\* and that handler works on the stored session, not on a discarded one.
StoreAgreesWithRegistry ==
    \A c \in Clients :
        /\ sessions[c] # None =>
              (object[sessions[c]].connected <=> clients[c] # None)
        /\ clients[c] # None => mine[clients[c]] = sessions[c]

\* However many teardowns meet a session (every DISCONNECT causes two, a
\* takeover three), its will goes out at most once, and a will that is still
\* stored has not gone out.
WillAtMostOnce ==
    \A s \in Conns :
        /\ willsDue[s] + willsSent[s] <= 1
        /\ object[s].will => willsDue[s] + willsSent[s] = 0

\* Once every connection is over nothing of it is left: no handler is
\* registered, and each stored session is marked disconnected, holds no will
\* and is one that outlives connections.
NothingLeaks ==
    (\A h \in Conns : pc[h] \in {"new", "first"} \/ Finished(h)) =>
        \A c \in Clients :
            /\ clients[c] = None
            /\ sessions[c] # None =>
                  LET s == object[sessions[c]]
                  IN  /\ ~s.connected /\ ~s.will
                      /\ s.clean => s.level = 5 /\ s.expires

\* A connection that was torn down or taken over ends: its task leaves the
\* loop, closes the stream and returns, and so does the kick task.
EndedConnectionsFinish ==
    \A h \in Conns : (parting[h] # "no" \/ kick[h] = "due") ~> Finished(h)

\* A will that a teardown took from its session is published, whatever becomes
\* of the session, its handlers and its client meanwhile.
WillIsSent == \A s \in Conns : willsDue[s] > 0 ~> willsSent[s] = 1

(***************************************************************************)
(* When no client connects before its last connection is over.             *)
(***************************************************************************)

\* A connection reads packets as a connected client only while it is the
\* registered handler of its identifier.
ConnectedIsRegistered ==
    \A h \in Conns : connected[h] => clients[cid[h]] = h

\* The will of a session goes out if and only if the connection that brought
\* it ended uncleanly, whichever of its teardowns comes first.
WillExactlyWhenUnclean ==
    \A h \in Conns :
        mine[h] = h =>
            (willsDue[h] + willsSent[h] = 1 <=>
                brought[h] /\ parting[h] = "unclean")

\* While a client is registered its messages are routed by every filter of its
\* session: a resumed session gets its subscriptions back, and no late
\* teardown takes them away.
RestoredSubscriptions ==
    \A c \in Clients :
        clients[c] # None => object[mine[clients[c]]].subs \subseteq subs[c]

\* The routing table holds filters only of clients that have a stored session.
NoOrphanRoutes ==
    \A c \in Clients : subs[c] # {} => sessions[c] # None

(***************************************************************************)
(* What the code says of itself, and does not do.                          *)
(***************************************************************************)

\* "Take over existing connection with same client ID": two connections of
\* one client, their streams open, are never both connected.
OneConnectionPerClient ==
    \A g, h \in {x \in Conns : connected[x] /\ transport[x] = "open"} :
        g # h => cid[g] # cid[h]

\* "Only send will on unclean disconnect": the will of a session goes out only
\* after a connection that worked on it ended uncleanly.
WillOnlyAfterUncleanEnd ==
    \A s \in Conns :
        willsDue[s] + willsSent[s] > 0 =>
            \E h \in Conns : mine[h] = s /\ parting[h] = "unclean"

\* "discard any previous session on connect": a client that asked for a clean
\* session is routed only what it subscribed to in this session.
RoutesFollowSession ==
    \A c \in Clients :
        clients[c] # None => subs[c] \subseteq object[mine[clients[c]]].subs

\* "Will (LWT) messages": a connection that is alive and brought a will has it
\* in its session.
WillIsStored ==
    \A h \in Conns :
        connected[h] /\ brought[h] => object[mine[h]].will

=============================================================================
