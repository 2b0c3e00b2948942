------------------------ MODULE BrokerSessionsProofs ------------------------
(***************************************************************************)
(* Proofs of the safety properties of BrokerSessions for every number of   *)
(* connections, clients and filters: first those that hold with and        *)
(* without takeovers, then those it has when no client connects before its *)
(* last connection is over (Overlap = FALSE), and last that the handlers   *)
(* then implement SessionService.                                          *)
(***************************************************************************)
EXTENDS BrokerSessionsRefinement, FiniteSetTheorems, TLAPS

\* A connection whose CONNECT was not accepted owns nothing yet, and a will
\* that is due or sent belongs to a session that was built.
Untouched ==
    \A h \in Conns :
        pc[h] \in {"new", "first"} =>
            /\ cid[h] = None
            /\ mine[h] = None
            /\ kick[h] = "no"
            /\ parting[h] = "no"
            /\ willsDue[h] = 0
            /\ willsSent[h] = 0
            /\ ~object[h].will

\* Sessions never move between clients: the session a handler works on and the
\* one the store holds were built by a connection of the same client.
Ownership ==
    /\ \A h \in Conns :
          /\ cid[h] # None <=> mine[h] # None
          /\ kick[h] = "due" => cid[h] # None
          /\ mine[h] # None => cid[mine[h]] = cid[h]
    /\ \A c \in Clients : sessions[c] # None => cid[sessions[c]] = c

\* A stored session without a handler is one a teardown left behind.
LeftBehind ==
    \A c \in Clients :
        sessions[c] # None /\ clients[c] = None =>
            ~object[sessions[c]].will /\ ~EndsWithConnection(object[sessions[c]])

IInv ==
    /\ TypeOK
    /\ Untouched
    /\ Ownership
    /\ LeftBehind
    /\ RegistryFresh
    /\ StoreAgreesWithRegistry
    /\ WillAtMostOnce

-----------------------------------------------------------------------------
\* Initially no connection has done anything.
LEMMA InitIInv == Init => IInv
<1> SUFFICES ASSUME Init PROVE IInv
    OBVIOUS
<1> USE ConstantsAssumption DEF Init
<1>1. TypeOK
    BY DEF TypeOK, ClientSession, Unbuilt
<1>2. Untouched /\ Ownership /\ LeftBehind
    BY DEF Untouched, Ownership, LeftBehind, Unbuilt
<1>3. RegistryFresh /\ StoreAgreesWithRegistry /\ WillAtMostOnce
    BY DEF RegistryFresh, StoreAgreesWithRegistry, WillAtMostOnce, Unbuilt
<1> QED
    BY <1>1, <1>2, <1>3 DEF IInv

\* What on_disconnect makes of the session objects, field by field.
LEMMA DisconnectedObjects ==
    ASSUME NEW objs \in [Conns -> ClientSession], NEW s \in Conns
    PROVE  /\ Disconnected(objs, s) \in [Conns -> ClientSession]
           /\ \A t \in Conns \ {s} : Disconnected(objs, s)[t] = objs[t]
           /\ ~Disconnected(objs, s)[s].connected
           /\ ~Disconnected(objs, s)[s].will
           /\ EndsWithConnection(Disconnected(objs, s)[s])
                 = EndsWithConnection(objs[s])
<1> DEFINE d == [objs[s] EXCEPT !.connected = FALSE, !.will = FALSE]
<1>1. Disconnected(objs, s) = [objs EXCEPT ![s] = d]
    BY DEF Disconnected
<1>2. objs[s] \in ClientSession
    OBVIOUS
<1>3. d \in ClientSession /\ ~d.connected /\ ~d.will
    BY <1>2 DEF ClientSession
<1>4. d.clean = objs[s].clean /\ d.level = objs[s].level /\ d.expires = objs[s].expires
    BY <1>2 DEF ClientSession
<1>5. EndsWithConnection(d) = EndsWithConnection(objs[s])
    BY <1>4 DEF EndsWithConnection
<1> HIDE DEF d
<1> QED
    BY <1>1, <1>3, <1>5

(***************************************************************************)
(* A teardown by a handler that has an identifier keeps the invariant,     *)
(* whoever runs it and wherever the task of the handler goes next.  table  *)
(* and objs are what the same step made of the routes and the filters of   *)
(* the sessions before.                                                    *)
(***************************************************************************)
SameSessions(objs) ==
    \A s \in Conns :
        /\ objs[s].level = object[s].level
        /\ objs[s].clean = object[s].clean
        /\ objs[s].expires = object[s].expires
        /\ objs[s].will = object[s].will
        /\ objs[s].connected = object[s].connected

LEMMA TeardownKeepsIInv ==
    ASSUME IInv, NEW h \in Conns, cid[h] # None,
           NEW clean \in BOOLEAN,
           NEW table \in [Clients -> SUBSET Filters],
           NEW objs \in [Conns -> ClientSession], SameSessions(objs),
           Teardown(h, clean, table, objs),
           NEW place \in {pc[h], "disconnecting", "final"},
           pc[h] \notin {"new", "first"},
           pc' = [pc EXCEPT ![h] = place],
           transport' \in [Conns -> {"open", "unread", "closed"}],
           kick' = kick \/ kick' = [kick EXCEPT ![h] = "ran"],
           UNCHANGED <<cid, mine, willsSent, brought>>
    PROVE  IInv'
<1> DEFINE c == cid[h]
           s == sessions[c]
<1> USE ConstantsAssumption DEF IInv
<1>1. /\ c \in Clients
      /\ mine[h] \in Conns
      /\ s \in Conns \cup {None}
      /\ s # None => cid[s] = c
    BY DEF TypeOK, Ownership
<1>2. /\ connected' = [connected EXCEPT ![h] = FALSE]
      /\ clients' = [clients EXCEPT ![c] = None]
      /\ object' = IF s # None
                   THEN Disconnected(objs, s) ELSE objs
      /\ sessions' = IF s # None /\ EndsWithConnection(objs[s])
                     THEN [sessions EXCEPT ![c] = None] ELSE sessions
      /\ willsDue' = IF s # None /\ objs[s].will /\ ~clean
                     THEN [willsDue EXCEPT ![s] = @ + 1] ELSE willsDue
      /\ subs' = IF objs[mine[h]].clean THEN [table EXCEPT ![c] = {}] ELSE table
      /\ parting' = [parting EXCEPT ![h] =
                        IF @ # "no" THEN @
                        ELSE IF clean THEN "clean" ELSE "unclean"]
    BY DEF Teardown, NotConnected, Unregistered, WillGoesOut, RoutesAfter
<1>3. TypeOK'
  <2>1. object' \in [Conns -> ClientSession]
      BY <1>1, <1>2, DisconnectedObjects
  <2>2. /\ connected' \in [Conns -> BOOLEAN]
        /\ clients' \in [Clients -> Conns \cup {None}]
        /\ sessions' \in [Clients -> Conns \cup {None}]
        /\ willsDue' \in [Conns -> Nat]
        /\ subs' \in [Clients -> SUBSET Filters]
        /\ parting' \in [Conns -> {"no", "clean", "unclean"}]
      BY <1>1, <1>2 DEF TypeOK
  <2>3. /\ pc' \in [Conns -> {"new", "first", "connack", "loop",
                              "disconnecting", "final", "done"}]
        /\ kick' \in [Conns -> {"no", "due", "ran"}]
      BY DEF TypeOK
  <2>4. cid[h] # None /\ mine[h] # None
      BY DEF Ownership
  <2> QED
      BY <2>1, <2>2, <2>3, <2>4 DEF TypeOK
<1>4. Untouched'
  <2> SUFFICES ASSUME NEW g \in Conns, pc'[g] \in {"new", "first"}
               PROVE  /\ cid'[g] = None /\ mine'[g] = None
                      /\ kick'[g] = "no" /\ parting'[g] = "no"
                      /\ willsDue'[g] = 0 /\ willsSent'[g] = 0
                      /\ ~object'[g].will
      BY DEF Untouched
  <2>1. g # h /\ pc[g] \in {"new", "first"}
      BY DEF TypeOK
  <2>2. cid[g] = None /\ g # s
      BY <1>1, <2>1 DEF Untouched
  <2>3. object'[g] = objs[g]
      BY <1>1, <1>2, <2>2, DisconnectedObjects
  <2> QED
      BY <1>1, <1>2, <2>1, <2>2, <2>3 DEF Untouched, SameSessions, TypeOK
<1>5. Ownership'
    BY <1>1, <1>2 DEF Ownership, TypeOK
<1>6. \A d \in Clients \ {c} :
         /\ clients'[d] = clients[d]
         /\ sessions'[d] = sessions[d]
         /\ sessions[d] # None =>
               /\ sessions[d] # s
               /\ object'[sessions[d]].connected = object[sessions[d]].connected
               /\ object'[sessions[d]].will = object[sessions[d]].will
               /\ EndsWithConnection(object'[sessions[d]])
                     = EndsWithConnection(object[sessions[d]])
  <2> TAKE d \in Clients \ {c}
  <2>1. sessions[d] # None => sessions[d] \in Conns /\ sessions[d] # s
      BY <1>1 DEF Ownership, TypeOK
  <2>2. clients'[d] = clients[d] /\ sessions'[d] = sessions[d]
      BY <1>1, <1>2 DEF TypeOK
  <2>3. ASSUME sessions[d] # None
        PROVE  object'[sessions[d]] = objs[sessions[d]]
      BY <1>1, <1>2, <2>1, <2>3, DisconnectedObjects
  <2> QED
      BY <2>1, <2>2, <2>3 DEF SameSessions, EndsWithConnection
<1>7. /\ clients'[c] = None
      /\ sessions'[c] # None =>
            /\ sessions'[c] = s
            /\ ~object'[s].connected
            /\ ~object'[s].will
            /\ ~EndsWithConnection(object'[s])
  <2>1. clients'[c] = None /\ sessions'[c] \in {s, None}
      BY <1>1, <1>2 DEF TypeOK
  <2>2. ASSUME sessions'[c] # None
        PROVE  s \in Conns /\ object' = Disconnected(objs, s)
                 /\ ~EndsWithConnection(objs[s])
      BY <1>1, <1>2, <2>1, <2>2 DEF TypeOK
  <2> QED
      BY <2>1, <2>2, DisconnectedObjects
<1>8. LeftBehind'
    BY <1>6, <1>7 DEF LeftBehind
<1>9. RegistryFresh'
  <2> SUFFICES ASSUME NEW d \in Clients, NEW g \in Conns, clients'[d] = g
               PROVE  /\ cid[g] = d
                      /\ pc'[g] \in {"connack", "loop"}
                      /\ kick'[g] = "no"
                      /\ parting'[g] = "no"
      BY DEF RegistryFresh
  <2>1. d # c /\ clients[d] = g
      BY <1>6, <1>7
  <2>2. cid[g] = d /\ g # h
      BY <2>1 DEF RegistryFresh
  <2> QED
      BY <1>2, <2>1, <2>2 DEF RegistryFresh, TypeOK
<1>10. StoreAgreesWithRegistry'
    BY <1>6, <1>7 DEF StoreAgreesWithRegistry
<1>11. WillAtMostOnce'
  <2> SUFFICES ASSUME NEW t \in Conns
               PROVE  /\ willsDue'[t] + willsSent[t] <= 1
                      /\ object'[t].will => willsDue'[t] + willsSent[t] = 0
      BY DEF WillAtMostOnce
  <2>1. /\ willsDue[t] \in Nat /\ willsSent[t] \in Nat
        /\ willsDue[t] + willsSent[t] <= 1
        /\ object[t].will => willsDue[t] + willsSent[t] = 0
        /\ objs[t].will = object[t].will
      BY DEF WillAtMostOnce, TypeOK, SameSessions
  <2>2. CASE t = s
    <3>1. ~object'[t].will
        BY <1>1, <1>2, <2>2, DisconnectedObjects
    <3>2. willsDue'[t] = IF objs[t].will /\ ~clean
                         THEN willsDue[t] + 1 ELSE willsDue[t]
        BY <1>1, <1>2, <2>2 DEF TypeOK
    <3> QED
        BY <3>1, <3>2, <2>1
  <2>3. CASE t # s
    <3>1. willsDue'[t] = willsDue[t]
        BY <1>1, <1>2, <2>3 DEF TypeOK
    <3>2. object'[t] = objs[t]
        BY <1>1, <1>2, <2>3, DisconnectedObjects
    <3> QED
        BY <3>1, <3>2, <2>1
  <2> QED
      BY <2>2, <2>3
<1> QED
    BY <1>3, <1>4, <1>5, <1>8, <1>9, <1>10, <1>11

(***************************************************************************)
(* The packet handlers for filters change only the filters of a session,   *)
(* and may end the loop.                                                   *)
(***************************************************************************)
WithFilters(h, filters) == [object EXCEPT ![mine[h]].subs = filters]

LEMMA FiltersKeepSessions ==
    ASSUME TypeOK, NEW h \in Conns, mine[h] # None,
           NEW filters \in SUBSET Filters
    PROVE  /\ WithFilters(h, filters) \in [Conns -> ClientSession]
           /\ SameSessions(WithFilters(h, filters))
<1> DEFINE d == [object[mine[h]] EXCEPT !.subs = filters]
<1>1. mine[h] \in Conns /\ object[mine[h]] \in ClientSession
    BY DEF TypeOK
<1>2. WithFilters(h, filters) = [object EXCEPT ![mine[h]] = d]
    BY DEF WithFilters
<1>3. /\ d \in ClientSession
      /\ d.level = object[mine[h]].level
      /\ d.clean = object[mine[h]].clean
      /\ d.expires = object[mine[h]].expires
      /\ d.will = object[mine[h]].will
      /\ d.connected = object[mine[h]].connected
    BY <1>1 DEF ClientSession
<1> HIDE DEF d
<1> QED
    BY <1>1, <1>2, <1>3 DEF SameSessions, TypeOK

\* Finish is a teardown.
LEMMA FinishKeepsIInv ==
    ASSUME IInv, NEW h \in Conns, pc[h] \in {"loop", "disconnecting"},
           NEW table \in [Clients -> SUBSET Filters],
           NEW objs \in [Conns -> ClientSession], SameSessions(objs),
           Finish(h, table, objs),
           UNCHANGED <<cid, mine, kick, willsSent, brought>>
    PROVE  IInv'
<1>1. cid[h] # None
    BY DEF IInv, TypeOK
<1>2. /\ Teardown(h, FALSE, table, objs)
      /\ pc' = [pc EXCEPT ![h] = "final"]
      /\ transport' \in [Conns -> {"open", "unread", "closed"}]
    BY DEF Finish, IInv, TypeOK
<1> QED
    BY <1>1, <1>2, TeardownKeepsIInv

\* The loop goes on: only the filters of one session and of one client change.
LEMMA FiltersKeepIInv ==
    ASSUME IInv,
           NEW table \in [Clients -> SUBSET Filters],
           NEW objs \in [Conns -> ClientSession], SameSessions(objs),
           subs' = table, object' = objs,
           UNCHANGED <<pc, transport, connected, cid, mine, kick, clients,
                       sessions, willsDue, willsSent, brought, parting>>
    PROVE  IInv'
<1> USE DEF IInv
<1>1. TypeOK'
    BY DEF TypeOK
<1>2. Untouched' /\ Ownership' /\ RegistryFresh'
    BY DEF Untouched, Ownership, RegistryFresh, SameSessions
<1>3. /\ \A s \in Conns : EndsWithConnection(objs[s]) = EndsWithConnection(object[s])
      /\ \A c \in Clients : sessions[c] # None => sessions[c] \in Conns
    BY DEF SameSessions, EndsWithConnection, TypeOK
<1>4. LeftBehind' /\ StoreAgreesWithRegistry'
    BY <1>3 DEF LeftBehind, StoreAgreesWithRegistry, SameSessions
<1>5. WillAtMostOnce'
    BY DEF WillAtMostOnce, SameSessions
<1> QED
    BY <1>1, <1>2, <1>4, <1>5

LEMMA ContinueKeepsIInv ==
    ASSUME IInv, NEW h \in Conns, pc[h] = "loop",
           NEW table \in [Clients -> SUBSET Filters],
           NEW objs \in [Conns -> ClientSession], SameSessions(objs),
           Continue(h, table, objs),
           UNCHANGED <<cid, mine, kick, willsSent, brought>>
    PROVE  IInv'
<1>1. CASE connected[h]
    BY <1>1, FiltersKeepIInv DEF Continue
<1>2. CASE ~connected[h]
    BY <1>2, FinishKeepsIInv DEF Continue
<1> QED
    BY <1>1, <1>2

\* CONNECT, with or without a takeover, resuming or building a session.
LEMMA ConnectKeepsIInv ==
    ASSUME IInv, NEW h \in Conns, NEW c \in Clients, NEW o \in ConnectOptions,
           NEW broken \in BOOLEAN, Connect(h, c, o, broken)
    PROVE  IInv'
<1> DEFINE s == IF Resumes(c, o) THEN sessions[c] ELSE h
<1> USE ConstantsAssumption DEF IInv
<1>1. /\ pc[h] = "first"
      /\ c # None
      /\ cid[h] = None /\ mine[h] = None /\ kick[h] = "no" /\ parting[h] = "no"
      /\ willsDue[h] = 0 /\ willsSent[h] = 0
    BY DEF Connect, Untouched
<1>2. /\ s \in Conns
      /\ s # h => Resumes(c, o) /\ s = sessions[c] /\ cid[s] = c
      /\ Resumes(c, o) => s # h
    BY <1>1 DEF Resumes, Ownership, TypeOK
<1>3. /\ pc' = [pc EXCEPT ![h] = IF broken THEN "connack" ELSE "loop"]
      /\ transport' \in [Conns -> {"open", "unread", "closed"}]
      /\ cid' = [cid EXCEPT ![h] = c]
      /\ mine' = [mine EXCEPT ![h] = s]
      /\ connected' \in [Conns -> BOOLEAN]
      /\ kick' = IF Kicks(c) THEN [kick EXCEPT ![clients[c]] = "due"] ELSE kick
      /\ sessions' = [sessions EXCEPT ![c] = s]
      /\ clients' = [clients EXCEPT ![c] = h]
      /\ subs' = [subs EXCEPT ![c] = @ \cup object'[s].subs]
      /\ brought' = [brought EXCEPT ![h] = o.will]
      /\ UNCHANGED <<willsDue, willsSent, parting>>
  <2>1. transport' \in [Conns -> {"open", "unread", "closed"}]
    <3>1. PICK t \in {"open", "unread", "closed"} :
                   transport' = [transport EXCEPT ![h] = t]
        BY DEF Connect
    <3> QED
        BY <3>1 DEF TypeOK
  <2>2. connected' \in [Conns -> BOOLEAN]
      BY DEF Connect, TypeOK
  <2> QED
      BY <2>1, <2>2 DEF Connect, Restore
<1>4. /\ object' \in [Conns -> ClientSession]
      /\ object'[s].connected
      /\ s # h => object'[s].will = object[s].will
      /\ \A t \in Conns \ {s} : object'[t] = object[t]
  <2>1. CASE Resumes(c, o)
    <3> DEFINE d == [object[s] EXCEPT !.connected = TRUE]
    <3>1. object' = [object EXCEPT ![s] = d]
        BY <2>1 DEF Connect, Resumed
    <3>2. d \in ClientSession /\ d.connected /\ d.will = object[s].will
      <4>1. object[s] \in ClientSession
          BY <1>2 DEF TypeOK
      <4> QED
          BY <4>1 DEF ClientSession
    <3> HIDE DEF d
    <3> QED
        BY <1>2, <3>1, <3>2 DEF TypeOK
  <2>2. CASE ~Resumes(c, o)
    <3>1. object' = [object EXCEPT ![h] = NewSession(o)] /\ s = h
        BY <2>2 DEF Connect
    <3>2. NewSession(o) \in ClientSession /\ NewSession(o).connected
        BY DEF NewSession, ClientSession, ConnectOptions
    <3> QED
        BY <3>1, <3>2 DEF TypeOK
  <2> QED
      BY <2>1, <2>2
<1> HIDE DEF s
<1>5. \A g \in Conns : g = clients[c] => pc[g] # "first" /\ g # h /\ cid[g] = c
    BY <1>1 DEF RegistryFresh
<1>6. \A g \in Conns : g # h =>
         /\ pc'[g] = pc[g] /\ cid'[g] = cid[g] /\ mine'[g] = mine[g]
         /\ kick'[g] # kick[g] => g = clients[c] /\ kick'[g] = "due"
    BY <1>3 DEF TypeOK
<1>7. pc'[h] \in {"connack", "loop"} /\ cid'[h] = c /\ mine'[h] = s /\ kick'[h] = "no"
    BY <1>1, <1>3, <1>5 DEF TypeOK
<1>8. \A d \in Clients \ {c} :
         /\ clients'[d] = clients[d]
         /\ sessions'[d] = sessions[d]
         /\ sessions[d] # None => /\ sessions[d] \in Conns \ {s, h}
                                  /\ object'[sessions[d]] = object[sessions[d]]
  <2> TAKE d \in Clients \ {c}
  <2>1. sessions[d] # None => sessions[d] \in Conns \ {s, h}
      BY <1>1, <1>2 DEF Ownership, TypeOK
  <2> QED
      BY <1>3, <1>4, <2>1 DEF TypeOK
<1>9. clients'[c] = h /\ sessions'[c] = s
    BY <1>3 DEF TypeOK
<1>10. TypeOK'
  <2>1. object'[s].subs \in SUBSET Filters
      BY <1>2, <1>4 DEF ClientSession
  <2>2. /\ pc' \in [Conns -> {"new", "first", "connack", "loop",
                              "disconnecting", "final", "done"}]
        /\ cid' \in [Conns -> Clients \cup {None}]
        /\ mine' \in [Conns -> Conns \cup {None}]
        /\ kick' \in [Conns -> {"no", "due", "ran"}]
        /\ clients' \in [Clients -> Conns \cup {None}]
        /\ sessions' \in [Clients -> Conns \cup {None}]
        /\ brought' \in [Conns -> BOOLEAN]
      BY <1>2, <1>3 DEF TypeOK, ConnectOptions
  <2>3. subs' \in [Clients -> SUBSET Filters]
      BY <1>3, <2>1 DEF TypeOK
  <2>4. \A g \in Conns : pc'[g] \in {"connack", "loop", "disconnecting"} =>
                            cid'[g] # None /\ mine'[g] # None
      BY <1>1, <1>2, <1>6, <1>7 DEF TypeOK
  <2> QED
      BY <1>3, <1>4, <2>2, <2>3, <2>4 DEF TypeOK
<1>11. Untouched'
  <2> SUFFICES ASSUME NEW g \in Conns, pc'[g] \in {"new", "first"}
               PROVE  /\ cid'[g] = None /\ mine'[g] = None
                      /\ kick'[g] = "no" /\ parting'[g] = "no"
                      /\ willsDue'[g] = 0 /\ willsSent'[g] = 0
                      /\ ~object'[g].will
      BY DEF Untouched
  <2>1. g # h /\ pc[g] \in {"new", "first"} /\ cid[g] = None
      BY <1>6, <1>7 DEF Untouched
  <2>2. g # s /\ g # clients[c]
      BY <1>1, <1>2, <1>5, <2>1
  <2> QED
      BY <1>3, <1>4, <1>6, <2>1, <2>2 DEF Untouched
<1>12. Ownership'
  <2>1. ASSUME NEW g \in Conns, g # h
        PROVE  /\ cid'[g] # None <=> mine'[g] # None
               /\ kick'[g] = "due" => cid'[g] # None
               /\ mine'[g] # None => cid'[mine'[g]] = cid'[g]
    <3>1. mine[g] # None => mine[g] \in Conns \ {h} /\ cid[mine[g]] = cid[g]
        BY <1>1 DEF Ownership, TypeOK
    <3> QED
        BY <1>1, <1>5, <1>6, <2>1, <3>1 DEF Ownership
  <2>2. cid'[s] = c
      BY <1>2, <1>6, <1>7
  <2>3. \A d \in Clients : sessions'[d] # None => cid'[sessions'[d]] = d
      BY <1>6, <1>8, <1>9, <2>2 DEF Ownership
  <2> QED
      BY <1>1, <1>2, <1>7, <2>1, <2>2, <2>3 DEF Ownership
<1>13. LeftBehind'
    BY <1>8, <1>9 DEF LeftBehind
<1>14. RegistryFresh'
  <2> SUFFICES ASSUME NEW d \in Clients, NEW g \in Conns, clients'[d] = g
               PROVE  /\ cid'[g] = d
                      /\ pc'[g] \in {"connack", "loop"}
                      /\ kick'[g] = "no"
                      /\ parting'[g] = "no"
      BY DEF RegistryFresh
  <2>1. CASE d = c
      BY <1>1, <1>3, <1>7, <1>9, <2>1
  <2>2. CASE d # c
    <3>1. clients[d] = g /\ cid[g] = d
        BY <1>8, <2>2 DEF RegistryFresh
    <3>2. g # h /\ g # clients[c]
        BY <1>1, <1>5, <2>2, <3>1
    <3> QED
        BY <1>3, <1>6, <3>1, <3>2 DEF RegistryFresh
  <2> QED
      BY <2>1, <2>2
<1>15. StoreAgreesWithRegistry'
  <2>1. ASSUME NEW d \in Clients \ {c}, clients[d] # None
        PROVE  mine'[clients[d]] = mine[clients[d]]
    <3>1. clients[d] \in Conns /\ clients[d] # h
        BY <1>1, <2>1 DEF RegistryFresh, TypeOK
    <3> QED
        BY <1>6, <3>1
  <2> QED
      BY <1>1, <1>4, <1>7, <1>8, <1>9, <2>1 DEF StoreAgreesWithRegistry
<1>16. WillAtMostOnce'
    BY <1>1, <1>3, <1>4 DEF WillAtMostOnce, TypeOK
<1> QED
    BY <1>10, <1>11, <1>12, <1>13, <1>14, <1>15, <1>16

\* The kick task: a teardown run by another task than the handler's own.
LEMMA KickTaskKeepsIInv ==
    ASSUME IInv, NEW h \in Conns, KickTask(h)
    PROVE  IInv'
<1>1. cid[h] # None /\ pc[h] \notin {"new", "first"}
    BY DEF KickTask, IInv, Ownership, Untouched
<1>2. transport' \in [Conns -> {"open", "unread", "closed"}]
  <2>1. PICK t \in {"open", "unread", "closed"} :
                 transport' = [transport EXCEPT ![h] = t]
      BY DEF KickTask
  <2> QED
      BY <2>1 DEF IInv, TypeOK
<1>3. pc' = [pc EXCEPT ![h] = pc[h]]
    BY DEF KickTask, IInv, TypeOK
<1>4. subs \in [Clients -> SUBSET Filters] /\ object \in [Conns -> ClientSession]
    BY DEF IInv, TypeOK
<1>5. SameSessions(object)
    BY DEF SameSessions
<1> QED
    BY <1>1, <1>2, <1>3, <1>4, <1>5, TeardownKeepsIInv DEF KickTask

\* The steps that touch neither the registry, the store nor the routes.
LEMMA LocalStepKeepsIInv ==
    ASSUME IInv, NEW h \in Conns,
           \/ Accept(h) \/ Reject(h) \/ Connacked(h) \/ SendFails(h) \/ Closed(h)
    PROVE  IInv'
<1> USE DEF IInv
<1>1. /\ UNCHANGED <<cid, mine, kick, clients, sessions, object, subs, willsDue,
                     willsSent, brought, parting>>
      /\ \A g \in Conns \ {h} : pc'[g] = pc[g]
      /\ \/ pc[h] = "new" /\ pc'[h] = "first"
         \/ pc[h] = "first" /\ pc'[h] = "final"
         \/ pc[h] = "connack" /\ pc'[h] = "loop"
         \/ pc[h] = "loop" /\ pc'[h] = "loop"
         \/ pc[h] = "final" /\ pc'[h] = "done"
    BY DEF Accept, Reject, Connacked, SendFails, Closed, TypeOK
<1>2. /\ pc' \in [Conns -> {"new", "first", "connack", "loop", "disconnecting",
                            "final", "done"}]
      /\ connected' \in [Conns -> BOOLEAN]
    BY DEF Accept, Reject, Connacked, SendFails, Closed, TypeOK
<1>3. transport' \in [Conns -> {"open", "unread", "closed"}]
  <2>1. CASE SendFails(h)
    <3>1. PICK t \in {"closed", "unread"} : transport' = [transport EXCEPT ![h] = t]
        BY <2>1 DEF SendFails
    <3> QED
        BY <3>1 DEF TypeOK
  <2>2. CASE Accept(h) \/ Reject(h) \/ Connacked(h) \/ Closed(h)
      BY <2>2 DEF Accept, Reject, Connacked, Closed, TypeOK
  <2> QED
      BY <2>1, <2>2
<1>4. TypeOK'
    BY <1>1, <1>2, <1>3 DEF TypeOK
<1>5. Untouched'
    BY <1>1 DEF Untouched
<1>6. Ownership' /\ LeftBehind' /\ StoreAgreesWithRegistry' /\ WillAtMostOnce'
    BY <1>1 DEF Ownership, LeftBehind, StoreAgreesWithRegistry, WillAtMostOnce,
                EndsWithConnection
<1>7. RegistryFresh'
    BY <1>1 DEF RegistryFresh
<1> QED
    BY <1>4, <1>5, <1>6, <1>7

LEMMA SendWillKeepsIInv ==
    ASSUME IInv, NEW s \in Conns, SendWill(s)
    PROVE  IInv'
<1> USE DEF IInv, SendWill
<1>1. /\ willsDue[s] \in Nat \ {0} /\ willsSent[s] \in Nat
      /\ willsDue'[s] = willsDue[s] - 1 /\ willsSent'[s] = willsSent[s] + 1
      /\ \A t \in Conns \ {s} : /\ willsDue'[t] = willsDue[t]
                                /\ willsSent'[t] = willsSent[t]
    BY DEF TypeOK
<1>2. TypeOK'
  <2>1. willsDue' \in [Conns -> Nat] /\ willsSent' \in [Conns -> Nat]
      BY <1>1 DEF TypeOK
  <2> QED
      BY <2>1 DEF TypeOK
<1>3. Untouched'
    BY <1>1 DEF Untouched
<1>4. Ownership' /\ LeftBehind' /\ RegistryFresh' /\ StoreAgreesWithRegistry'
    BY DEF Ownership, LeftBehind, RegistryFresh, StoreAgreesWithRegistry,
           EndsWithConnection
<1>5. WillAtMostOnce'
    BY <1>1 DEF WillAtMostOnce
<1> QED
    BY <1>2, <1>3, <1>4, <1>5

\* Every step of every connection keeps the invariant.
LEMMA NextKeepsIInv == IInv /\ [Next]_vars => IInv'
<1> SUFFICES ASSUME IInv, [Next]_vars PROVE IInv'
    OBVIOUS
<1>1. /\ subs \in [Clients -> SUBSET Filters] /\ object \in [Conns -> ClientSession]
      /\ SameSessions(object)
    BY DEF IInv, TypeOK, SameSessions
<1>2. ASSUME NEW h \in Conns, NEW c \in Clients, NEW o \in ConnectOptions,
             NEW broken \in BOOLEAN, Connect(h, c, o, broken)
      PROVE  IInv'
    BY <1>2, ConnectKeepsIInv
<1>3. ASSUME NEW h \in Conns, NEW f \in Filters, NEW fails \in BOOLEAN,
             Subscribe(h, f, fails)
      PROVE  IInv'
  <2> DEFINE table == [subs EXCEPT ![cid[h]] = @ \cup {f}]
             objs == [object EXCEPT ![mine[h]].subs = @ \cup {f}]
             filters == object[mine[h]].subs \cup {f}
  <2>1. /\ pc[h] = "loop" /\ mine[h] # None /\ mine[h] \in Conns
        /\ object[mine[h]] \in ClientSession
      BY <1>3 DEF Subscribe, CanRead, IInv, TypeOK
  <2>2. table \in [Clients -> SUBSET Filters]
      BY <1>1
  <2>3. objs = WithFilters(h, filters)
      BY <2>1 DEF WithFilters
  <2>4. filters \in SUBSET Filters
      BY <2>1 DEF ClientSession
  <2>5. /\ IF fails THEN Finish(h, table, objs) ELSE Continue(h, table, objs)
        /\ UNCHANGED <<cid, mine, kick, willsSent, brought>>
      BY <1>3 DEF Subscribe
  <2> HIDE DEF table, objs, filters
  <2>6. objs \in [Conns -> ClientSession] /\ SameSessions(objs)
    <3>1. /\ WithFilters(h, filters) \in [Conns -> ClientSession]
          /\ SameSessions(WithFilters(h, filters))
        BY <2>1, <2>4, FiltersKeepSessions DEF IInv
    <3> QED
        BY <2>3, <3>1
  <2> QED
      BY <2>1, <2>2, <2>5, <2>6, FinishKeepsIInv, ContinueKeepsIInv
<1>4. ASSUME NEW h \in Conns, NEW f \in Filters, Unsubscribe(h, f)
      PROVE  IInv'
  <2> DEFINE table == [subs EXCEPT ![cid[h]] = @ \ {f}]
             objs == [object EXCEPT ![mine[h]].subs = @ \ {f}]
             filters == object[mine[h]].subs \ {f}
  <2>1. /\ pc[h] = "loop" /\ mine[h] # None /\ mine[h] \in Conns
        /\ object[mine[h]] \in ClientSession
      BY <1>4 DEF Unsubscribe, CanRead, IInv, TypeOK
  <2>2. table \in [Clients -> SUBSET Filters]
      BY <1>1
  <2>3. objs = WithFilters(h, filters)
      BY <2>1 DEF WithFilters
  <2>4. filters \in SUBSET Filters
      BY <2>1 DEF ClientSession
  <2>5. Continue(h, table, objs) /\ UNCHANGED <<cid, mine, kick, willsSent, brought>>
      BY <1>4 DEF Unsubscribe
  <2> HIDE DEF table, objs, filters
  <2>6. objs \in [Conns -> ClientSession] /\ SameSessions(objs)
    <3>1. /\ WithFilters(h, filters) \in [Conns -> ClientSession]
          /\ SameSessions(WithFilters(h, filters))
        BY <2>1, <2>4, FiltersKeepSessions DEF IInv
    <3> QED
        BY <2>3, <3>1
  <2> QED
      BY <2>1, <2>2, <2>5, <2>6, ContinueKeepsIInv
<1>5. ASSUME NEW h \in Conns, NEW clean \in BOOLEAN, Disconnect(h, clean)
      PROVE  IInv'
  <2>1. pc[h] = "loop" /\ cid[h] # None
      BY <1>5 DEF Disconnect, CanRead, IInv, TypeOK
  <2>2. /\ Teardown(h, clean, subs, object)
        /\ pc' = [pc EXCEPT ![h] = "disconnecting"]
        /\ transport' \in [Conns -> {"open", "unread", "closed"}]
        /\ UNCHANGED <<cid, mine, kick, willsSent, brought>>
      BY <1>5 DEF Disconnect, IInv, TypeOK
  <2> QED
      BY <1>1, <2>1, <2>2, TeardownKeepsIInv
<1>6. ASSUME NEW h \in Conns, DisconnectClosed(h) \/ LeaveLoop(h)
      PROVE  IInv'
    BY <1>1, <1>6, FinishKeepsIInv DEF DisconnectClosed, LeaveLoop
<1>7. ASSUME UNCHANGED vars
      PROVE  IInv'
    BY <1>7 DEF vars, IInv, TypeOK, Untouched, Ownership, LeftBehind,
               RegistryFresh, StoreAgreesWithRegistry, WillAtMostOnce,
               EndsWithConnection
<1> QED
    BY <1>2, <1>3, <1>4, <1>5, <1>6, <1>7, KickTaskKeepsIInv,
       LocalStepKeepsIInv, SendWillKeepsIInv DEF Next, Handler

-----------------------------------------------------------------------------
\* The invariant holds of every behaviour.
THEOREM Invariance == Spec => []IInv
<1>1. Init => IInv
    BY InitIInv
<1>2. IInv /\ [Next]_vars => IInv'
    BY NextKeepsIInv
<1> QED
    BY <1>1, <1>2, PTL DEF Spec

\* Every variable stays in its type, and a handler in the packet loop has an
\* identifier and a session.
THEOREM TypeCorrect == Spec => []TypeOK
<1>1. IInv => TypeOK
    BY DEF IInv
<1> QED
    BY <1>1, Invariance, PTL

\* route never finds a handler that was torn down or kicked, however many
\* connections share an identifier.
THEOREM RegistryStaysFresh == Spec => []RegistryFresh
<1>1. IInv => RegistryFresh
    BY DEF IInv
<1> QED
    BY <1>1, Invariance, PTL

\* The connected mark of a stored session and the registry always agree, and a
\* registered handler works on the stored session.
THEOREM StoreAgrees == Spec => []StoreAgreesWithRegistry
<1>1. IInv => StoreAgreesWithRegistry
    BY DEF IInv
<1> QED
    BY <1>1, Invariance, PTL

\* No interleaving of teardowns publishes the will of a session twice.
THEOREM WillsGoOutAtMostOnce == Spec => []WillAtMostOnce
<1>1. IInv => WillAtMostOnce
    BY DEF IInv
<1> QED
    BY <1>1, Invariance, PTL

\* When all connections are over, nothing of them is left behind.
THEOREM NothingIsLeaked == Spec => []NothingLeaks
<1>1. IInv => NothingLeaks
  <2> SUFFICES ASSUME IInv,
                      \A h \in Conns : pc[h] \in {"new", "first"} \/ Finished(h),
                      NEW c \in Clients
               PROVE  /\ clients[c] = None
                      /\ sessions[c] # None =>
                            /\ ~object[sessions[c]].connected
                            /\ ~object[sessions[c]].will
                            /\ object[sessions[c]].clean =>
                                  /\ object[sessions[c]].level = 5
                                  /\ object[sessions[c]].expires
      BY DEF NothingLeaks
  <2>1. clients[c] = None
      BY DEF IInv, RegistryFresh, TypeOK, Finished
  <2>2. sessions[c] # None => object[sessions[c]] \in ClientSession
      BY DEF IInv, TypeOK
  <2> QED
      BY <2>1, <2>2 DEF IInv, LeftBehind, StoreAgreesWithRegistry, ClientSession,
                        EndsWithConnection
<1> QED
    BY <1>1, Invariance, PTL

-----------------------------------------------------------------------------
(***************************************************************************)
(* Without overlapping connections of a client.                            *)
(***************************************************************************)
\* Of two connections of a client one is finished, and nobody is kicked.
Alone ==
    /\ \A h \in Conns : kick[h] = "no"
    /\ \A g, h \in Conns :
          g # h /\ cid[g] # None /\ cid[g] = cid[h] => pc[g] = "done" \/ pc[h] = "done"

\* A connection whose CONNECT was accepted is registered exactly until it is
\* torn down; in between it reads packets.
Registered ==
    \A h \in Conns :
        /\ pc[h] \in {"connack", "loop"} => clients[cid[h]] = h /\ parting[h] = "no"
        /\ pc[h] \in {"disconnecting", "final", "done"} /\ cid[h] # None => parting[h] # "no"
        /\ connected[h] => pc[h] = "loop"

\* A session is named by the connection that built it.
Built ==
    /\ \A h \in Conns : mine[h] # None => mine[mine[h]] = mine[h]
    /\ \A c \in Clients : sessions[c] # None => mine[sessions[c]] = sessions[c]

\* The will waits in the session for the end of the connection that brought it.
WillWaits ==
    \A h \in Conns : mine[h] = h => (object[h].will <=> brought[h] /\ parting[h] = "no")

SInv ==
    /\ Alone
    /\ Registered
    /\ Built
    /\ WillWaits
    /\ WillExactlyWhenUnclean
    /\ RestoredSubscriptions
    /\ NoOrphanRoutes

\* Initially no connection has done anything.
LEMMA InitSInv == Init => SInv
<1> SUFFICES ASSUME Init PROVE SInv
    OBVIOUS
<1> USE ConstantsAssumption DEF Init
<1>1. Alone /\ Registered /\ Built
    BY DEF Alone, Registered, Built
<1>2. WillWaits /\ WillExactlyWhenUnclean /\ RestoredSubscriptions /\ NoOrphanRoutes
    BY DEF WillWaits, WillExactlyWhenUnclean, RestoredSubscriptions, NoOrphanRoutes, Unbuilt
<1> QED
    BY <1>1, <1>2 DEF SInv

-----------------------------------------------------------------------------
(***************************************************************************)
(* A teardown by the loop or after a DISCONNECT.  What the step did before *)
(* concerns the filters of this client and this session only.              *)
(***************************************************************************)
OwnFilters(h, table, objs) ==
    /\ \A d \in Clients \ {cid[h]} : table[d] = subs[d]
    /\ \A s \in Conns \ {mine[h]} : objs[s] = object[s]
    /\ pc[h] = "disconnecting" => table = subs

\* No other handler of the client is registered, and the session in the store
\* is the handler's own until its first teardown, which leaves no will.
LEMMA TornDown ==
    ASSUME IInv, SInv, NEW h \in Conns, pc[h] \in {"loop", "disconnecting"}
    PROVE  /\ cid[h] \in Clients /\ mine[h] \in Conns
           /\ pc[h] = "loop" =>
                 /\ clients[cid[h]] = h /\ parting[h] = "no"
                 /\ sessions[cid[h]] = mine[h]
           /\ pc[h] = "disconnecting" =>
                 /\ clients[cid[h]] = None /\ parting[h] # "no"
                 /\ sessions[cid[h]] # None =>
                       /\ ~object[sessions[cid[h]]].will
                       /\ ~EndsWithConnection(object[sessions[cid[h]]])
<1> USE ConstantsAssumption DEF IInv, SInv
<1>1. /\ cid[h] \in Clients /\ mine[h] \in Conns
      /\ clients[cid[h]] \in Conns \cup {None}
    BY DEF TypeOK
<1>2. CASE pc[h] = "loop"
    BY <1>1, <1>2 DEF Registered, StoreAgreesWithRegistry
<1>3. CASE pc[h] = "disconnecting"
    <2>1. clients[cid[h]] = None
        BY <1>1, <1>3 DEF Alone, RegistryFresh
    <2> QED
        BY <1>1, <1>3, <2>1 DEF Registered, LeftBehind
<1> QED
    BY <1>1, <1>2, <1>3

LEMMA TeardownKeepsSInv ==
    ASSUME IInv, SInv, NEW h \in Conns, pc[h] \in {"loop", "disconnecting"},
           NEW clean \in BOOLEAN,
           NEW table \in [Clients -> SUBSET Filters],
           NEW objs \in [Conns -> ClientSession],
           SameSessions(objs), OwnFilters(h, table, objs),
           Teardown(h, clean, table, objs),
           NEW place \in {"disconnecting", "final"},
           pc' = [pc EXCEPT ![h] = place],
           UNCHANGED <<cid, mine, kick, willsSent, brought>>
    PROVE  SInv'
<1> DEFINE c == cid[h]
           s == sessions[c]
<1> USE ConstantsAssumption DEF SInv
<1>1. /\ c \in Clients /\ mine[h] \in Conns
      /\ s \in Conns \cup {None}
      /\ s # None => cid[s] = c /\ mine[s] = s
      /\ cid[mine[h]] = c
      /\ h \notin {None} /\ c # None
    BY DEF IInv, TypeOK, Ownership, Built
<1>2. /\ pc[h] = "loop" => clients[c] = h /\ parting[h] = "no" /\ s = mine[h]
      /\ pc[h] = "disconnecting" =>
            /\ clients[c] = None /\ parting[h] # "no"
            /\ s # None => ~object[s].will /\ ~EndsWithConnection(object[s])
    BY TornDown
<1>3. /\ connected' = [connected EXCEPT ![h] = FALSE]
      /\ clients' = [clients EXCEPT ![c] = None]
      /\ object' = IF s # None THEN Disconnected(objs, s) ELSE objs
      /\ sessions' = IF s # None /\ EndsWithConnection(objs[s])
                     THEN [sessions EXCEPT ![c] = None] ELSE sessions
      /\ willsDue' = IF s # None /\ objs[s].will /\ ~clean
                     THEN [willsDue EXCEPT ![s] = @ + 1] ELSE willsDue
      /\ subs' = IF objs[mine[h]].clean THEN [table EXCEPT ![c] = {}] ELSE table
      /\ parting' = [parting EXCEPT ![h] =
                        IF @ # "no" THEN @
                        ELSE IF clean THEN "clean" ELSE "unclean"]
    BY DEF Teardown, NotConnected, Unregistered, WillGoesOut, RoutesAfter
<1>4. \A g \in Conns \ {h} : cid[g] = c => pc[g] = "done"
    <2> TAKE g \in Conns \ {h}
    <2> QED
        BY <1>1 DEF Alone
<1>5. /\ \A g \in Conns \ {h} : /\ pc'[g] = pc[g] /\ parting'[g] = parting[g]
                                 /\ connected'[g] = connected[g]
      /\ pc'[h] = place /\ parting'[h] # "no" /\ ~connected'[h]
      /\ clients'[c] = None /\ \A d \in Clients \ {c} : clients'[d] = clients[d]
    BY <1>1, <1>3 DEF IInv, TypeOK
<1>6. Alone'
    BY <1>4, <1>5 DEF Alone
<1>7. Registered'
    <2> SUFFICES ASSUME NEW g \in Conns
                 PROVE  /\ pc'[g] \in {"connack", "loop"} => clients'[cid[g]] = g /\ parting'[g] = "no"
                        /\ pc'[g] \in {"disconnecting", "final", "done"} /\ cid[g] # None
                              => parting'[g] # "no"
                        /\ connected'[g] => pc'[g] = "loop"
        BY DEF Registered
    <2>1. CASE g = h
        BY <1>5, <2>1
    <2>2. CASE g # h
        <3>1. pc[g] \in {"connack", "loop"} => cid[g] \in Clients \ {c}
            BY <1>4, <2>2 DEF IInv, TypeOK
        <3> QED
            BY <1>5, <2>2, <3>1 DEF Registered
    <2> QED
        BY <2>1, <2>2
<1>8. Built'
    BY <1>1, <1>3 DEF Built, IInv, TypeOK
<1>9. /\ \A t \in Conns : t # s => object'[t] = objs[t]
      /\ s # None => ~object'[s].will
    BY <1>1, <1>3, DisconnectedObjects
<1>10. WillWaits' /\ WillExactlyWhenUnclean'
    <2> SUFFICES ASSUME NEW g \in Conns, mine[g] = g
                 PROVE  /\ object'[g].will <=> brought[g] /\ parting'[g] = "no"
                        /\ willsDue'[g] + willsSent[g] = 1 <=>
                              brought[g] /\ parting'[g] = "unclean"
        BY DEF WillWaits, WillExactlyWhenUnclean
    <2>1. /\ willsDue[g] \in Nat /\ willsSent[g] \in Nat /\ willsDue[g] + willsSent[g] <= 1
          /\ object[g].will => willsDue[g] + willsSent[g] = 0
          /\ objs[g].will = object[g].will
          /\ s # None => objs[s].will = object[s].will
        BY <1>1 DEF IInv, TypeOK, WillAtMostOnce, SameSessions
    <2>2. /\ object[g].will <=> brought[g] /\ parting[g] = "no"
          /\ willsDue[g] + willsSent[g] = 1 <=> brought[g] /\ parting[g] = "unclean"
        BY DEF WillWaits, WillExactlyWhenUnclean
    <2>3. willsDue'[g] = IF g = s /\ object[g].will /\ ~clean
                         THEN willsDue[g] + 1 ELSE willsDue[g]
        BY <1>1, <1>3, <2>1 DEF IInv, TypeOK
    <2>4. object'[g].will <=> object[g].will /\ g # s
        BY <1>1, <1>9, <2>1
    <2>5. CASE g # h
        <3>1. g = s => parting[g] # "no"
            BY <1>1, <1>4, <2>5 DEF Registered
        <3> QED
            BY <1>5, <2>2, <2>3, <2>4, <2>5, <3>1
    <2>6. CASE g = h /\ pc[h] = "loop"
        <3>1. g = s /\ parting[g] = "no"
            BY <1>2, <2>6
        <3>2. parting'[g] = IF clean THEN "clean" ELSE "unclean"
            BY <1>3, <2>6, <3>1 DEF IInv, TypeOK
        <3> QED
            BY <2>1, <2>2, <2>3, <2>4, <3>1, <3>2
    <2>7. CASE g = h /\ pc[h] = "disconnecting"
        <3>1. parting'[g] = parting[g] /\ parting[g] # "no"
            BY <1>2, <1>3, <2>7 DEF IInv, TypeOK
        <3> QED
            BY <2>2, <2>3, <2>4, <3>1
    <2> QED
        BY <2>5, <2>6, <2>7
<1>11. RestoredSubscriptions'
    <2> SUFFICES ASSUME NEW d \in Clients, clients'[d] # None
                 PROVE  object'[mine[clients'[d]]].subs \subseteq subs'[d]
        BY DEF RestoredSubscriptions
    <2>1. d # c /\ clients'[d] = clients[d]
        BY <1>5
    <2>2. /\ clients[d] \in Conns /\ mine[clients[d]] \in Conns
          /\ cid[mine[clients[d]]] = d
        BY <2>1 DEF IInv, TypeOK, RegistryFresh, Ownership
    <2>3. object'[mine[clients[d]]] = object[mine[clients[d]]]
        BY <1>1, <1>9, <2>1, <2>2 DEF OwnFilters
    <2>4. subs'[d] = subs[d]
        BY <1>3, <2>1 DEF OwnFilters
    <2> QED
        BY <2>1, <2>3, <2>4 DEF RestoredSubscriptions
<1>12. NoOrphanRoutes'
    <2> SUFFICES ASSUME NEW d \in Clients, subs'[d] # {} PROVE sessions'[d] # None
        BY DEF NoOrphanRoutes
    <2>1. CASE d # c
        <3>1. subs'[d] = subs[d] /\ sessions'[d] = sessions[d]
            BY <1>1, <1>3, <2>1 DEF OwnFilters, IInv, TypeOK
        <3> QED
            BY <3>1 DEF NoOrphanRoutes
    <2>2. CASE d = c /\ pc[h] = "loop"
        <3>1. s = mine[h] /\ ~objs[mine[h]].clean
            BY <1>1, <1>2, <1>3, <2>2
        <3> QED
            BY <1>1, <1>3, <2>2, <3>1 DEF EndsWithConnection
    <2>3. CASE d = c /\ pc[h] = "disconnecting"
        <3>1. subs[c] # {}
            BY <1>1, <1>3, <2>3 DEF OwnFilters
        <3>2. s # None
            BY <1>1, <3>1 DEF NoOrphanRoutes
        <3>3. ~EndsWithConnection(objs[s])
            BY <1>1, <1>2, <2>3, <3>2 DEF SameSessions, EndsWithConnection
        <3> QED
            BY <1>3, <2>3, <3>2, <3>3
    <2> QED
        BY <2>1, <2>2, <2>3
<1> QED
    BY <1>6, <1>7, <1>8, <1>10, <1>11, <1>12

\* The loop goes on with filters added or removed.
LEMMA FiltersKeepSInv ==
    ASSUME IInv, SInv, NEW h \in Conns, pc[h] = "loop",
           NEW table \in [Clients -> SUBSET Filters],
           NEW objs \in [Conns -> ClientSession],
           SameSessions(objs), OwnFilters(h, table, objs),
           objs[mine[h]].subs \subseteq table[cid[h]],
           subs' = table, object' = objs,
           UNCHANGED <<pc, transport, connected, cid, mine, kick, clients,
                       sessions, willsDue, willsSent, brought, parting>>
    PROVE  SInv'
<1> USE ConstantsAssumption DEF SInv
<1>1. /\ cid[h] \in Clients /\ mine[h] \in Conns /\ cid[mine[h]] = cid[h]
      /\ clients[cid[h]] = h /\ sessions[cid[h]] = mine[h]
    BY TornDown DEF IInv, Ownership
<1>2. Alone' /\ Registered' /\ Built'
    BY DEF Alone, Registered, Built
<1>3. WillWaits' /\ WillExactlyWhenUnclean'
    BY DEF WillWaits, WillExactlyWhenUnclean, SameSessions
<1>4. RestoredSubscriptions'
    <2> SUFFICES ASSUME NEW d \in Clients, clients[d] # None
                 PROVE  objs[mine[clients[d]]].subs \subseteq table[d]
        BY DEF RestoredSubscriptions
    <2>1. CASE d = cid[h]
        BY <1>1, <2>1
    <2>2. CASE d # cid[h]
        <3>1. mine[clients[d]] \in Conns \ {mine[h]}
            BY <1>1, <2>2 DEF IInv, TypeOK, RegistryFresh, Ownership
        <3> QED
            BY <2>2, <3>1 DEF OwnFilters, RestoredSubscriptions
    <2> QED
        BY <2>1, <2>2
<1>5. NoOrphanRoutes'
    BY <1>1 DEF NoOrphanRoutes, OwnFilters
<1> QED
    BY <1>2, <1>3, <1>4, <1>5

\* What both packet handlers for filters come to.
LEMMA FilterHandlersKeepSInv ==
    ASSUME IInv, SInv, NEW h \in Conns, pc[h] = "loop",
           NEW table \in [Clients -> SUBSET Filters],
           NEW objs \in [Conns -> ClientSession],
           SameSessions(objs), OwnFilters(h, table, objs),
           objs[mine[h]].subs \subseteq table[cid[h]],
           Finish(h, table, objs) \/ Continue(h, table, objs),
           UNCHANGED <<cid, mine, kick, willsSent, brought>>
    PROVE  SInv'
<1>1. CASE Finish(h, table, objs)
    BY <1>1, TeardownKeepsSInv DEF Finish
<1>2. CASE connected[h] /\ Continue(h, table, objs)
    BY <1>2, FiltersKeepSInv DEF Continue
<1> QED
    BY <1>1, <1>2 DEF Continue

\* CONNECT: nobody is registered, so nobody is kicked.
LEMMA ConnectKeepsSInv ==
    ASSUME ~Overlap, IInv, SInv,
           NEW h \in Conns, NEW c \in Clients, NEW o \in ConnectOptions,
           NEW broken \in BOOLEAN, Connect(h, c, o, broken)
    PROVE  SInv'
<1> DEFINE s == IF Resumes(c, o) THEN sessions[c] ELSE h
<1> USE ConstantsAssumption DEF SInv
<1>1. /\ pc[h] = "first" /\ c # None
      /\ cid[h] = None /\ mine[h] = None /\ kick[h] = "no" /\ parting[h] = "no"
      /\ willsDue[h] = 0 /\ willsSent[h] = 0
      /\ \A g \in Conns : cid[g] = c => pc[g] = "done"
    BY DEF Connect, MayConnect, IInv, Untouched
<1>2. clients[c] = None
    BY <1>1 DEF IInv, TypeOK, RegistryFresh
<1>3. /\ s \in Conns
      /\ s # h => s = sessions[c] /\ cid[s] = c /\ mine[s] = s /\ pc[s] = "done"
      /\ Resumes(c, o) => s # h
    BY <1>1 DEF Resumes, IInv, Ownership, TypeOK, Built
<1>4. /\ pc' = [pc EXCEPT ![h] = IF broken THEN "connack" ELSE "loop"]
      /\ cid' = [cid EXCEPT ![h] = c]
      /\ mine' = [mine EXCEPT ![h] = s]
      /\ connected' = [g \in Conns |-> IF g = h THEN ~broken
                                       ELSE connected[g] /\ g # clients[c]]
      /\ kick' = kick
      /\ sessions' = [sessions EXCEPT ![c] = s]
      /\ clients' = [clients EXCEPT ![c] = h]
      /\ subs' = [subs EXCEPT ![c] = @ \cup object'[s].subs]
      /\ brought' = [brought EXCEPT ![h] = o.will]
      /\ UNCHANGED <<willsDue, willsSent, parting>>
    BY <1>2 DEF Connect, Restore, Kicks
<1>5. /\ \A t \in Conns \ {s} : object'[t] = object[t]
      /\ object'[s].will = IF s = h THEN o.will ELSE object[s].will
    <2>1. CASE Resumes(c, o)
        <3> DEFINE d == [object[s] EXCEPT !.connected = TRUE]
        <3>1. object' = [object EXCEPT ![s] = d]
            BY <2>1 DEF Connect, Resumed
        <3>2. d.will = object[s].will
            <4>1. object[s] \in ClientSession
                BY <1>3 DEF IInv, TypeOK
            <4> QED
                BY <4>1 DEF ClientSession
        <3> HIDE DEF d
        <3> QED
            BY <1>3, <2>1, <3>1, <3>2 DEF IInv, TypeOK
    <2>2. CASE ~Resumes(c, o)
        <3>1. object' = [object EXCEPT ![h] = NewSession(o)] /\ s = h
            BY <2>2 DEF Connect
        <3>2. NewSession(o).will = o.will
            BY DEF NewSession
        <3> QED
            BY <3>1, <3>2 DEF IInv, TypeOK
    <2> QED
        BY <2>1, <2>2
<1> HIDE DEF s
<1>6. /\ \A g \in Conns \ {h} : /\ pc'[g] = pc[g] /\ cid'[g] = cid[g] /\ mine'[g] = mine[g]
                                 /\ brought'[g] = brought[g] /\ connected'[g] = connected[g]
      /\ pc'[h] \in {"connack", "loop"} /\ cid'[h] = c /\ mine'[h] = s
      /\ brought'[h] = o.will /\ (connected'[h] => pc'[h] = "loop")
      /\ clients'[c] = h /\ sessions'[c] = s
      /\ \A d \in Clients \ {c} : clients'[d] = clients[d] /\ sessions'[d] = sessions[d]
                                    /\ subs'[d] = subs[d]
    BY <1>2, <1>4, ConstantsAssumption DEF IInv, TypeOK
<1>7. Alone'
    BY <1>1, <1>4, <1>6 DEF Alone
<1>8. Registered'
    <2> SUFFICES ASSUME NEW g \in Conns \ {h}
                 PROVE  /\ pc[g] \in {"connack", "loop"} => clients'[cid[g]] = g /\ parting[g] = "no"
                        /\ pc[g] \in {"disconnecting", "final", "done"} /\ cid[g] # None
                              => parting[g] # "no"
                        /\ connected[g] => pc[g] = "loop"
        BY <1>1, <1>4, <1>6 DEF Registered
    <2>1. pc[g] \in {"connack", "loop"} => cid[g] \in Clients \ {c}
        BY <1>1 DEF IInv, TypeOK
    <2> QED
        BY <1>6, <2>1 DEF Registered
<1>9. Built'
    <2>1. \A g \in Conns \ {h} : mine[g] # None => mine[g] \in Conns \ {h} /\ mine[mine[g]] = mine[g]
        BY <1>1 DEF IInv, TypeOK, Built
    <2>2. \A d \in Clients \ {c} : sessions[d] # None =>
              sessions[d] \in Conns \ {h} /\ mine[sessions[d]] = sessions[d]
        BY <1>1 DEF IInv, TypeOK, Built
    <2>3. mine'[s] = s
        BY <1>3, <1>6
    <2> QED
        BY <1>6, <2>1, <2>2, <2>3 DEF Built
<1>10. WillWaits' /\ WillExactlyWhenUnclean'
    <2> SUFFICES ASSUME NEW g \in Conns, mine'[g] = g
                 PROVE  /\ object'[g].will <=> brought'[g] /\ parting[g] = "no"
                        /\ willsDue[g] + willsSent[g] = 1 <=>
                              brought'[g] /\ parting[g] = "unclean"
        BY <1>4 DEF WillWaits, WillExactlyWhenUnclean
    <2>1. CASE g = h
        BY <1>1, <1>5, <1>6, <2>1
    <2>2. CASE g # h
        <3>1. object'[g].will = object[g].will
            BY <1>5, <2>2
        <3> QED
            BY <1>6, <2>2, <3>1 DEF WillWaits, WillExactlyWhenUnclean
    <2> QED
        BY <2>1, <2>2
<1>11. RestoredSubscriptions'
    <2> SUFFICES ASSUME NEW d \in Clients, clients'[d] # None
                 PROVE  object'[mine'[clients'[d]]].subs \subseteq subs'[d]
        BY DEF RestoredSubscriptions
    <2>1. CASE d = c
        BY <1>4, <1>6, <2>1 DEF IInv, TypeOK
    <2>2. CASE d # c
        <3>1. /\ clients[d] \in Conns \ {h}
              /\ mine[clients[d]] \in Conns \ {s}
            BY <1>1, <1>3, <1>6, <2>2 DEF IInv, TypeOK, RegistryFresh, Ownership
        <3> QED
            BY <1>5, <1>6, <2>2, <3>1 DEF RestoredSubscriptions
    <2> QED
        BY <2>1, <2>2
<1>12. NoOrphanRoutes'
    BY <1>3, <1>6 DEF NoOrphanRoutes
<1> QED
    BY <1>7, <1>8, <1>9, <1>10, <1>11, <1>12

\* The steps that touch neither the registry, the store nor the routes.
LEMMA LocalStepKeepsSInv ==
    ASSUME IInv, SInv, NEW h \in Conns,
           \/ Accept(h) \/ Reject(h) \/ Connacked(h) \/ SendFails(h) \/ Closed(h)
    PROVE  SInv'
<1> USE DEF SInv
<1>1. /\ UNCHANGED <<cid, mine, kick, clients, sessions, object, subs, willsDue,
                     willsSent, brought, parting>>
      /\ \A g \in Conns \ {h} : pc'[g] = pc[g] /\ connected'[g] = connected[g]
      /\ \/ pc[h] = "new" /\ pc'[h] = "first" /\ connected'[h] = connected[h]
         \/ pc[h] = "first" /\ pc'[h] = "final" /\ connected'[h] = connected[h]
         \/ pc[h] = "connack" /\ pc'[h] = "loop" /\ connected'[h]
         \/ pc[h] = "loop" /\ pc'[h] = "loop" /\ ~connected'[h]
         \/ pc[h] = "final" /\ pc'[h] = "done" /\ connected'[h] = connected[h]
    BY DEF Accept, Reject, Connacked, SendFails, Closed, IInv, TypeOK
<1>2. pc[h] \in {"new", "first"} => cid[h] = None
    BY DEF IInv, Untouched
<1>3. Alone' /\ Registered' /\ Built'
    BY <1>1, <1>2 DEF Alone, Registered, Built
<1>4. WillWaits' /\ WillExactlyWhenUnclean' /\ RestoredSubscriptions' /\ NoOrphanRoutes'
    BY <1>1 DEF WillWaits, WillExactlyWhenUnclean, RestoredSubscriptions, NoOrphanRoutes
<1> QED
    BY <1>3, <1>4

LEMMA SendWillKeepsSInv ==
    ASSUME IInv, SInv, NEW s \in Conns, SendWill(s)
    PROVE  SInv'
<1> USE DEF SInv, SendWill
<1>1. \A t \in Conns : willsDue'[t] + willsSent'[t] = willsDue[t] + willsSent[t]
    BY DEF IInv, TypeOK
<1>2. WillExactlyWhenUnclean'
    BY <1>1 DEF WillExactlyWhenUnclean
<1>3. Alone' /\ Registered' /\ Built' /\ WillWaits'
    BY DEF Alone, Registered, Built, WillWaits
<1>4. RestoredSubscriptions' /\ NoOrphanRoutes'
    BY DEF RestoredSubscriptions, NoOrphanRoutes
<1> QED
    BY <1>2, <1>3, <1>4

\* What SUBSCRIBE and UNSUBSCRIBE make of the table and of the session.
LEMMA ChangedFilters ==
    ASSUME IInv, SInv, NEW h \in Conns, pc[h] = "loop", NEW f \in Filters,
           NEW filters, NEW routes,
           \/ filters = object[mine[h]].subs \cup {f} /\ routes = subs[cid[h]] \cup {f}
           \/ filters = object[mine[h]].subs \ {f} /\ routes = subs[cid[h]] \ {f}
    PROVE  LET table == [subs EXCEPT ![cid[h]] = routes]
               objs == WithFilters(h, filters)
           IN  /\ table \in [Clients -> SUBSET Filters]
               /\ objs \in [Conns -> ClientSession]
               /\ SameSessions(objs) /\ OwnFilters(h, table, objs)
               /\ objs[mine[h]].subs \subseteq table[cid[h]]
<1> DEFINE table == [subs EXCEPT ![cid[h]] = routes]
           objs == WithFilters(h, filters)
<1>1. /\ cid[h] \in Clients /\ mine[h] \in Conns /\ mine[h] # None
      /\ clients[cid[h]] = h /\ clients[cid[h]] # None
      /\ subs \in [Clients -> SUBSET Filters] /\ object \in [Conns -> ClientSession]
    BY TornDown, ConstantsAssumption DEF IInv, TypeOK
<1>2. object[mine[h]].subs \subseteq subs[cid[h]]
    BY <1>1 DEF SInv, RestoredSubscriptions
<1>3. object[mine[h]] \in ClientSession /\ object[mine[h]].subs \in SUBSET Filters
      /\ subs[cid[h]] \in SUBSET Filters
    BY <1>1 DEF ClientSession
<1>4. filters \in SUBSET Filters /\ routes \in SUBSET Filters /\ filters \subseteq routes
    BY <1>2, <1>3
<1>5. table \in [Clients -> SUBSET Filters] /\ table[cid[h]] = routes
    BY <1>1, <1>4
<1>6. objs \in [Conns -> ClientSession] /\ SameSessions(objs)
    BY <1>1, <1>4, FiltersKeepSessions DEF IInv
<1>7. objs[mine[h]].subs = filters /\ \A s \in Conns \ {mine[h]} : objs[s] = object[s]
    BY <1>1, <1>3 DEF WithFilters, ClientSession
<1>8. OwnFilters(h, table, objs)
    BY <1>1, <1>7 DEF OwnFilters
<1> QED
    BY <1>4, <1>5, <1>6, <1>7, <1>8

\* Every step of every connection keeps the invariant.
LEMMA NextKeepsSInv ==
    ASSUME ~Overlap, IInv, SInv, [Next]_vars
    PROVE  SInv'
<1>1. /\ subs \in [Clients -> SUBSET Filters] /\ object \in [Conns -> ClientSession]
      /\ SameSessions(object)
      /\ \A h \in Conns : OwnFilters(h, subs, object)
    BY DEF IInv, TypeOK, SameSessions, OwnFilters
<1>2. ASSUME NEW h \in Conns, NEW f \in Filters, NEW fails \in BOOLEAN, Subscribe(h, f, fails)
      PROVE  SInv'
    <2> DEFINE filters == object[mine[h]].subs \cup {f}
               routes == subs[cid[h]] \cup {f}
               table == [subs EXCEPT ![cid[h]] = routes]
               objs == WithFilters(h, filters)
    <2>1. pc[h] = "loop" /\ UNCHANGED <<cid, mine, kick, willsSent, brought>>
        BY <1>2 DEF Subscribe, CanRead
    <2>2. Finish(h, table, objs) \/ Continue(h, table, objs)
        <3>1. /\ table = [subs EXCEPT ![cid[h]] = @ \cup {f}]
              /\ objs = [object EXCEPT ![mine[h]].subs = @ \cup {f}]
            BY <1>1, <2>1, TornDown DEF WithFilters
        <3> QED
            BY <1>2, <3>1 DEF Subscribe
    <2>3. /\ table \in [Clients -> SUBSET Filters]
          /\ objs \in [Conns -> ClientSession]
          /\ SameSessions(objs) /\ OwnFilters(h, table, objs)
          /\ objs[mine[h]].subs \subseteq table[cid[h]]
        BY <2>1, ChangedFilters
    <2> HIDE DEF table, objs
    <2> QED
        BY <2>1, <2>2, <2>3, FilterHandlersKeepSInv
<1>3. ASSUME NEW h \in Conns, NEW f \in Filters, Unsubscribe(h, f)
      PROVE  SInv'
    <2> DEFINE filters == object[mine[h]].subs \ {f}
               routes == subs[cid[h]] \ {f}
               table == [subs EXCEPT ![cid[h]] = routes]
               objs == WithFilters(h, filters)
    <2>1. pc[h] = "loop" /\ UNCHANGED <<cid, mine, kick, willsSent, brought>>
        BY <1>3 DEF Unsubscribe, CanRead
    <2>2. Continue(h, table, objs)
        <3>1. /\ table = [subs EXCEPT ![cid[h]] = @ \ {f}]
              /\ objs = [object EXCEPT ![mine[h]].subs = @ \ {f}]
            BY <1>1, <2>1, TornDown DEF WithFilters
        <3> QED
            BY <1>3, <3>1 DEF Unsubscribe
    <2>3. /\ table \in [Clients -> SUBSET Filters]
          /\ objs \in [Conns -> ClientSession]
          /\ SameSessions(objs) /\ OwnFilters(h, table, objs)
          /\ objs[mine[h]].subs \subseteq table[cid[h]]
        BY <2>1, ChangedFilters
    <2> HIDE DEF table, objs
    <2> QED
        BY <2>1, <2>2, <2>3, FilterHandlersKeepSInv
<1>4. ASSUME NEW h \in Conns, NEW clean \in BOOLEAN, Disconnect(h, clean)
      PROVE  SInv'
    <2>1. /\ pc[h] = "loop" /\ pc' = [pc EXCEPT ![h] = "disconnecting"]
          /\ Teardown(h, clean, subs, object)
          /\ UNCHANGED <<cid, mine, kick, willsSent, brought>>
        BY <1>4 DEF Disconnect, CanRead
    <2> QED
        BY <1>1, <2>1, TeardownKeepsSInv
<1>5. ASSUME NEW h \in Conns, DisconnectClosed(h) \/ LeaveLoop(h)
      PROVE  SInv'
    <2>1. /\ pc[h] \in {"loop", "disconnecting"} /\ pc' = [pc EXCEPT ![h] = "final"]
          /\ Teardown(h, FALSE, subs, object)
          /\ UNCHANGED <<cid, mine, kick, willsSent, brought>>
        BY <1>5 DEF DisconnectClosed, LeaveLoop, Finish
    <2> QED
        BY <1>1, <2>1, TeardownKeepsSInv
<1>6. ASSUME NEW h \in Conns, KickTask(h) PROVE FALSE
    BY <1>6 DEF KickTask, SInv, Alone
<1>7. CASE UNCHANGED vars
    BY <1>7 DEF vars, SInv, Alone, Registered, Built, WillWaits, WillExactlyWhenUnclean,
               RestoredSubscriptions, NoOrphanRoutes
<1> QED
    BY <1>2, <1>3, <1>4, <1>5, <1>6, <1>7, ConnectKeepsSInv, LocalStepKeepsSInv,
       SendWillKeepsSInv DEF Next, Handler

-----------------------------------------------------------------------------
\* The invariant holds of every behaviour without overlapping connections.
THEOREM SequentialInvariance == ASSUME ~Overlap PROVE Spec => []SInv
<1>1. IInv /\ SInv /\ [Next]_vars => SInv'
    BY NextKeepsSInv
<1> QED
    BY <1>1, InitSInv, Invariance, PTL DEF Spec

\* A handler that serves a client is the one that route finds.
THEOREM ConnectedHandlersAreRegistered ==
    ASSUME ~Overlap PROVE Spec => []ConnectedIsRegistered
<1>1. SInv => ConnectedIsRegistered
    BY DEF SInv, Registered, ConnectedIsRegistered
<1> QED
    BY <1>1, SequentialInvariance, PTL

\* The will goes out if and only if the connection that brought it ended
\* uncleanly, although every DISCONNECT runs two teardowns.
THEOREM WillsAreExact == ASSUME ~Overlap PROVE Spec => []WillExactlyWhenUnclean
<1>1. SInv => WillExactlyWhenUnclean
    BY DEF SInv
<1> QED
    BY <1>1, SequentialInvariance, PTL

\* A registered client is routed by every filter of its session.
THEOREM SubscriptionsAreRestored == ASSUME ~Overlap PROVE Spec => []RestoredSubscriptions
<1>1. SInv => RestoredSubscriptions
    BY DEF SInv
<1> QED
    BY <1>1, SequentialInvariance, PTL

\* No filter outlives the stored session of its client.
THEOREM RoutesHaveSessions == ASSUME ~Overlap PROVE Spec => []NoOrphanRoutes
<1>1. SInv => NoOrphanRoutes
    BY DEF SInv
<1> QED
    BY <1>1, SequentialInvariance, PTL

-----------------------------------------------------------------------------
(***************************************************************************)
(* The refinement of SessionService.                                       *)
(***************************************************************************)
\* What a DISCONNECT leaves to the second teardown: no routes of a clean
\* session.  A connection without an identifier owes no will.
Settled ==
    \A h \in Conns :
        /\ pc[h] = "disconnecting" /\ object[mine[h]].clean => subs[cid[h]] = {}
        /\ cid[h] = None => willsDue[h] = 0

ServiceInv == IInv /\ SInv /\ Settled

\* The session a CONNECT asks for, and a session object, as the service has it.
Requested(o) ==
    [level |-> o.level, clean |-> o.clean, expires |-> o.expires,
     will |-> o.will, subs |-> {}]

Seen(s) ==
    [level |-> s.level, clean |-> s.clean, expires |-> s.expires,
     will |-> s.will, subs |-> s.subs]

\* The variables of SessionService.
Attached == {c \in Clients : clients[c] # None}
Stored == [c \in Clients |-> SessionOf(c)]
Due == [c \in Clients |-> Cardinality(WillsOf(c, willsDue))]
WillsGone == [c \in Clients |-> Cardinality(WillsOf(c, willsSent))]

-----------------------------------------------------------------------------
\* Their values after a step.
LEMMA Mapped ==
    /\ Attached' = {c \in Clients : clients'[c] # None}
    /\ Stored = [c \in Clients |-> IF sessions[c] = None THEN None
                                  ELSE Seen(object[sessions[c]])]
    /\ Stored' = [c \in Clients |-> IF sessions'[c] = None THEN None
                                   ELSE Seen(object'[sessions'[c]])]
    /\ Due = [c \in Clients |-> Cardinality({s \in Conns : cid[s] = c /\ willsDue[s] > 0})]
    /\ Due' = [c \in Clients |-> Cardinality({s \in Conns : cid'[s] = c /\ willsDue'[s] > 0})]
    /\ WillsGone = [c \in Clients |-> Cardinality({s \in Conns : cid[s] = c /\ willsSent[s] > 0})]
    /\ WillsGone' = [c \in Clients |-> Cardinality({s \in Conns : cid'[s] = c /\ willsSent'[s] > 0})]
<1>1. /\ Attached' = {c \in Clients : clients'[c] # None}
      /\ Stored = [c \in Clients |-> IF sessions[c] = None THEN None
                                    ELSE Seen(object[sessions[c]])]
      /\ Stored' = [c \in Clients |-> IF sessions'[c] = None THEN None
                                     ELSE Seen(object'[sessions'[c]])]
    BY DEF Attached, Stored, SessionOf, Seen
<1>2. /\ Due = [c \in Clients |-> Cardinality({s \in Conns : cid[s] = c /\ willsDue[s] > 0})]
      /\ Due' = [c \in Clients |-> Cardinality({s \in Conns : cid'[s] = c /\ willsDue'[s] > 0})]
    BY DEF Due, WillsOf
<1>3. /\ WillsGone = [c \in Clients |-> Cardinality({s \in Conns : cid[s] = c /\ willsSent[s] > 0})]
      /\ WillsGone' = [c \in Clients |-> Cardinality({s \in Conns : cid'[s] = c /\ willsSent'[s] > 0})]
    BY DEF WillsGone, WillsOf
<1> QED
    BY <1>1, <1>2, <1>3

\* The service and its actions under the mapping.
LEMMA ServiceVars ==
    /\ Service!service = <<Attached, Stored, subs, Due, WillsGone>>
    /\ Service!service' = <<Attached', Stored', subs', Due', WillsGone'>>
BY DEF Service!service, Attached, Stored, Due, WillsGone

LEMMA AttachMapped ==
    ASSUME NEW c \in Clients, NEW o \in Service!Fresh,
           c \notin Attached,
           Attached' = Attached \cup {c},
           \/ /\ Stored[c] # None /\ Stored[c].level = o.level /\ ~o.clean
              /\ Stored' = Stored
              /\ subs' = [subs EXCEPT ![c] = @ \cup Stored[c].subs]
           \/ /\ Stored[c] = None \/ Stored[c].level # o.level \/ o.clean
              /\ Stored' = [Stored EXCEPT ![c] = o]
              /\ subs' = subs,
           Due' = Due, WillsGone' = WillsGone
    PROVE  Service!Attach(c, o)
BY Zenon DEF Service!Attach, Attached, Stored, Due, WillsGone

LEMMA ReleaseMapped ==
    ASSUME NEW c \in Clients, NEW s, NEW r, NEW clean \in BOOLEAN,
           Attached' = Attached \ {c},
           Stored' = [Stored EXCEPT ![c] = IF ~s.clean \/ (s.level = 5 /\ s.expires)
                                           THEN [s EXCEPT !.will = FALSE] ELSE None],
           subs' = [subs EXCEPT ![c] = IF s.clean THEN {} ELSE r],
           Due' = [Due EXCEPT ![c] = IF s.will /\ ~clean THEN @ + 1 ELSE @],
           WillsGone' = WillsGone
    PROVE  Service!Release(c, s, r, clean)
BY Zenon DEF Service!Release, Service!Persistent, Attached, Stored, Due, WillsGone

LEMMA PublishWillMapped ==
    ASSUME NEW c \in Clients,
           Due[c] > 0,
           Due' = [Due EXCEPT ![c] = @ - 1],
           WillsGone' = [WillsGone EXCEPT ![c] = @ + 1],
           UNCHANGED <<Attached, Stored, subs>>
    PROVE  Service!PublishWill(c)
BY Zenon DEF Service!PublishWill, Attached, Stored, Due, WillsGone

\* A step that a client does not see.
LEMMA Stutters ==
    ASSUME UNCHANGED <<cid, clients, sessions, subs, willsDue, willsSent>>,
           \A s \in Conns : Seen(object'[s]) = Seen(object[s]),
           \A c \in Clients : sessions[c] \in Conns \cup {None}
    PROVE  UNCHANGED Service!service
<1>1. UNCHANGED <<Attached, Stored, Due, WillsGone>>
    <2>1. UNCHANGED Stored
        BY Mapped
    <2>2. UNCHANGED Attached
        BY DEF Attached
    <2>3. UNCHANGED Due
        BY Mapped
    <2>4. UNCHANGED WillsGone
        BY Mapped
    <2> QED
        BY <2>1, <2>2, <2>3, <2>4
<1> QED
    BY <1>1, ServiceVars

\* What the teardown leaves of a session object.
LEMMA DisconnectedSeen ==
    ASSUME NEW objs \in [Conns -> ClientSession], NEW s \in Conns
    PROVE  /\ Seen(Disconnected(objs, s)[s]) = [Seen(objs[s]) EXCEPT !.will = FALSE]
           /\ ~objs[s].will => Seen(Disconnected(objs, s)[s]) = Seen(objs[s])
           /\ \A t \in Conns : Disconnected(objs, s)[t].clean = objs[t].clean
<1> DEFINE d == [objs[s] EXCEPT !.connected = FALSE, !.will = FALSE]
<1>1. Disconnected(objs, s) = [objs EXCEPT ![s] = d]
    BY DEF Disconnected
<1>2. objs[s] \in ClientSession
    OBVIOUS
<1>3. /\ d.level = objs[s].level /\ d.clean = objs[s].clean /\ d.expires = objs[s].expires
      /\ d.will = FALSE /\ d.subs = objs[s].subs /\ objs[s].will \in BOOLEAN
    BY <1>2 DEF ClientSession
<1> HIDE DEF d
<1>4. Disconnected(objs, s)[s] = d /\ \A t \in Conns \ {s} : Disconnected(objs, s)[t] = objs[t]
    BY <1>1
<1>5. /\ Seen(d) = [Seen(objs[s]) EXCEPT !.will = FALSE]
      /\ ~objs[s].will => Seen(d) = Seen(objs[s])
    <2>1. Seen(d) = [Seen(objs[s]) EXCEPT !.will = FALSE]
        <3> DEFINE y == objs[s]
                   R == [level: {3, 4, 5}, clean: BOOLEAN, expires: BOOLEAN,
                         will: BOOLEAN, subs: SUBSET Filters]
                   r == [level |-> y.level, clean |-> y.clean, expires |-> y.expires,
                         will |-> FALSE, subs |-> y.subs]
        <3>1. Seen(d) = r
            BY <1>3 DEF Seen
        <3>2. /\ Seen(y) \in R /\ r \in R
              /\ Seen(y).level = r.level /\ Seen(y).clean = r.clean
              /\ Seen(y).expires = r.expires /\ Seen(y).subs = r.subs /\ r.will = FALSE
            BY <1>2 DEF Seen, ClientSession
        <3> HIDE DEF y, r
        <3>3. [Seen(y) EXCEPT !.will = FALSE] = r
            BY <3>2
        <3> QED
            BY <3>1, <3>3 DEF y
    <2>2. ASSUME ~objs[s].will PROVE d.will = objs[s].will
        BY <1>3, <2>2
    <2> QED
        BY <1>3, <2>1, <2>2 DEF Seen
<1> QED
    BY <1>3, <1>4, <1>5

\* The mapped variables after a teardown from the packet loop.
LEMMA LoopTeardownReleases ==
    ASSUME IsFiniteSet(Conns), ServiceInv, NEW h \in Conns, pc[h] = "loop",
           NEW clean \in BOOLEAN,
           NEW table \in [Clients -> SUBSET Filters],
           NEW objs \in [Conns -> ClientSession],
           SameSessions(objs), OwnFilters(h, table, objs),
           Teardown(h, clean, table, objs),
           UNCHANGED <<cid, mine, willsSent>>,
           NEW c, c = cid[h], NEW x, x = Seen(objs[mine[h]]), NEW r, r = table[c]
    PROVE  c \in Attached /\ Service!Release(c, x, r, clean)
<1> DEFINE s == mine[h]
<1>1. /\ c \in Clients /\ s \in Conns /\ clients[c] = h /\ sessions[c] = s
      /\ cid[s] = c /\ s # None /\ h # None
    BY TornDown, ConstantsAssumption DEF ServiceInv, IInv, Ownership
<1>2. /\ clients' = [clients EXCEPT ![c] = None]
      /\ object' = Disconnected(objs, s)
      /\ sessions' = IF EndsWithConnection(objs[s])
                     THEN [sessions EXCEPT ![c] = None] ELSE sessions
      /\ willsDue' = IF objs[s].will /\ ~clean
                     THEN [willsDue EXCEPT ![s] = @ + 1] ELSE willsDue
      /\ subs' = IF objs[s].clean THEN [table EXCEPT ![c] = {}] ELSE table
    BY <1>1 DEF Teardown, NotConnected, Unregistered, WillGoesOut, RoutesAfter
<1>3. /\ clients \in [Clients -> Conns \cup {None}]
      /\ sessions \in [Clients -> Conns \cup {None}]
      /\ subs \in [Clients -> SUBSET Filters]
      /\ willsDue \in [Conns -> Nat]
      /\ objs[s] \in ClientSession
    BY <1>1 DEF ServiceInv, IInv, TypeOK
<1>4. /\ x.level = objs[s].level /\ x.clean = objs[s].clean /\ x.expires = objs[s].expires
      /\ x.will = objs[s].will /\ x.subs = objs[s].subs
    BY DEF Seen
<1>5. EndsWithConnection(objs[s]) <=> ~(~x.clean \/ (x.level = 5 /\ x.expires))
    BY <1>3, <1>4 DEF EndsWithConnection, ClientSession
<1>6. Attached' = Attached \ {c} /\ c \in Attached
    BY <1>1, <1>2, <1>3 DEF Attached
<1>7. Stored' = [Stored EXCEPT ![c] = IF ~x.clean \/ (x.level = 5 /\ x.expires)
                                     THEN [x EXCEPT !.will = FALSE] ELSE None]
    <2>1. Seen(object'[s]) = [x EXCEPT !.will = FALSE]
        BY <1>1, <1>2, DisconnectedSeen
    <2>2. ASSUME NEW d \in Clients \ {c}
          PROVE  /\ sessions'[d] = sessions[d]
                 /\ sessions[d] # None => object'[sessions[d]] = object[sessions[d]]
        <3>1. sessions[d] # None => sessions[d] \in Conns \ {s}
            BY <1>1, <1>3 DEF ServiceInv, IInv, Ownership
        <3>2. sessions[d] # None => object'[sessions[d]] = objs[sessions[d]]
            BY <1>1, <1>2, <3>1, DisconnectedObjects
        <3> QED
            BY <1>1, <1>2, <1>3, <3>1, <3>2 DEF OwnFilters
    <2>3. sessions'[c] = IF EndsWithConnection(objs[s]) THEN None ELSE s
        BY <1>1, <1>2, <1>3
    <2>4. \A d \in Clients \ {c} :
              (IF sessions'[d] = None THEN None ELSE Seen(object'[sessions'[d]]))
                  = (IF sessions[d] = None THEN None ELSE Seen(object[sessions[d]]))
        BY <2>2
    <2>5. (IF sessions'[c] = None THEN None ELSE Seen(object'[sessions'[c]]))
              = IF ~x.clean \/ (x.level = 5 /\ x.expires)
                THEN [x EXCEPT !.will = FALSE] ELSE None
        BY <1>1, <1>5, <2>1, <2>3
    <2> QED
        BY <1>1, <2>4, <2>5, Mapped
<1>8. subs' = [subs EXCEPT ![c] = IF x.clean THEN {} ELSE r]
    BY <1>1, <1>2, <1>3, <1>4 DEF OwnFilters
<1>9. Due' = [Due EXCEPT ![c] = IF x.will /\ ~clean THEN @ + 1 ELSE @]
    <2>1. CASE ~(objs[s].will /\ ~clean)
        <3>1. Due' = Due
            BY <1>2, <2>1, Mapped
        <3> QED
            BY <1>1, <1>4, <2>1, <3>1 DEF Due
    <2>2. CASE objs[s].will /\ ~clean
        <3> DEFINE D == {t \in Conns : cid[t] = c /\ willsDue[t] > 0}
        <3>1. willsDue[s] = 0 /\ willsDue' = [willsDue EXCEPT ![s] = @ + 1]
            <4>1. object[s].will
                BY <1>1, <2>2 DEF SameSessions
            <4>2. /\ willsDue[s] + willsSent[s] = 0
                  /\ willsDue[s] \in Nat /\ willsSent[s] \in Nat
                BY <1>1, <4>1 DEF ServiceInv, IInv, WillAtMostOnce, TypeOK
            <4>3. willsDue[s] = 0
                BY <4>2
            <4> QED
                BY <1>2, <2>2, <4>3
        <3>2. {t \in Conns : cid'[t] = c /\ willsDue'[t] > 0} = D \cup {s} /\ s \notin D
            BY <1>1, <1>3, <3>1
        <3>3. IsFiniteSet(D)
            BY FS_Subset
        <3>4. Cardinality(D \cup {s}) = Cardinality(D) + 1
            BY <3>2, <3>3, FS_AddElement
        <3>5. \A d \in Clients \ {c} : {t \in Conns : cid'[t] = d /\ willsDue'[t] > 0}
                                         = {t \in Conns : cid[t] = d /\ willsDue[t] > 0}
            BY <1>1, <1>3, <3>1
        <3> HIDE DEF D
        <3>6. Due[c] = Cardinality(D)
            BY <1>1, Mapped DEF D
        <3>7. Due'[c] = Cardinality(D) + 1
            BY <1>1, <3>2, <3>4, Mapped
        <3>8. \A d \in Clients \ {c} : Due'[d] = Due[d]
            BY <3>5, Mapped
        <3>9. Due' = [Due EXCEPT ![c] = @ + 1]
            BY <3>6, <3>7, <3>8, Mapped
        <3> QED
            BY <1>4, <2>2, <3>9
    <2> QED
        BY <2>1, <2>2
<1>10. WillsGone' = WillsGone
    BY Mapped
<1> QED
    BY <1>1, <1>6, <1>7, <1>8, <1>9, <1>10, ReleaseMapped

\* The second teardown after a DISCONNECT changes nothing.
LEMMA SecondTeardownStutters ==
    ASSUME ServiceInv, NEW h \in Conns, DisconnectClosed(h)
    PROVE  UNCHANGED Service!service
<1> DEFINE c == cid[h]
           s == sessions[c]
<1>1. /\ pc[h] = "disconnecting"
      /\ Teardown(h, FALSE, subs, object)
      /\ UNCHANGED <<cid, willsSent>>
    BY DEF DisconnectClosed, Finish
<1>2. /\ c \in Clients /\ mine[h] \in Conns /\ clients[c] = None
      /\ s # None => s \in Conns /\ ~object[s].will /\ ~EndsWithConnection(object[s])
      /\ object[mine[h]].clean => subs[c] = {}
      /\ object \in [Conns -> ClientSession]
      /\ sessions \in [Clients -> Conns \cup {None}]
    BY <1>1, TornDown, ConstantsAssumption DEF ServiceInv, IInv, TypeOK, Settled
<1>3. /\ clients' = [clients EXCEPT ![c] = None]
      /\ object' = IF s # None THEN Disconnected(object, s) ELSE object
      /\ sessions' = sessions
      /\ willsDue' = willsDue
      /\ subs' = IF object[mine[h]].clean THEN [subs EXCEPT ![c] = {}] ELSE subs
    BY <1>1, <1>2 DEF Teardown, NotConnected, Unregistered, WillGoesOut, RoutesAfter
<1>4. clients' = clients /\ subs' = subs
    BY <1>2, <1>3 DEF ServiceInv, IInv, TypeOK
<1>5. \A t \in Conns : Seen(object'[t]) = Seen(object[t])
    <2>1. CASE s = None
        BY <1>3, <2>1
    <2>2. CASE s # None
        <3>1. /\ Seen(Disconnected(object, s)[s]) = Seen(object[s])
              /\ \A t \in Conns \ {s} : Disconnected(object, s)[t] = object[t]
            BY <1>2, <2>2, DisconnectedSeen, DisconnectedObjects
        <3> QED
            BY <1>3, <2>2, <3>1
    <2> QED
        BY <2>1, <2>2
<1> QED
    BY <1>1, <1>2, <1>3, <1>4, <1>5, Stutters

\* A packet handler for filters, whether the loop goes on or not.
LEMMA FiltersChange ==
    ASSUME IsFiniteSet(Conns), ServiceInv, NEW h \in Conns, pc[h] = "loop",
           NEW table \in [Clients -> SUBSET Filters],
           NEW objs \in [Conns -> ClientSession],
           SameSessions(objs), OwnFilters(h, table, objs),
           Finish(h, table, objs) \/ Continue(h, table, objs),
           UNCHANGED <<cid, mine, kick, willsSent, brought>>,
           NEW c, c = cid[h], NEW x, x = Seen(objs[mine[h]]), NEW r, r = table[c]
    PROVE  Service!ChangeFilters(c, x, r)
<1> DEFINE s == mine[h]
<1>1. /\ c \in Clients /\ s \in Conns /\ clients[c] = h /\ sessions[c] = s
      /\ s # None /\ h # None /\ cid[s] = c
      /\ sessions \in [Clients -> Conns \cup {None}]
      /\ subs \in [Clients -> SUBSET Filters]
    BY TornDown, ConstantsAssumption DEF ServiceInv, IInv, TypeOK, Ownership
<1>2. c \in Attached
    BY <1>1 DEF Attached
<1>3. CASE Finish(h, table, objs)
    <2>1. Service!Release(c, x, r, FALSE)
        BY <1>3, LoopTeardownReleases DEF Finish
    <2> QED
        BY <1>2, <2>1, Zenon DEF Service!ChangeFilters, Attached
<1>4. CASE connected[h] /\ Continue(h, table, objs)
    <2>1. /\ subs' = table /\ object' = objs
          /\ UNCHANGED <<clients, sessions, willsDue, cid, willsSent>>
        BY <1>4 DEF Continue
    <2>2. subs' = [subs EXCEPT ![c] = r]
        BY <1>1, <2>1 DEF OwnFilters
    <2>3. UNCHANGED <<Attached, Due, WillsGone>>
        <3>1. UNCHANGED Attached
            BY <2>1 DEF Attached
        <3>2. UNCHANGED <<Due, WillsGone>>
            BY <2>1, Mapped
        <3> QED
            BY <3>1, <3>2
    <2>4. Stored' = [Stored EXCEPT ![c] = x]
        <3>1. \A d \in Clients \ {c} : sessions[d] # None => sessions[d] \in Conns \ {s}
            BY <1>1 DEF ServiceInv, IInv, Ownership
        <3>2. \A d \in Clients \ {c} : sessions[d] # None => objs[sessions[d]] = object[sessions[d]]
            BY <3>1 DEF OwnFilters
        <3> QED
            BY <1>1, <2>1, <3>2, Mapped
    <2> QED
        BY <1>2, <2>2, <2>3, <2>4, Zenon DEF Service!ChangeFilters, Attached, Stored, Due, WillsGone
<1> QED
    BY <1>3, <1>4 DEF Continue

\* A CONNECT attaches the client.
LEMMA ConnectAttaches ==
    ASSUME ~Overlap, \A s \in ClientSession : Seen(s) # None,
           ServiceInv, NEW h \in Conns, NEW c \in Clients, NEW o \in ConnectOptions,
           NEW broken \in BOOLEAN, Connect(h, c, o, broken)
    PROVE  Requested(o) \in Service!Fresh /\ Service!Attach(c, Requested(o))
<1> DEFINE r == Requested(o)
<1>0. /\ r.level = o.level /\ r.clean = o.clean /\ r.expires = o.expires
      /\ r.will = o.will /\ r.subs = {}
    BY DEF Requested
<1>1. r \in Service!Fresh
    BY DEF Requested, ConnectOptions, Service!Fresh, Service!Session
<1>2. /\ pc[h] = "first" /\ c # None /\ h # None
      /\ cid[h] = None /\ mine[h] = None /\ willsDue[h] = 0 /\ willsSent[h] = 0
      /\ \A g \in Conns : cid[g] = c => pc[g] = "done"
    BY ConstantsAssumption DEF Connect, MayConnect, ServiceInv, IInv, Untouched
<1>3. /\ clients[c] = None
      /\ clients \in [Clients -> Conns \cup {None}]
      /\ sessions \in [Clients -> Conns \cup {None}]
      /\ object \in [Conns -> ClientSession]
      /\ subs \in [Clients -> SUBSET Filters]
      /\ cid \in [Conns -> Clients \cup {None}]
    BY <1>2 DEF ServiceInv, IInv, TypeOK, RegistryFresh
<1>4. c \notin Attached /\ Attached' = Attached \cup {c}
    BY <1>2, <1>3 DEF Connect, Attached
<1>5. Due' = Due /\ WillsGone' = WillsGone
    <2>1. cid' = [cid EXCEPT ![h] = c] /\ UNCHANGED <<willsDue, willsSent>>
        BY DEF Connect
    <2>2. \A d \in Clients :
              /\ {t \in Conns : cid'[t] = d /\ willsDue'[t] > 0} = {t \in Conns : cid[t] = d /\ willsDue[t] > 0}
              /\ {t \in Conns : cid'[t] = d /\ willsSent'[t] > 0} = {t \in Conns : cid[t] = d /\ willsSent[t] > 0}
        BY <1>2, <1>3, <2>1
    <2> QED
        BY <2>2, Mapped
<1>6. \A d \in Clients : sessions[d] # None => sessions[d] \in Conns \ {h} /\ cid[sessions[d]] = d
    BY <1>2, <1>3, ConstantsAssumption DEF ServiceInv, IInv, Ownership
<1>7. CASE Resumes(c, o)
    <2> DEFINE s == sessions[c]
               d == [object[s] EXCEPT !.connected = TRUE]
    <2>1. s # None /\ s \in Conns /\ object[s].level = o.level /\ ~o.clean /\ object[s] \in ClientSession
        BY <1>3, <1>7 DEF Resumes
    <2>2. /\ sessions' = [sessions EXCEPT ![c] = s]
          /\ object' = [object EXCEPT ![s] = d]
          /\ subs' = [subs EXCEPT ![c] = @ \cup object'[s].subs]
        BY <1>7 DEF Connect, Resumed, Restore
    <2>3. sessions' = sessions
        BY <1>3, <2>2
    <2>4. Seen(d) = Seen(object[s]) /\ d.subs = Seen(object[s]).subs /\ Seen(object[s]).level = o.level
        BY <2>1 DEF Seen, ClientSession
    <2> HIDE DEF d
    <2>5. \A t \in Conns : Seen(object'[t]) = Seen(object[t])
        BY <1>3, <2>1, <2>2, <2>4
    <2>6. Stored' = Stored
        BY <1>3, <2>3, <2>5, Mapped
    <2>7. Stored[c] = Seen(object[s])
        BY <2>1, Mapped
    <2>8. Stored[c] # None
        BY <2>1, <2>7
    <2>9. subs' = [subs EXCEPT ![c] = @ \cup Stored[c].subs]
        BY <1>3, <2>1, <2>2, <2>4, <2>7
    <2> HIDE DEF r
    <2> QED
        BY <1>0, <1>1, <1>4, <1>5, <2>1, <2>4, <2>6, <2>7, <2>8, <2>9, AttachMapped DEF r
<1>8. CASE ~Resumes(c, o)
    <2>1. /\ sessions' = [sessions EXCEPT ![c] = h]
          /\ object' = [object EXCEPT ![h] = NewSession(o)]
          /\ subs' = [subs EXCEPT ![c] = @ \cup object'[h].subs]
        BY <1>8 DEF Connect, Restore
    <2>2. NewSession(o).subs = {} /\ Seen(NewSession(o)) = r
        BY DEF NewSession, Seen, Requested
    <2>3. object'[h] = NewSession(o)
        BY <1>3, <2>1
    <2>4. subs' = subs
        BY <1>3, <2>1, <2>2, <2>3
    <2>5. Stored[c] = None \/ Stored[c].level # r.level \/ r.clean
        <3>1. sessions[c] # None => Stored[c].level = object[sessions[c]].level
            BY Mapped DEF Seen
        <3>2. sessions[c] = None => Stored[c] = None
            BY Mapped
        <3> QED
            BY <1>0, <1>8, <3>1, <3>2 DEF Resumes
    <2> HIDE DEF r
    <2>6. Stored' = [Stored EXCEPT ![c] = r]
        <3>1. \A d \in Clients \ {c} : /\ sessions'[d] = sessions[d]
                                       /\ sessions[d] # None => object'[sessions[d]] = object[sessions[d]]
            BY <1>3, <1>6, <2>1
        <3>2. sessions'[c] = h /\ sessions'[c] # None
            BY <1>2, <1>3, <2>1
        <3> QED
            BY <2>2, <2>3, <3>1, <3>2, Mapped
    <2> QED
        BY <1>1, <1>4, <1>5, <2>4, <2>5, <2>6, AttachMapped DEF r
<1> QED
    BY <1>1, <1>7, <1>8

\* A will is published.
LEMMA SendWillPublishes ==
    ASSUME IsFiniteSet(Conns), ServiceInv, NEW s \in Conns, SendWill(s),
           NEW c, c = cid[s]
    PROVE  c \in Clients /\ Service!PublishWill(c)
<1> DEFINE D == {t \in Conns : cid[t] = c /\ willsDue[t] > 0}
           S == {t \in Conns : cid[t] = c /\ willsSent[t] > 0}
<1>1. /\ willsDue \in [Conns -> Nat] /\ willsSent \in [Conns -> Nat]
      /\ willsDue[s] = 1 /\ willsSent[s] = 0
      /\ willsDue' = [willsDue EXCEPT ![s] = 0] /\ willsSent' = [willsSent EXCEPT ![s] = 1]
      /\ UNCHANGED <<cid, clients, sessions, object, subs>>
    <2>1. /\ willsDue \in [Conns -> Nat] /\ willsSent \in [Conns -> Nat]
          /\ willsDue[s] > 0 /\ willsDue[s] + willsSent[s] <= 1
        BY DEF SendWill, ServiceInv, IInv, TypeOK, WillAtMostOnce
    <2>2. willsDue[s] = 1 /\ willsSent[s] = 0
        BY <2>1
    <2> QED
        BY <2>1, <2>2 DEF SendWill
<1>2. c \in Clients
    BY <1>1 DEF ServiceInv, Settled, IInv, TypeOK
<1>3. /\ s \in D /\ {t \in Conns : cid'[t] = c /\ willsDue'[t] > 0} = D \ {s}
      /\ s \notin S /\ {t \in Conns : cid'[t] = c /\ willsSent'[t] > 0} = S \cup {s}
      /\ \A d \in Clients \ {c} :
            /\ {t \in Conns : cid'[t] = d /\ willsDue'[t] > 0} = {t \in Conns : cid[t] = d /\ willsDue[t] > 0}
            /\ {t \in Conns : cid'[t] = d /\ willsSent'[t] > 0} = {t \in Conns : cid[t] = d /\ willsSent[t] > 0}
    BY <1>1
<1>4. IsFiniteSet(D) /\ IsFiniteSet(S)
    BY FS_Subset
<1>5. /\ Cardinality(D \ {s}) = Cardinality(D) - 1 /\ Cardinality(D) \in Nat
      /\ Cardinality(D) > 0
      /\ Cardinality(S \cup {s}) = Cardinality(S) + 1
    <2>1. Cardinality(D \ {s}) = Cardinality(D) - 1 /\ Cardinality(D) \in Nat
        BY <1>3, <1>4, FS_RemoveElement, FS_CardinalityType
    <2>2. IsFiniteSet(D \ {s})
        BY <1>4, FS_RemoveElement
    <2>3. Cardinality(D \ {s}) \in Nat
        BY <2>2, FS_CardinalityType
    <2>4. Cardinality(S \cup {s}) = Cardinality(S) + 1
        BY <1>3, <1>4, FS_AddElement
    <2>5. Cardinality(D) > 0
        BY <2>1, <2>3
    <2> QED
        BY <2>1, <2>4, <2>5
<1>6. Due[c] = Cardinality(D) /\ WillsGone[c] = Cardinality(S)
    BY <1>2, Mapped
<1> HIDE DEF D, S
<1>a. /\ Due'[c] = Cardinality(D) - 1 /\ WillsGone'[c] = Cardinality(S) + 1
      /\ \A d \in Clients \ {c} : Due'[d] = Due[d] /\ WillsGone'[d] = WillsGone[d]
    <2>1. Due'[c] = Cardinality(D) - 1
        BY <1>2, <1>3, <1>5, Mapped
    <2>2. WillsGone'[c] = Cardinality(S) + 1
        BY <1>2, <1>3, <1>5, Mapped
    <2>3. \A d \in Clients \ {c} : Due'[d] = Due[d]
        BY <1>3, Mapped
    <2>4. \A d \in Clients \ {c} : WillsGone'[d] = WillsGone[d]
        BY <1>3, Mapped
    <2> QED
        BY <2>1, <2>2, <2>3, <2>4
<1>7. Due' = [Due EXCEPT ![c] = @ - 1]
    BY <1>6, <1>a, Mapped
<1>8. WillsGone' = [WillsGone EXCEPT ![c] = @ + 1]
    BY <1>6, <1>a, Mapped
<1>9. UNCHANGED <<Attached, Stored, subs>>
    <2>1. UNCHANGED Attached
        BY <1>1 DEF Attached
    <2>2. UNCHANGED Stored
        BY <1>1, Mapped
    <2> QED
        BY <1>1, <2>1, <2>2
<1> QED
    BY <1>2, <1>5, <1>6, <1>7, <1>8, <1>9, PublishWillMapped

-----------------------------------------------------------------------------
(***************************************************************************)
(* Settled, step by step.                                                  *)
(***************************************************************************)
LEMMA TeardownSettles ==
    ASSUME ServiceInv, NEW h \in Conns, pc[h] \in {"loop", "disconnecting"},
           NEW clean \in BOOLEAN,
           NEW table \in [Clients -> SUBSET Filters],
           NEW objs \in [Conns -> ClientSession],
           SameSessions(objs), OwnFilters(h, table, objs),
           Teardown(h, clean, table, objs),
           NEW place \in {"disconnecting", "final"},
           pc' = [pc EXCEPT ![h] = place],
           UNCHANGED <<cid, mine>>
    PROVE  Settled'
<1> DEFINE c == cid[h]
           s == sessions[c]
<1>1. /\ c \in Clients /\ c # None /\ s \in Conns \cup {None}
      /\ s # None => cid[s] = c
      /\ \A g \in Conns : pc[g] = "disconnecting" => cid[g] \in Clients /\ mine[g] \in Conns
      /\ willsDue \in [Conns -> Nat] /\ mine[h] \in Conns
    BY ConstantsAssumption DEF ServiceInv, IInv, TypeOK, Ownership
<1>2. /\ object' = IF s # None THEN Disconnected(objs, s) ELSE objs
      /\ willsDue' = IF s # None /\ objs[s].will /\ ~clean
                     THEN [willsDue EXCEPT ![s] = @ + 1] ELSE willsDue
      /\ subs' = IF objs[mine[h]].clean THEN [table EXCEPT ![c] = {}] ELSE table
    BY DEF Teardown, WillGoesOut, RoutesAfter
<1>3. \A t \in Conns : object'[t].clean = object[t].clean /\ objs[t].clean = object[t].clean
    <2>1. \A t \in Conns : objs[t].clean = object[t].clean
        BY DEF SameSessions
    <2>2. ASSUME s # None PROVE \A t \in Conns : object'[t].clean = objs[t].clean
        <3>1. s \in Conns /\ object' = Disconnected(objs, s)
            BY <1>1, <1>2, <2>2
        <3> HIDE DEF s
        <3>2. \A t \in Conns : Disconnected(objs, s)[t].clean = objs[t].clean
            BY <3>1, DisconnectedSeen
        <3> QED
            BY <3>1, <3>2
    <2> QED
        BY <1>2, <2>1, <2>2
<1>4. ASSUME NEW g \in Conns, pc'[g] = "disconnecting", object'[mine[g]].clean
      PROVE  subs'[cid[g]] = {}
    <2>1. CASE g = h
        <3>1. objs[mine[h]].clean
            BY <1>1, <1>3, <1>4, <2>1
        <3>2. subs' = [table EXCEPT ![c] = {}]
            BY <1>2, <3>1
        <3> QED
            BY <1>1, <2>1, <3>2
    <2>2. CASE g # h
        <3>1. pc[g] = "disconnecting"
            BY <1>4, <2>2 DEF ServiceInv, IInv, TypeOK
        <3>2. cid[g] \in Clients /\ mine[g] \in Conns
            BY <1>1, <3>1
        <3>3. cid[g] # c
            BY <1>1, <2>2, <3>1 DEF ServiceInv, SInv, Alone
        <3>4. subs'[cid[g]] = subs[cid[g]]
            BY <1>2, <3>2, <3>3 DEF OwnFilters
        <3>5. object[mine[g]].clean
            BY <1>3, <1>4, <3>2
        <3> QED
            BY <3>1, <3>4, <3>5 DEF ServiceInv, Settled
    <2> QED
        BY <2>1, <2>2
<1>5. ASSUME NEW g \in Conns, cid[g] = None PROVE willsDue'[g] = 0
    <2>1. willsDue[g] = 0
        BY <1>5 DEF ServiceInv, Settled
    <2>2. s # g
        BY <1>1, <1>5, ConstantsAssumption
    <2>3. willsDue'[g] = willsDue[g]
        BY <1>1, <1>2, <2>2
    <2> QED
        BY <2>1, <2>3
<1> QED
    BY <1>4, <1>5 DEF Settled

LEMMA ContinueSettles ==
    ASSUME ServiceInv, NEW h \in Conns, pc[h] = "loop",
           NEW table \in [Clients -> SUBSET Filters],
           NEW objs \in [Conns -> ClientSession],
           SameSessions(objs), OwnFilters(h, table, objs),
           Finish(h, table, objs) \/ Continue(h, table, objs),
           UNCHANGED <<cid, mine, kick, willsSent, brought>>
    PROVE  Settled'
<1>1. CASE Finish(h, table, objs)
    BY <1>1, TeardownSettles DEF Finish
<1>2. CASE connected[h] /\ Continue(h, table, objs)
    <2>1. subs' = table /\ object' = objs /\ UNCHANGED <<pc, willsDue>>
        BY <1>2 DEF Continue
    <2>2. ASSUME NEW g \in Conns, pc[g] = "disconnecting", objs[mine[g]].clean
          PROVE  table[cid[g]] = {}
        <3>1. cid[g] \in Clients \ {cid[h]} /\ mine[g] \in Conns
            BY <2>2, ConstantsAssumption DEF ServiceInv, IInv, TypeOK, SInv, Alone
        <3> QED
            BY <2>2, <3>1 DEF OwnFilters, SameSessions, ServiceInv, Settled
    <2> QED
        BY <2>1, <2>2 DEF ServiceInv, Settled
<1> QED
    BY <1>1, <1>2 DEF Continue

LEMMA ConnectSettles ==
    ASSUME ~Overlap, ServiceInv, NEW h \in Conns, NEW c \in Clients, NEW o \in ConnectOptions,
           NEW broken \in BOOLEAN, Connect(h, c, o, broken)
    PROVE  Settled'
<1>1. /\ pc[h] = "first" /\ c # None /\ mine[h] = None
      /\ \A g \in Conns : cid[g] = c => pc[g] = "done"
      /\ sessions[c] # None => sessions[c] \in Conns /\ cid[sessions[c]] = c
      /\ subs \in [Clients -> SUBSET Filters] /\ object \in [Conns -> ClientSession]
      /\ pc \in [Conns -> {"new", "first", "connack", "loop", "disconnecting",
                           "final", "done"}]
      /\ cid \in [Conns -> Clients \cup {None}] /\ mine \in [Conns -> Conns \cup {None}]
    BY ConstantsAssumption DEF Connect, MayConnect, ServiceInv, IInv, Untouched, Ownership, TypeOK
<1>2. /\ \A g \in Conns \ {h} : pc'[g] = pc[g] /\ cid'[g] = cid[g] /\ mine'[g] = mine[g]
      /\ pc'[h] # "disconnecting" /\ cid'[h] # None
      /\ \A d \in Clients \ {c} : subs'[d] = subs[d]
      /\ willsDue' = willsDue
    BY <1>1 DEF Connect, Restore
<1>3. \A t \in Conns : cid[t] # c /\ t # h => object'[t] = object[t]
    BY <1>1 DEF Connect, Resumed, Resumes
<1>4. ASSUME NEW g \in Conns \ {h}, pc[g] = "disconnecting", object'[mine[g]].clean
      PROVE  subs'[cid[g]] = {}
    <2>1. /\ cid[g] \in Clients \ {c} /\ mine[g] \in Conns
          /\ cid[mine[g]] = cid[g] /\ mine[mine[g]] # None
        BY <1>1, <1>4 DEF ServiceInv, IInv, TypeOK, Ownership, SInv, Built
    <2>2. object'[mine[g]] = object[mine[g]]
        BY <1>1, <1>3, <2>1
    <2> QED
        BY <1>2, <1>4, <2>1, <2>2 DEF ServiceInv, Settled
<1> QED
    BY <1>2, <1>4 DEF ServiceInv, Settled

\* A step that moves no connection to the place after a DISCONNECT.
LEMMA OthersSettle ==
    ASSUME ServiceInv, UNCHANGED <<cid, mine, object, subs>>,
           \A h \in Conns : pc'[h] = "disconnecting" => pc[h] = "disconnecting",
           \A h \in Conns : willsDue[h] = 0 => willsDue'[h] = 0
    PROVE  Settled'
BY DEF ServiceInv, Settled

-----------------------------------------------------------------------------
(***************************************************************************)
(* Each handler is a step of the service.                                  *)
(***************************************************************************)
\* The session of a connected client, as the service has it.
LEMMA StoredSession ==
    ASSUME ServiceInv, NEW h \in Conns, pc[h] = "loop"
    PROVE  /\ cid[h] \in Clients /\ mine[h] \in Conns
           /\ Stored[cid[h]] = Seen(object[mine[h]])
<1>1. cid[h] \in Clients /\ mine[h] \in Conns /\ sessions[cid[h]] = mine[h]
    BY TornDown DEF ServiceInv
<1>2. mine[h] # None
    BY <1>1, ConstantsAssumption
<1> QED
    BY <1>1, <1>2, Mapped

\* Filters put into a session object, and nothing else changed.
LEMMA WithFiltersSeen ==
    ASSUME ServiceInv, NEW h \in Conns, mine[h] \in Conns, NEW filters \in SUBSET Filters
    PROVE  Seen(WithFilters(h, filters)[mine[h]])
               = [Seen(object[mine[h]]) EXCEPT !.subs = filters]
<1> DEFINE y == object[mine[h]]
           d == [y EXCEPT !.subs = filters]
           R == [level: {3, 4, 5}, clean: BOOLEAN, expires: BOOLEAN,
                 will: BOOLEAN, subs: SUBSET Filters]
           r == [level |-> y.level, clean |-> y.clean, expires |-> y.expires,
                 will |-> y.will, subs |-> filters]
<1>1. y \in ClientSession
    BY DEF ServiceInv, IInv, TypeOK
<1>2. WithFilters(h, filters)[mine[h]] = d
    BY DEF WithFilters, ServiceInv, IInv, TypeOK
<1>3. /\ d.level = y.level /\ d.clean = y.clean /\ d.expires = y.expires
      /\ d.will = y.will /\ d.subs = filters
    BY <1>1 DEF ClientSession
<1> HIDE DEF d
<1>4. Seen(d) = r
    BY <1>3 DEF Seen
<1>5. /\ Seen(y) \in R /\ r \in R
      /\ Seen(y).level = r.level /\ Seen(y).clean = r.clean
      /\ Seen(y).expires = r.expires /\ Seen(y).will = r.will /\ r.subs = filters
    BY <1>1 DEF Seen, ClientSession
<1> HIDE DEF y, r
<1>6. [Seen(y) EXCEPT !.subs = filters] = r
    BY <1>5
<1> QED
    BY <1>2, <1>4, <1>6 DEF y

LEMMA SubscribeAdds ==
    ASSUME IsFiniteSet(Conns), ServiceInv, NEW h \in Conns, NEW f \in Filters,
           NEW fails \in BOOLEAN, Subscribe(h, f, fails),
           NEW c, c = cid[h]
    PROVE  Settled' /\ c \in Clients /\ Service!AddFilter(c, f)
<1> DEFINE filters == object[mine[h]].subs \cup {f}
           routes == subs[cid[h]] \cup {f}
           table == [subs EXCEPT ![cid[h]] = routes]
           objs == WithFilters(h, filters)
<1>1. pc[h] = "loop" /\ UNCHANGED <<cid, mine, kick, willsSent, brought>>
    BY DEF Subscribe, CanRead
<1>2. /\ cid[h] \in Clients /\ mine[h] \in Conns
      /\ Stored[cid[h]] = Seen(object[mine[h]])
      /\ subs \in [Clients -> SUBSET Filters] /\ object \in [Conns -> ClientSession]
    BY <1>1, StoredSession DEF ServiceInv, IInv, TypeOK
<1>3. Finish(h, table, objs) \/ Continue(h, table, objs)
    <2>1. /\ table = [subs EXCEPT ![cid[h]] = @ \cup {f}]
          /\ objs = [object EXCEPT ![mine[h]].subs = @ \cup {f}]
        BY <1>2 DEF WithFilters
    <2> QED
        BY <2>1 DEF Subscribe
<1>4. /\ table \in [Clients -> SUBSET Filters]
      /\ objs \in [Conns -> ClientSession]
      /\ SameSessions(objs) /\ OwnFilters(h, table, objs)
    BY <1>1, ChangedFilters DEF ServiceInv
<1>5. Seen(objs[mine[h]]) = [Stored[cid[h]] EXCEPT !.subs = @ \cup {f}]
    <2>1. object[mine[h]] \in ClientSession
        BY <1>2
    <2>2. filters \in SUBSET Filters
        BY <2>1 DEF ClientSession
    <2>3. Seen(object[mine[h]]).subs = object[mine[h]].subs
        BY DEF Seen
    <2>4. Seen(objs[mine[h]]) = [Seen(object[mine[h]]) EXCEPT !.subs = filters]
        BY <1>2, <2>2, WithFiltersSeen
    <2> QED
        BY <1>2, <2>3, <2>4
<1>6. table[cid[h]] = subs[cid[h]] \cup {f}
    BY <1>2
<1> HIDE DEF table, objs
<1>7. Settled'
    BY <1>1, <1>3, <1>4, ContinueSettles
<1>8. PICK x, r : x = Seen(objs[mine[h]]) /\ r = table[c]
    OBVIOUS
<1>9. Service!ChangeFilters(c, x, r)
    BY <1>1, <1>3, <1>4, <1>8, FiltersChange
<1>10. x = [Stored[c] EXCEPT !.subs = @ \cup {f}] /\ r = subs[c] \cup {f}
    BY <1>5, <1>6, <1>8
<1>11. Service!AddFilter(c, f)
    BY <1>9, <1>10, Zenon DEF Service!AddFilter, Service!ChangeFilters, Service!Release, Stored
<1> QED
    BY <1>2, <1>7, <1>11

LEMMA UnsubscribeDrops ==
    ASSUME IsFiniteSet(Conns), ServiceInv, NEW h \in Conns, NEW f \in Filters, Unsubscribe(h, f),
           NEW c, c = cid[h]
    PROVE  Settled' /\ c \in Clients /\ Service!DropFilter(c, f)
<1> DEFINE filters == object[mine[h]].subs \ {f}
           routes == subs[cid[h]] \ {f}
           table == [subs EXCEPT ![cid[h]] = routes]
           objs == WithFilters(h, filters)
<1>1. /\ pc[h] = "loop" /\ f \in subs[cid[h]]
      /\ UNCHANGED <<cid, mine, kick, willsSent, brought>>
    BY DEF Unsubscribe, CanRead
<1>2. /\ cid[h] \in Clients /\ mine[h] \in Conns
      /\ Stored[cid[h]] = Seen(object[mine[h]])
      /\ subs \in [Clients -> SUBSET Filters] /\ object \in [Conns -> ClientSession]
    BY <1>1, StoredSession DEF ServiceInv, IInv, TypeOK
<1>3. Continue(h, table, objs)
    <2>1. /\ table = [subs EXCEPT ![cid[h]] = @ \ {f}]
          /\ objs = [object EXCEPT ![mine[h]].subs = @ \ {f}]
        BY <1>2 DEF WithFilters
    <2> QED
        BY <2>1 DEF Unsubscribe
<1>4. /\ table \in [Clients -> SUBSET Filters]
      /\ objs \in [Conns -> ClientSession]
      /\ SameSessions(objs) /\ OwnFilters(h, table, objs)
    BY <1>1, ChangedFilters DEF ServiceInv
<1>5. Seen(objs[mine[h]]) = [Stored[cid[h]] EXCEPT !.subs = @ \ {f}]
    <2>1. object[mine[h]] \in ClientSession
        BY <1>2
    <2>2. filters \in SUBSET Filters
        BY <2>1 DEF ClientSession
    <2>3. Seen(object[mine[h]]).subs = object[mine[h]].subs
        BY DEF Seen
    <2>4. Seen(objs[mine[h]]) = [Seen(object[mine[h]]) EXCEPT !.subs = filters]
        BY <1>2, <2>2, WithFiltersSeen
    <2> QED
        BY <1>2, <2>3, <2>4
<1>6. table[cid[h]] = subs[cid[h]] \ {f}
    BY <1>2
<1> HIDE DEF table, objs
<1>7. Settled'
    BY <1>1, <1>3, <1>4, ContinueSettles
<1>8. PICK x, r : x = Seen(objs[mine[h]]) /\ r = table[c]
    OBVIOUS
<1>9. Service!ChangeFilters(c, x, r)
    BY <1>1, <1>3, <1>4, <1>8, FiltersChange
<1>10. x = [Stored[c] EXCEPT !.subs = @ \ {f}] /\ r = subs[c] \ {f}
    BY <1>5, <1>6, <1>8
<1>11. Service!DropFilter(c, f)
    BY <1>1, <1>9, <1>10, Zenon DEF Service!DropFilter, Service!ChangeFilters, Service!Release, Stored
<1> QED
    BY <1>2, <1>7, <1>11

\* DISCONNECT, and the end of the loop without one.
LEMMA EndDetaches ==
    ASSUME IsFiniteSet(Conns), ServiceInv, NEW h \in Conns, NEW clean \in BOOLEAN,
           \/ Disconnect(h, clean)
           \/ LeaveLoop(h) /\ ~clean,
           NEW c, c = cid[h]
    PROVE  Settled' /\ c \in Clients /\ Service!Detach(c, clean)
<1>1. /\ pc[h] = "loop"
      /\ \E place \in {"disconnecting", "final"} : pc' = [pc EXCEPT ![h] = place]
      /\ UNCHANGED <<cid, mine, willsSent>>
    BY DEF Disconnect, CanRead, LeaveLoop, Finish
<1>2. Teardown(h, clean, subs, object)
    BY DEF Disconnect, LeaveLoop, Finish
<1>3. /\ subs \in [Clients -> SUBSET Filters] /\ object \in [Conns -> ClientSession]
      /\ SameSessions(object) /\ OwnFilters(h, subs, object)
    BY DEF ServiceInv, IInv, TypeOK, SameSessions, OwnFilters
<1>4. Settled'
    BY <1>1, <1>2, <1>3, TeardownSettles
<1>5. cid[h] \in Clients /\ Stored[cid[h]] = Seen(object[mine[h]])
    BY <1>1, StoredSession
<1>6. PICK x, r : x = Seen(object[mine[h]]) /\ r = subs[c]
    OBVIOUS
<1>7. c \in Attached /\ Service!Release(c, x, r, clean)
    BY <1>1, <1>2, <1>3, <1>6, LoopTeardownReleases
<1>8. x = Stored[c] /\ r = subs[c]
    BY <1>5, <1>6
<1>9. Service!Detach(c, clean)
    BY <1>7, <1>8, Zenon DEF Service!Detach, Service!Release, Stored, Attached
<1> QED
    BY <1>4, <1>5, <1>9

\* The second teardown after a DISCONNECT.
LEMMA SecondTeardownSettles ==
    ASSUME ServiceInv, NEW h \in Conns, DisconnectClosed(h)
    PROVE  Settled'
<1>1. /\ pc[h] = "disconnecting" /\ pc' = [pc EXCEPT ![h] = "final"]
      /\ Teardown(h, FALSE, subs, object)
      /\ UNCHANGED <<cid, mine>>
    BY DEF DisconnectClosed, Finish
<1>2. /\ subs \in [Clients -> SUBSET Filters] /\ object \in [Conns -> ClientSession]
      /\ SameSessions(object) /\ OwnFilters(h, subs, object)
    BY DEF ServiceInv, IInv, TypeOK, SameSessions, OwnFilters
<1> QED
    BY <1>1, <1>2, TeardownSettles

\* The steps of a task that a client does not see.
LEMMA LocalStepStutters ==
    ASSUME ServiceInv, NEW h \in Conns,
           \/ Accept(h) \/ Reject(h) \/ Connacked(h) \/ SendFails(h) \/ Closed(h)
    PROVE  Settled' /\ UNCHANGED Service!service
<1>1. UNCHANGED <<cid, mine, clients, sessions, object, subs, willsDue, willsSent>>
    BY DEF Accept, Reject, Connacked, SendFails, Closed
<1>2. \A g \in Conns : pc'[g] = "disconnecting" => pc[g] = "disconnecting"
    BY DEF Accept, Reject, Connacked, SendFails, Closed, ServiceInv, IInv, TypeOK
<1>3. Settled'
    BY <1>1, <1>2, OthersSettle
<1>4. UNCHANGED Service!service
    BY <1>1, Stutters DEF ServiceInv, IInv, TypeOK
<1> QED
    BY <1>3, <1>4

-----------------------------------------------------------------------------
\* An operation of one client is a step of the service.
LEMMA ServiceStep ==
    ASSUME NEW c \in Clients
    PROVE  /\ \A f \in Filters : Service!AddFilter(c, f) => Service!Next
           /\ \A f \in Filters : Service!DropFilter(c, f) => Service!Next
           /\ \A clean \in BOOLEAN : Service!Detach(c, clean) => Service!Next
           /\ Service!PublishWill(c) => Service!Next
<1>1. ASSUME NEW f \in Filters, Service!AddFilter(c, f) PROVE Service!Next
    BY <1>1, Zenon DEF Service!Next
<1>2. ASSUME NEW f \in Filters, Service!DropFilter(c, f) PROVE Service!Next
    BY <1>2, Zenon DEF Service!Next
<1>3. ASSUME NEW clean \in BOOLEAN, Service!Detach(c, clean) PROVE Service!Next
    BY <1>3, Zenon DEF Service!Next
<1>4. ASSUME Service!PublishWill(c) PROVE Service!Next
    BY <1>4, Zenon DEF Service!Next
<1> QED
    BY <1>1, <1>2, <1>3, <1>4

\* Every step keeps Settled and is a step of the service or none.
LEMMA Simulation ==
    ASSUME ~Overlap, IsFiniteSet(Conns), \A s \in ClientSession : Seen(s) # None,
           ServiceInv, [Next]_vars
    PROVE  Settled' /\ [Service!Next]_Service!service
<1>1. ASSUME NEW h \in Conns, NEW c \in Clients, NEW o \in ConnectOptions,
             NEW broken \in BOOLEAN, Connect(h, c, o, broken)
      PROVE  Settled' /\ Service!Next
    BY <1>1, ConnectSettles, ConnectAttaches, Zenon DEF Service!Next
<1>2. ASSUME NEW h \in Conns, NEW f \in Filters, NEW fails \in BOOLEAN, Subscribe(h, f, fails)
      PROVE  Settled' /\ Service!Next
    <2>1. PICK c : c = cid[h]
        OBVIOUS
    <2>2. Settled' /\ c \in Clients /\ Service!AddFilter(c, f)
        BY <1>2, <2>1, SubscribeAdds
    <2> QED
        BY <2>2, ServiceStep
<1>3. ASSUME NEW h \in Conns, NEW f \in Filters, Unsubscribe(h, f)
      PROVE  Settled' /\ Service!Next
    <2>1. PICK c : c = cid[h]
        OBVIOUS
    <2>2. Settled' /\ c \in Clients /\ Service!DropFilter(c, f)
        BY <1>3, <2>1, UnsubscribeDrops
    <2> QED
        BY <2>2, ServiceStep
<1>4. ASSUME NEW h \in Conns, NEW clean \in BOOLEAN, Disconnect(h, clean)
      PROVE  Settled' /\ Service!Next
    <2>1. PICK c : c = cid[h]
        OBVIOUS
    <2>2. Settled' /\ c \in Clients /\ Service!Detach(c, clean)
        BY <1>4, <2>1, EndDetaches
    <2> QED
        BY <2>2, ServiceStep
<1>5. ASSUME NEW h \in Conns, LeaveLoop(h)
      PROVE  Settled' /\ Service!Next
    <2>1. PICK c : c = cid[h]
        OBVIOUS
    <2>2. Settled' /\ c \in Clients /\ Service!Detach(c, FALSE)
        BY <1>5, <2>1, EndDetaches
    <2> QED
        BY <2>2, ServiceStep
<1>6. ASSUME NEW h \in Conns, DisconnectClosed(h)
      PROVE  Settled' /\ UNCHANGED Service!service
    BY <1>6, SecondTeardownStutters, SecondTeardownSettles
<1>7. ASSUME NEW h \in Conns, SendWill(h)
      PROVE  Settled' /\ Service!Next
    <2>1. Settled'
        BY <1>7, OthersSettle DEF SendWill, ServiceInv, IInv, TypeOK
    <2>2. PICK c : c = cid[h]
        OBVIOUS
    <2>3. c \in Clients /\ Service!PublishWill(c)
        BY <1>7, <2>2, SendWillPublishes
    <2> QED
        BY <2>1, <2>3, ServiceStep
<1>8. ASSUME NEW h \in Conns, KickTask(h) PROVE FALSE
    BY <1>8 DEF KickTask, ServiceInv, SInv, Alone
<1>9. CASE UNCHANGED vars
    <2>1. Settled'
        BY <1>9, OthersSettle DEF vars
    <2>2. UNCHANGED Service!service
        BY <1>9, Stutters DEF vars, ServiceInv, IInv, TypeOK
    <2> QED
        BY <2>1, <2>2
<1> QED
    BY <1>1, <1>2, <1>3, <1>4, <1>5, <1>6, <1>7, <1>8, <1>9, LocalStepStutters
    DEF Next, Handler

\* No handler has a client to begin with.
LEMMA InitMaps == Init => Settled /\ Service!Init
<1> SUFFICES ASSUME Init PROVE Settled /\ Service!Init
    OBVIOUS
<1>1. Settled
    BY DEF Init, Settled
<1>2. Attached = {} /\ Stored = [c \in Clients |-> None] /\ subs = [c \in Clients |-> {}]
    BY Mapped DEF Init, Attached
<1>3. Due = [c \in Clients |-> 0] /\ WillsGone = [c \in Clients |-> 0]
    <2>1. \A c \in Clients : /\ {s \in Conns : cid[s] = c /\ willsDue[s] > 0} = {}
                             /\ {s \in Conns : cid[s] = c /\ willsSent[s] > 0} = {}
        BY DEF Init
    <2>2. Cardinality({}) = 0
        BY FS_EmptySet
    <2> QED
        BY <2>1, <2>2, Mapped
<1>4. Service!Init
    BY <1>2, <1>3, Zenon DEF Service!Init, Attached, Stored, Due, WillsGone
<1> QED
    BY <1>1, <1>4

(***************************************************************************)
(* Clients whose connections do not overlap cannot tell the handlers from  *)
(* the service, in which every operation is one step.  None must be no     *)
(* session, as it stands for the absence of one.                           *)
(***************************************************************************)
THEOREM HandlersImplementService ==
    ASSUME ~Overlap, IsFiniteSet(Conns), \A s \in ClientSession : Seen(s) # None
    PROVE  Spec => ImplementsService
<1>1. ServiceInv /\ [Next]_vars => Settled' /\ [Service!Next]_Service!service
    BY Simulation
<1>2. ServiceInv <=> IInv /\ SInv /\ Settled
    BY DEF ServiceInv
<1> QED
    BY <1>1, <1>2, InitMaps, Invariance, SequentialInvariance, PTL
    DEF Spec, ImplementsService, Service!Spec

=============================================================================
