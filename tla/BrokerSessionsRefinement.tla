---------------------- MODULE BrokerSessionsRefinement ----------------------
(***************************************************************************)
(* The handlers, the store and the routing table of BrokerSessions         *)
(* implement SessionService for clients whose connections do not overlap.  *)
(* A client is attached while it has a registered handler; the registry,   *)
(* the store and the session objects together are its session.             *)
(***************************************************************************)
EXTENDS BrokerSessions, FiniteSets

SessionOf(c) ==
    IF sessions[c] = None
    THEN None
    ELSE LET s == object[sessions[c]]
         IN  [level |-> s.level, clean |-> s.clean, expires |-> s.expires,
              will |-> s.will, subs |-> s.subs]

\* The sessions of the client c that w counts a will for.
WillsOf(c, w) == {s \in Conns : cid[s] = c /\ w[s] > 0}

Service == INSTANCE SessionService WITH
    NoSession <- None,
    attached  <- {c \in Clients : clients[c] # None},
    stored    <- [c \in Clients |-> SessionOf(c)],
    routes    <- subs,
    due       <- [c \in Clients |-> Cardinality(WillsOf(c, willsDue))],
    sent      <- [c \in Clients |-> Cardinality(WillsOf(c, willsSent))]

\* Every behaviour of the handlers is one of the service: the second teardown
\* after a DISCONNECT, a failed send, a suspended CONNACK and the closing of
\* the stream change nothing a client could see.
ImplementsService == Service!Spec

=============================================================================
