--------------------------- MODULE SessionService ---------------------------
(***************************************************************************)
(* What the broker promises a client that never connects twice at the same *)
(* time: it is attached or detached, its session is kept or not between    *)
(* two attachments, one filter at a time enters or leaves the session and  *)
(* the routes, and a will goes out when, and only when, an attachment ends *)
(* uncleanly.  There are no connections, handlers, tasks or second         *)
(* teardowns here: every operation is one step.                            *)
(***************************************************************************)
EXTENDS Naturals

CONSTANTS Clients, Filters, Levels,
          NoSession     \* the client has no stored session

VARIABLES attached,     \* the clients that are attached
          stored,       \* the session of each client
          routes,       \* the filters of each client messages are routed by
          due,          \* the wills of each client still to be published
          sent          \* the wills of each client published

service == <<attached, stored, routes, due, sent>>

Session ==
    [level: Levels, clean: BOOLEAN, expires: BOOLEAN, will: BOOLEAN,
     subs: SUBSET Filters]

Fresh ==
    {s \in Session : s.subs = {} /\ (s.expires => s.level = 5)}

Persistent(s) == ~s.clean \/ (s.level = 5 /\ s.expires)

Init ==
    /\ attached = {}
    /\ stored = [c \in Clients |-> NoSession]
    /\ routes = [c \in Clients |-> {}]
    /\ due = [c \in Clients |-> 0]
    /\ sent = [c \in Clients |-> 0]

\* A client attaches asking for the session o: the stored one or a fresh one.
Attach(c, o) ==
    /\ c \notin attached
    /\ attached' = attached \cup {c}
    /\ \/ /\ stored[c] # NoSession
          /\ stored[c].level = o.level
          /\ ~o.clean
          /\ UNCHANGED stored
          /\ routes' = [routes EXCEPT ![c] = @ \cup stored[c].subs]
       \/ /\ \/ stored[c] = NoSession
             \/ stored[c].level # o.level
             \/ o.clean
          /\ stored' = [stored EXCEPT ![c] = o]
          /\ UNCHANGED routes
    /\ UNCHANGED <<due, sent>>

\* The client is detached, its session being s and its routes r by now.
Release(c, s, r, clean) ==
    /\ attached' = attached \ {c}
    /\ stored' = [stored EXCEPT
           ![c] = IF Persistent(s) THEN [s EXCEPT !.will = FALSE] ELSE NoSession]
    /\ routes' = [routes EXCEPT ![c] = IF s.clean THEN {} ELSE r]
    /\ due' = [due EXCEPT ![c] = IF s.will /\ ~clean THEN @ + 1 ELSE @]
    /\ UNCHANGED sent

\* A filter enters or leaves; the attachment may end in the same step.
ChangeFilters(c, s, r) ==
    /\ c \in attached
    /\ \/ /\ stored' = [stored EXCEPT ![c] = s]
          /\ routes' = [routes EXCEPT ![c] = r]
          /\ UNCHANGED <<attached, due, sent>>
       \/ Release(c, s, r, FALSE)

AddFilter(c, f) ==
    ChangeFilters(c, [stored[c] EXCEPT !.subs = @ \cup {f}], routes[c] \cup {f})

DropFilter(c, f) ==
    /\ f \in routes[c]
    /\ ChangeFilters(c, [stored[c] EXCEPT !.subs = @ \ {f}], routes[c] \ {f})

Detach(c, clean) ==
    /\ c \in attached
    /\ Release(c, stored[c], routes[c], clean)

PublishWill(c) ==
    /\ due[c] > 0
    /\ due' = [due EXCEPT ![c] = @ - 1]
    /\ sent' = [sent EXCEPT ![c] = @ + 1]
    /\ UNCHANGED <<attached, stored, routes>>

Next ==
    \E c \in Clients :
        \/ \E o \in Fresh : Attach(c, o)
        \/ \E f \in Filters : AddFilter(c, f) \/ DropFilter(c, f)
        \/ \E clean \in BOOLEAN : Detach(c, clean)
        \/ PublishWill(c)

Spec == Init /\ [][Next]_service

=============================================================================
