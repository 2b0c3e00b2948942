---------------------------- MODULE Subscriptions ----------------------------
(***************************************************************************)
(* The routing table of the broker: SubscriptionStore of                   *)
(* mqtt_broker/router.py, the copy of it that sessions keep, and the       *)
(* choice of receivers in MQTTBroker.route.                                *)
(*                                                                         *)
(* _subs is a dictionary of dictionaries.  The outer one is walked in the  *)
(* order its filters were inserted, and that order decides between grants  *)
(* of equal QoS: it is the sequence order.  The order of the inner one has *)
(* no effect, so a bucket is a function with None for absent clients.      *)
(***************************************************************************)
EXTENDS Naturals, SequencesExt

CONSTANTS Clients, Filters, Topics,
          QoS,       \* the QoS levels in use, a subset of 0..2
          Matching,  \* the pairs <<filter, topic>> that topic_matches accepts
          None

ASSUME TableAssumption ==
    /\ QoS \subseteq 0..2
    /\ Matching \subseteq Filters \X Topics
    /\ None \notin [qos: QoS, noLocal: BOOLEAN] \cup QoS

Grant == [qos: QoS, noLocal: BOOLEAN]

VARIABLES order,    \* the filters of _subs in insertion order
          bucket,   \* _subs[f], for every filter
          mirror,   \* ClientSession.subscriptions, by client
          attached, \* the clients that are connected
          session,  \* the kind of the stored session of each client
          left      \* history: the filters each client has unsubscribed from

vars == <<order, bucket, mirror, attached, session, left>>

\* Persistent, clean, or clean with an expiry interval: then it is kept.
Kinds == {"persistent", "clean", "expiring"}

NoSubscriptions == [f \in Filters |-> None]

Init ==
    /\ order = <<>>
    /\ bucket = [f \in Filters |-> [c \in Clients |-> None]]
    /\ mirror = [c \in Clients |-> NoSubscriptions]
    /\ attached = {}
    /\ session = [c \in Clients |-> "none"]
    /\ left = [c \in Clients |-> {}]

Vacant(b) == \A c \in Clients : b[c] = None

\* Fault: remove_all leaves the keys of the buckets it emptied.
KeepsEmptyBuckets(seq, b) == seq

\* The keys of _subs once the empty buckets of b are gone.
Occupied(seq, b) ==
    FoldLeft(LAMBDA kept, f : IF Vacant(b[f]) THEN kept ELSE Append(kept, f), <<>>, seq)

\* The keys of _subs after SubscriptionStore.add for each filter of fs.
Inserted(seq, fs) ==
    FoldLeft(LAMBDA keys, f : IF f \in ToSet(keys) THEN keys ELSE Append(keys, f), seq, fs)

\* _handle_subscribe: add, and the copy in the session.
Subscribe(c, f, g) ==
    /\ c \in attached
    /\ order' = Inserted(order, <<f>>)
    /\ bucket' = [bucket EXCEPT ![f][c] = g]
    /\ mirror' = [mirror EXCEPT ![c][f] = g.qos]
    /\ left' = [left EXCEPT ![c] = @ \ {f}]
    /\ UNCHANGED <<attached, session>>

\* Fault: filters_for_client(...).get(tf) is tested for truth: QoS 0 is false.
HoldsTruthy(c, f) == bucket[f][c] # None /\ bucket[f][c].qos > 0

\* filters_for_client(c) has the filter f.
Holds(c, f) == bucket[f][c] # None

\* _handle_unsubscribe: remove, if the table has the filter.
Unsubscribe(c, f) ==
    /\ c \in attached
    /\ IF Holds(c, f)
       THEN /\ bucket' = [bucket EXCEPT ![f][c] = None]
            /\ order' = Occupied(order, bucket')
            /\ mirror' = [mirror EXCEPT ![c][f] = None]
       ELSE UNCHANGED <<order, bucket, mirror>>
    /\ left' = [left EXCEPT ![c] = @ \cup {f}]
    /\ UNCHANGED <<attached, session>>

\* The teardown of a persistent session: the table keeps its filters.
DetachPersistent(c) ==
    /\ c \in attached
    /\ session[c] = "persistent"
    /\ attached' = attached \ {c}
    /\ UNCHANGED <<order, bucket, mirror, session, left>>

\* The teardown of a clean session: remove_all.  The session and its copy are
\* discarded unless it has an expiry interval.
DetachClean(c) ==
    /\ c \in attached
    /\ session[c] # "persistent"
    /\ attached' = attached \ {c}
    /\ bucket' = [f \in Filters |-> [bucket[f] EXCEPT ![c] = None]]
    /\ order' = Occupied(order, bucket')
    /\ IF session[c] = "clean"
       THEN /\ session' = [session EXCEPT ![c] = "none"]
            /\ mirror' = [mirror EXCEPT ![c] = NoSubscriptions]
       ELSE UNCHANGED <<session, mirror>>
    /\ UNCHANGED left

\* CONNECT builds a session; the filters of a discarded one stay in the table.
AttachFresh(c, kind) ==
    /\ c \notin attached
    /\ attached' = attached \cup {c}
    /\ session' = [session EXCEPT ![c] = kind]
    /\ mirror' = [mirror EXCEPT ![c] = NoSubscriptions]
    /\ UNCHANGED <<order, bucket, left>>

\* Fault: restore keeps the QoS the table has.
RestoredAsBefore(c, f) ==
    IF Holds(c, f) THEN bucket[f][c] ELSE [qos |-> 0, noLocal |-> FALSE]

\* The grant restore adds; no_local is not persisted.
Restored(c, f) == [qos |-> mirror[c][f], noLocal |-> FALSE]

\* CONNECT resumes the session: restore.  The filters of the copy come in the
\* order of its own insertions, which is any order here.
AttachResumed(c) ==
    LET fs == {f \in Filters : mirror[c][f] # None}
    IN  /\ c \notin attached
        /\ session[c] # "none"
        /\ attached' = attached \cup {c}
        /\ \E seq \in SetToSeqs(fs) : order' = Inserted(order, seq)
        /\ bucket' = [f \in Filters |->
               IF f \in fs THEN [bucket[f] EXCEPT ![c] = Restored(c, f)] ELSE bucket[f]]
        /\ UNCHANGED <<mirror, session, left>>

Next ==
    \E c \in Clients :
        \/ \E f \in Filters, g \in Grant : Subscribe(c, f, g)
        \/ \E f \in Filters : Unsubscribe(c, f)
        \/ DetachPersistent(c)
        \/ DetachClean(c)
        \/ \E kind \in Kinds : AttachFresh(c, kind)
        \/ AttachResumed(c)

Spec == Init /\ [][Next]_vars

-----------------------------------------------------------------------------
\* Fault: a later filter replaces the grant of an earlier one.
LaterWins(old, new) == new # None

\* The test of matching_subscribers: the grant new replaces old.
Better(old, new) == new # None /\ (old = None \/ new.qos > old.qos)

\* matching_subscribers: what it returns for a client, None if nothing.
Selected(c, topic) ==
    FoldLeft(LAMBDA best, f :
                IF <<f, topic>> \in Matching /\ Better(best, bucket[f][c])
                THEN bucket[f][c]
                ELSE best,
             None, order)

\* route: the registered clients a message is delivered to, and the QoS.
Receives(c, topic, sender) ==
    /\ Selected(c, topic) # None
    /\ ~(Selected(c, topic).noLocal /\ c = sender)

EffectiveQoS(c, topic, qos) ==
    IF qos < Selected(c, topic).qos THEN qos ELSE Selected(c, topic).qos

-----------------------------------------------------------------------------
Grants(c, topic) ==
    {bucket[f][c] : f \in {x \in Filters : <<x, topic>> \in Matching}} \ {None}

\* The table is well typed, its keys are the filters with a subscriber and
\* none of them comes twice: the clean-ups leave no empty bucket behind.
TypeOK ==
    /\ bucket \in [Filters -> [Clients -> Grant \cup {None}]]
    /\ mirror \in [Clients -> [Filters -> QoS \cup {None}]]
    /\ ToSet(order) = {f \in Filters : ~Vacant(bucket[f])}
    /\ Len(order) = Cardinality(ToSet(order))
    /\ attached \subseteq {c \in Clients : session[c] # "none"}
    /\ session \in [Clients -> Kinds \cup {"none"}]
    /\ left \in [Clients -> SUBSET Filters]

\* "the highest QoS wins": a client that matches by several filters gets the
\* message once, with the largest QoS it was granted, capped by that of the
\* message; a client without a matching filter gets nothing.
HighestQoSWins ==
    \A c \in Clients, t \in Topics :
        /\ Selected(c, t) # None <=> Grants(c, t) # {}
        /\ \A g \in Grants(c, t), q \in QoS :
              /\ g.qos <= Selected(c, t).qos
              /\ EffectiveQoS(c, t, q) <= q
              /\ q <= g.qos => EffectiveQoS(c, t, q) = q

\* A client that is attached is routed by every filter of its session, with
\* the QoS of the session: what remove_all or an old grant did to the table is
\* made good when the session is resumed.
SessionIsRouted ==
    \A c \in attached, f \in Filters :
        mirror[c][f] # None => Holds(c, f) /\ bucket[f][c].qos = mirror[c][f]

\* A filter a client has unsubscribed from does not come back by itself, from
\* another session, the copy or the table: only SUBSCRIBE adds it again.
UnsubscribedStaysOut ==
    \A c \in Clients, f \in Filters :
        f \in left[c] => ~Holds(c, f) /\ mirror[c][f] = None

\* "no_local is OR'd": a client with a matching filter that asked for no_local
\* does not get its own messages.
NoLocalIsHonoured ==
    \A c \in Clients, t \in Topics :
        (\E g \in Grants(c, t) : g.noLocal) => ~Receives(c, t, c)

=============================================================================
