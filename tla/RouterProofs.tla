---------------------------- MODULE RouterProofs ----------------------------
(***************************************************************************)
(* Proofs about mqtt_broker/router.py.                                     *)
(*                                                                         *)
(* topic_matches is right for filters and topics of every length.  The     *)
(* routing table and the copies in the sessions agree, its keys are those  *)
(* of the buckets in use, and a client is served with the best of its      *)
(* grants, for every number of clients and filters.                        *)
(***************************************************************************)
EXTENDS TopicMatch, Subscriptions, FiniteSetTheorems, WellFoundedInduction, TLAPS

-----------------------------------------------------------------------------
(***************************************************************************)
(* The walk of topic_matches.                                              *)
(***************************************************************************)
\* The levels behind the loop fit, one by one, and none of them is "#".
Progress ==
    Running =>
        /\ fi = ti
        /\ \A i \in 1..(fi - 1) :
              filter[i] # Hash /\ LevelFits(filter[i], topic[i])

WalkInv == WalkTypeOK /\ Progress /\ MatchesExactly

\* The levels of a path.
LEMMA PathLevels ==
    ASSUME NEW p \in Paths
    PROVE  /\ Len(p) \in Nat \ {0}
           /\ \A i \in 1..Len(p) : p[i] \in Level
    BY DEF Paths

\* A filter has "#" only as its last level.
LEMMA HashIsLast ==
    ASSUME NEW f \in Paths, ValidFilter(f), NEW i \in 1..Len(f), f[i] = Hash
    PROVE  i = Len(f)
    BY LevelAssumption DEF ValidFilter

LEMMA WalkInitInv == WalkInit => WalkInv
    BY PathLevels DEF WalkInit, InitFor, WalkInv, WalkTypeOK, Progress, MatchesExactly, Running

\* Each iteration of the loop, and each way to return, keeps the invariant.
LEMMA WalkKeepsInv == WalkInv /\ [WalkNext]_walkVars => WalkInv'
<1> SUFFICES ASSUME WalkInv, [WalkNext]_walkVars PROVE WalkInv'
    OBVIOUS
<1>1. /\ filter \in Paths /\ topic \in Paths
      /\ Len(filter) \in Nat \ {0} /\ Len(topic) \in Nat \ {0}
      /\ fi \in 1..Len(filter) + 1 /\ ti \in 1..Len(topic) + 1
    BY PathLevels DEF WalkInv, WalkTypeOK
<1>2. ASSUME NEW b \in BOOLEAN, Running, Return(b),
             ValidFilter(filter) => (b <=> Covers(filter, topic))
      PROVE  WalkInv'
    BY <1>2 DEF Return, Running, WalkInv, WalkTypeOK, Progress, MatchesExactly,
               ValidFilter, Covers, FitsUpTo
<1>3. CASE HideSystemTopic
    BY <1>2, <1>3 DEF HideSystemTopic, Hidden, Covers
<1>4. CASE MatchRest
  <2>1. ASSUME ValidFilter(filter)
        PROVE  Covers(filter, topic)
    <3>1. fi = Len(filter) /\ fi = ti /\ fi <= Len(topic)
        BY <1>1, <1>4, <2>1, HashIsLast DEF MatchRest, InLoop, WalkInv, Progress
    <3>2. FitsUpTo(filter, topic, Len(filter) - 1)
        BY <1>1, <1>4, <3>1
           DEF MatchRest, InLoop, WalkInv, Progress, FitsUpTo, LevelFits
    <3> QED
        BY <1>4, <3>1, <3>2 DEF MatchRest, InLoop, Hidden, Covers
  <2> QED
      BY <1>2, <1>4, <2>1 DEF MatchRest, InLoop
<1>5. CASE MatchLevel
  <2>1. /\ fi' = fi + 1 /\ ti' = ti + 1 /\ fi = ti /\ Running
        /\ filter' = filter /\ topic' = topic /\ result' = result
        /\ fi <= Len(filter) /\ ti <= Len(topic)
        /\ filter[fi] # Hash /\ LevelFits(filter[fi], topic[ti])
      BY <1>5 DEF MatchLevel, InLoop, WalkInv, Progress
  <2>2. WalkTypeOK'
      BY <1>1, <2>1 DEF WalkInv, WalkTypeOK
  <2>3. Progress'
    <3> SUFFICES ASSUME NEW i \in 1..fi
                 PROVE  filter[i] # Hash /\ LevelFits(filter[i], topic[i])
        BY <1>1, <2>1 DEF Progress, LevelFits
    <3> QED
        BY <1>1, <2>1 DEF WalkInv, Progress
  <2>4. MatchesExactly'
      BY <2>1 DEF MatchesExactly, Running
  <2> QED
      BY <2>2, <2>3, <2>4 DEF WalkInv
<1>6. CASE Mismatch
  <2>1. ASSUME ValidFilter(filter)
        PROVE  ~Covers(filter, topic)
    <3>1. /\ fi = ti /\ fi <= Len(filter) /\ filter[fi] # Hash
          /\ ~(filter[fi] = Plus \/ filter[fi] = topic[fi])
        BY <1>6 DEF Mismatch, InLoop, WalkInv, Progress, LevelFits
    <3>2. filter[Len(filter)] = Hash => fi \in 1..Len(filter) - 1
        BY <1>1, <3>1
    <3> QED
        BY <1>1, <3>1, <3>2 DEF Covers, FitsUpTo
  <2> QED
      BY <1>2, <1>6, <2>1 DEF Mismatch, InLoop
<1>7. CASE LeaveLoop
  <2>1. /\ Running /\ ~Hidden /\ fi = ti
        /\ fi > Len(filter) \/ fi > Len(topic)
        /\ \A i \in 1..(fi - 1) :
              filter[i] # Hash /\ (filter[i] = Plus \/ filter[i] = topic[i])
      BY <1>7 DEF LeaveLoop, WalkInv, Progress, LevelFits
  <2>2. ASSUME ValidFilter(filter)
        PROVE  AtEnd <=> Covers(filter, topic)
    <3>1. CASE fi = Len(filter) + 1
        BY <1>1, <2>1, <3>1 DEF AtEnd, Covers, FitsUpTo, Hidden
    <3>2. CASE fi <= Len(filter) /\ filter[fi] = Hash
      <4>1. fi = Len(filter)
          BY <1>1, <2>2, <3>2, HashIsLast
      <4> QED
          BY <1>1, <2>1, <3>2, <4>1 DEF AtEnd, Covers, FitsUpTo, Hidden
    <3>3. CASE fi <= Len(filter) /\ filter[fi] # Hash
      <4>1. fi = Len(topic) + 1 /\ ~AtEnd
          BY <1>1, <2>1, <3>3 DEF AtEnd
      <4>2. filter[Len(filter)] = Hash => fi <= Len(filter) - 1
          BY <1>1, <3>3
      <4> QED
          BY <1>1, <3>3, <4>1, <4>2 DEF Covers, FitsUpTo
    <3> QED
        BY <1>1, <3>1, <3>2, <3>3
  <2> QED
      BY <1>2, <1>7, <2>1, <2>2 DEF LeaveLoop, AtEnd
<1>8. CASE UNCHANGED walkVars
    BY <1>8 DEF walkVars, WalkInv, WalkTypeOK, Progress, MatchesExactly, Running
<1> QED
    BY <1>3, <1>4, <1>5, <1>6, <1>7, <1>8 DEF WalkNext

\* topic_matches decides the matching relation of MQTT for every valid filter
\* and every topic, whatever their lengths and levels.
THEOREM MatchesAreExact == WalkSpec => []MatchesExactly
<1>1. WalkInit => WalkInv
    BY WalkInitInv
<1>2. WalkInv /\ [WalkNext]_walkVars => WalkInv'
    BY WalkKeepsInv
<1>3. WalkInv => MatchesExactly
    BY DEF WalkInv
<1> QED
    BY <1>1, <1>2, <1>3, PTL DEF WalkSpec

\* Neither index ever passes the end of its path by more than one, so the loop
\* reads existing levels only.
THEOREM IndicesStayInBounds == WalkSpec => []WalkTypeOK
<1>1. WalkInv => WalkTypeOK
    BY DEF WalkInv
<1> QED
    BY <1>1, WalkInitInv, WalkKeepsInv, PTL DEF WalkSpec

-----------------------------------------------------------------------------
(***************************************************************************)
(* The routing table.  The loops of router.py are folds over the keys.     *)
(* They are reasoned about by induction on the keys done, which the        *)
(* well-founded order of the naturals gives for a set of numbers           *)
(* (SetInduction).                                                         *)
(***************************************************************************)
Types ==
    /\ bucket \in [Filters -> [Clients -> Grant \cup {None}]]
    /\ mirror \in [Clients -> [Filters -> QoS \cup {None}]]
    /\ attached \in SUBSET Clients
    /\ left \in [Clients -> SUBSET Filters]

IInv == Types /\ SessionIsRouted /\ UnsubscribedStaysOut

\* None is neither a QoS nor a grant, and the QoS of a grant is one.
LEMMA GrantFacts ==
    /\ None \notin Grant /\ None \notin QoS
    /\ \A g \in Grant : g.qos \in QoS
    /\ \A q \in QoS : /\ [qos |-> q, noLocal |-> FALSE] \in Grant
                      /\ [qos |-> q, noLocal |-> FALSE].qos = q
    BY TableAssumption DEF Grant

\* One entry of a function of functions is replaced.
LEMMA EntryReplaced ==
    ASSUME NEW A, NEW B, NEW V, NEW m \in [A -> [B -> V]],
           NEW a \in A, NEW b \in B, NEW v \in V
    PROVE  [m EXCEPT ![a][b] = v] \in [A -> [B -> V]]
    OBVIOUS

LEMMA InitIInv == Init => IInv
    BY DEF Init, IInv, Types, SessionIsRouted, UnsubscribedStaysOut,
           NoSubscriptions, Holds

\* The grants and copies of the filters a step of the client c leaves alone.
Elsewhere(c, F) ==
    /\ \A d \in Clients \ {c}, f \in Filters :
          bucket'[f][d] = bucket[f][d] /\ mirror'[d][f] = mirror[d][f]
    /\ \A f \in F :
          bucket'[f][c] = bucket[f][c] /\ mirror'[c][f] = mirror[c][f]

\* What the table and the copy agreed on before a step they still agree on
\* wherever it changed neither.
LEMMA Frame ==
    ASSUME IInv, NEW c \in Clients, NEW F \in SUBSET Filters, Elsewhere(c, F),
           attached' \subseteq attached \cup {c},
           \A f \in Filters \ F : c \in attached' /\ mirror'[c][f] # None =>
               Holds(c, f)' /\ bucket'[f][c].qos = mirror'[c][f],
           F = {} \/ c \in attached
    PROVE  SessionIsRouted'
<1> SUFFICES ASSUME NEW d \in attached', NEW f \in Filters, mirror'[d][f] # None
             PROVE  Holds(d, f)' /\ bucket'[f][d].qos = mirror'[d][f]
    BY DEF SessionIsRouted
<1>1. CASE d # c
  <2>1. d \in attached /\ d \in Clients
      BY <1>1 DEF IInv, Types
  <2>2. bucket'[f][d] = bucket[f][d] /\ mirror'[d][f] = mirror[d][f]
      BY <1>1, <2>1 DEF Elsewhere
  <2> QED
      BY <2>1, <2>2 DEF IInv, SessionIsRouted, Holds
<1>2. CASE d = c /\ f \in F
  <2>1. c \in attached /\ bucket'[f][c] = bucket[f][c] /\ mirror'[c][f] = mirror[c][f]
      BY <1>2 DEF Elsewhere
  <2> QED
      BY <1>2, <2>1 DEF IInv, SessionIsRouted, Holds
<1>3. CASE d = c /\ f \notin F
    BY <1>3
<1> QED
    BY <1>1, <1>2, <1>3

LEMMA SubscribeKeepsIInv ==
    ASSUME IInv, NEW c \in Clients, NEW f \in Filters, NEW g \in Grant,
           Subscribe(c, f, g)
    PROVE  IInv'
<1> USE DEF IInv
<1>1. Types'
    BY GrantFacts DEF Types, Subscribe
<1>2. /\ bucket'[f][c] = g /\ mirror'[c][f] = g.qos
      /\ Elsewhere(c, Filters \ {f})
      /\ attached' = attached
      /\ left' = [left EXCEPT ![c] = @ \ {f}]
    BY DEF Types, Subscribe, Elsewhere
<1>3. SessionIsRouted'
  <2>1. c \in attached /\ Filters \ {f} \in SUBSET Filters
      BY DEF Subscribe
  <2>2. \A e \in Filters \ (Filters \ {f}) :
            Holds(c, e)' /\ bucket'[e][c].qos = mirror'[c][e]
      BY <1>2, GrantFacts DEF Holds
  <2> QED
      BY <1>2, <2>1, <2>2, Frame
<1>4. UnsubscribedStaysOut'
    BY <1>2 DEF UnsubscribedStaysOut, Elsewhere, Holds, Types
<1> QED
    BY <1>1, <1>3, <1>4

LEMMA UnsubscribeKeepsIInv ==
    ASSUME IInv, NEW c \in Clients, NEW f \in Filters, Unsubscribe(c, f)
    PROVE  IInv'
<1> USE DEF IInv
<1>1. Types'
  <2>1. /\ bucket' = [bucket EXCEPT ![f][c] = None] \/ bucket' = bucket
        /\ mirror' = [mirror EXCEPT ![c][f] = None] \/ mirror' = mirror
        /\ left' = [left EXCEPT ![c] = @ \cup {f}]
        /\ attached' = attached
      BY DEF Unsubscribe
  <2>2. bucket' \in [Filters -> [Clients -> Grant \cup {None}]]
    <3>1. [bucket EXCEPT ![f][c] = None] \in [Filters -> [Clients -> Grant \cup {None}]]
        BY EntryReplaced DEF Types
    <3> QED
        BY <2>1, <3>1 DEF Types
  <2>3. mirror' \in [Clients -> [Filters -> QoS \cup {None}]]
    <3>1. [mirror EXCEPT ![c][f] = None] \in [Clients -> [Filters -> QoS \cup {None}]]
        BY EntryReplaced DEF Types
    <3> QED
        BY <2>1, <3>1 DEF Types
  <2> QED
      BY <2>1, <2>2, <2>3 DEF Types
<1>2. /\ bucket'[f][c] = None /\ mirror'[c][f] = None
      /\ Elsewhere(c, Filters \ {f})
  <2>1. CASE Holds(c, f)
    <3>1. /\ bucket' = [bucket EXCEPT ![f][c] = None]
          /\ mirror' = [mirror EXCEPT ![c][f] = None]
        BY <2>1 DEF Unsubscribe
    <3>2. bucket'[f][c] = None /\ mirror'[c][f] = None
        BY <3>1 DEF Types
    <3>3. \A d \in Clients, e \in Filters : d # c \/ e # f =>
              bucket'[e][d] = bucket[e][d] /\ mirror'[d][e] = mirror[d][e]
        BY <3>1 DEF Types
    <3> QED
        BY <3>2, <3>3 DEF Elsewhere
  <2>2. CASE ~Holds(c, f)
    <3>1. mirror[c][f] = None
        BY <2>2 DEF Unsubscribe, SessionIsRouted
    <3> QED
        BY <2>2, <3>1 DEF Types, Unsubscribe, Elsewhere, Holds
  <2> QED
      BY <2>1, <2>2
<1>3. attached' = attached /\ left' = [left EXCEPT ![c] = @ \cup {f}]
    BY DEF Unsubscribe
<1>4. SessionIsRouted'
  <2>1. c \in attached /\ Filters \ {f} \in SUBSET Filters
      BY DEF Unsubscribe
  <2>2. \A e \in Filters \ (Filters \ {f}) : mirror'[c][e] = None
      BY <1>2
  <2> QED
      BY <1>2, <1>3, <2>1, <2>2, Frame
<1>5. UnsubscribedStaysOut'
    BY <1>2, <1>3 DEF UnsubscribedStaysOut, Elsewhere, Holds, Types
<1> QED
    BY <1>1, <1>4, <1>5

LEMMA DetachKeepsIInv ==
    ASSUME IInv, NEW c \in Clients, DetachPersistent(c) \/ DetachClean(c)
    PROVE  IInv'
<1> USE DEF IInv
<1>1. CASE DetachPersistent(c)
    BY <1>1 DEF DetachPersistent, Types, SessionIsRouted, UnsubscribedStaysOut, Holds
<1>2. CASE DetachClean(c)
  <2>1. Types'
    <3>1. bucket' \in [Filters -> [Clients -> Grant \cup {None}]]
        BY <1>2 DEF DetachClean, Types
    <3>2. mirror' \in [Clients -> [Filters -> QoS \cup {None}]]
      <4>1. \/ mirror' = mirror
            \/ mirror' = [mirror EXCEPT ![c] = [f \in Filters |-> None]]
          BY <1>2 DEF DetachClean, NoSubscriptions
      <4> QED
          BY <4>1 DEF Types
    <3> QED
        BY <1>2, <3>1, <3>2 DEF DetachClean, Types
  <2>2. /\ \A f \in Filters : /\ bucket'[f][c] = None
                              /\ mirror'[c][f] \in {None, mirror[c][f]}
        /\ Elsewhere(c, {})
        /\ attached' = attached \ {c}
        /\ left' = left
      BY <1>2 DEF DetachClean, Types, NoSubscriptions, Elsewhere
  <2>3. SessionIsRouted'
      BY <2>2, Frame
  <2>4. UnsubscribedStaysOut'
      BY <2>2 DEF UnsubscribedStaysOut, Elsewhere, Holds
  <2> QED
      BY <2>1, <2>3, <2>4
<1> QED
    BY <1>1, <1>2

LEMMA AttachKeepsIInv ==
    ASSUME IInv, NEW c \in Clients,
           AttachResumed(c) \/ \E kind \in Kinds : AttachFresh(c, kind)
    PROVE  IInv'
<1> USE DEF IInv
<1>1. ASSUME NEW kind \in Kinds, AttachFresh(c, kind)
      PROVE  IInv'
  <2>1. Types'
      BY <1>1 DEF AttachFresh, Types, NoSubscriptions
  <2>2. /\ \A f \in Filters : /\ bucket'[f][c] = bucket[f][c]
                              /\ mirror'[c][f] = None
        /\ Elsewhere(c, {})
        /\ attached' = attached \cup {c}
        /\ left' = left
      BY <1>1 DEF AttachFresh, Types, NoSubscriptions, Elsewhere
  <2>3. SessionIsRouted'
      BY <2>2, Frame
  <2>4. UnsubscribedStaysOut'
      BY <2>2 DEF UnsubscribedStaysOut, Elsewhere, Holds
  <2> QED
      BY <2>1, <2>3, <2>4
<1>2. CASE AttachResumed(c)
  <2>1. /\ bucket' = [f \in Filters |->
               IF mirror[c][f] # None
               THEN [bucket[f] EXCEPT ![c] = [qos |-> mirror[c][f], noLocal |-> FALSE]]
               ELSE bucket[f]]
        /\ attached' = attached \cup {c}
        /\ UNCHANGED <<mirror, left>>
      BY <1>2 DEF AttachResumed, Restored
  <2>2. \A f \in Filters : mirror[c][f] # None =>
            [qos |-> mirror[c][f], noLocal |-> FALSE] \in Grant
      BY GrantFacts DEF Types
  <2>3. Types'
      BY <2>1, <2>2 DEF Types
  <2>4. /\ \A f \in Filters :
              IF mirror[c][f] # None
              THEN bucket'[f][c] = [qos |-> mirror[c][f], noLocal |-> FALSE]
              ELSE bucket'[f][c] = bucket[f][c]
        /\ Elsewhere(c, {})
      BY <2>1 DEF Types, Elsewhere
  <2>5. SessionIsRouted'
      BY <2>1, <2>2, <2>4, GrantFacts DEF SessionIsRouted, Elsewhere, Holds, Types
  <2>6. UnsubscribedStaysOut'
      BY <2>1, <2>4 DEF UnsubscribedStaysOut, Elsewhere, Holds
  <2> QED
      BY <2>3, <2>5, <2>6
<1> QED
    BY <1>1, <1>2

LEMMA NextKeepsIInv == IInv /\ [Next]_vars => IInv'
<1> SUFFICES ASSUME IInv, [Next]_vars PROVE IInv'
    OBVIOUS
<1>1. CASE UNCHANGED vars
    BY <1>1 DEF vars, IInv, Types, SessionIsRouted, UnsubscribedStaysOut, Holds
<1> QED
    BY <1>1, SubscribeKeepsIInv, UnsubscribeKeepsIInv, DetachKeepsIInv,
       AttachKeepsIInv DEF Next

\* Copies and table agree in every behaviour.
THEOREM Invariance == Spec => []IInv
<1> QED
    BY InitIInv, NextKeepsIInv, PTL DEF Spec

\* A resumed session is routed again by all of its filters, with their QoS.
THEOREM SessionsAreRouted == Spec => []SessionIsRouted
<1>1. IInv => SessionIsRouted
    BY DEF IInv
<1> QED
    BY <1>1, Invariance, PTL

\* No reconnection brings back a filter the client unsubscribed from.
THEOREM UnsubscribedFiltersStayOut == Spec => []UnsubscribedStaysOut
<1>1. IInv => UnsubscribedStaysOut
    BY DEF IInv
<1> QED
    BY <1>1, Invariance, PTL

-----------------------------------------------------------------------------
\* The order of the naturals is well-founded and relates a number to the next.
LEMMA OrderOfNat ==
    \E R : /\ IsWellFoundedOn(R, Nat)
           /\ \A n \in Nat : <<n, n + 1>> \in R
<1>1. \A n \in Nat : <<n, n + 1>> \in OpToRel(<, Nat)
    <2> TAKE n \in Nat
    <2>1. <<n, n + 1>> \in Nat \X Nat /\ n < n + 1
        OBVIOUS
    <2>2. <<n, n + 1>>[1] = n /\ <<n, n + 1>>[2] = n + 1
        OBVIOUS
    <2> QED
        BY <2>1, <2>2, Zenon DEF OpToRel
<1> QED
    BY <1>1, NatLessThanWellFounded, Zenon

\* Induction over the naturals, for a set.
LEMMA SetInduction ==
    ASSUME NEW T, 0 \in T, \A n \in Nat : n \in T => n + 1 \in T
    PROVE  Nat \subseteq T
<1> SUFFICES ASSUME Nat \ T # {} PROVE FALSE
    OBVIOUS
<1>1. PICK R : /\ IsWellFoundedOn(R, Nat)
               /\ \A n \in Nat : <<n, n + 1>> \in R
    BY OrderOfNat
<1>2. PICK n \in Nat \ T : \A m \in Nat \ T : <<m, n>> \notin R
    BY <1>1, WFMin
<1>3. n # 0 /\ n - 1 \in Nat /\ (n - 1) + 1 = n
    OBVIOUS
<1>4. n - 1 \in T
    BY <1>1, <1>2, <1>3
<1> QED
    BY <1>3, <1>4

\* The largest index is the last.
LEMMA LastIsMax ==
    ASSUME NEW k \in Nat, NEW s \in SUBSET (1..k), k \in s
    PROVE  Max(s) = k
<1>1. \A x \in s : x \in Int /\ x <= k
    OBVIOUS
<1>2. \A x \in s : (\A y \in s : x >= y) <=> x = k
    BY <1>1
<1> QED
    BY <1>2 DEF Max

\* A fold with a step that is a function has values for all sets of indices.
FoldsOver(g, k, A, base, F, q) ==
    /\ g \in [SUBSET (1..k) -> A]
    /\ \A s \in SUBSET (1..k) :
          /\ g[s] = IF s = {} THEN base ELSE F[<<g[s \ {Max(s)}], q[Max(s)]>>]
          /\ s # {} => Max(s) \in s

LEMMA FoldExists ==
    ASSUME NEW A, NEW S, NEW base \in A, NEW F \in [A \X S -> A], NEW q \in Seq(S)
    PROVE  \E g : FoldsOver(g, Len(q), A, base, F, q)
<1> DEFINE T == {k \in Nat : k <= Len(q) => \E g : FoldsOver(g, k, A, base, F, q)}
<1>1. 0 \in T
    <2>1. FoldsOver([s \in SUBSET (1..0) |-> base], 0, A, base, F, q)
        <3>1. \A s \in SUBSET (1..0) : s = {}
            OBVIOUS
        <3> QED
            BY <3>1 DEF FoldsOver
    <2> QED
        BY <2>1
<1>2. ASSUME NEW k \in Nat, k \in T PROVE k + 1 \in T
    <2> SUFFICES ASSUME k + 1 <= Len(q)
                 PROVE  \E g : FoldsOver(g, k + 1, A, base, F, q)
        OBVIOUS
    <2>1. PICK g : FoldsOver(g, k, A, base, F, q)
        BY <1>2
    <2>2. q[k + 1] \in S
        OBVIOUS
    <2> DEFINE h == [s \in SUBSET (1..(k + 1)) |->
                        IF k + 1 \in s THEN F[<<g[s \ {k + 1}], q[k + 1]>>] ELSE g[s]]
    <2>3. \A s \in SUBSET (1..(k + 1)) : s \ {k + 1} \in SUBSET (1..k)
        OBVIOUS
    <2>4. \A s \in SUBSET (1..(k + 1)) : k + 1 \notin s => s \in SUBSET (1..k)
        OBVIOUS
    <2>5. \A s \in SUBSET (1..k) : s \in SUBSET (1..(k + 1)) /\ k + 1 \notin s
        OBVIOUS
    <2>6. h \in [SUBSET (1..(k + 1)) -> A]
        <3>1. \A s \in SUBSET (1..k) : g[s] \in A
            BY <2>1 DEF FoldsOver
        <3>2. \A a \in A : F[<<a, q[k + 1]>>] \in A
            BY <2>2
        <3> QED
            BY <2>3, <2>4, <3>1, <3>2
    <2>7. ASSUME NEW s \in SUBSET (1..(k + 1))
          PROVE  /\ h[s] = IF s = {} THEN base ELSE F[<<h[s \ {Max(s)}], q[Max(s)]>>]
                 /\ s # {} => Max(s) \in s
        <3>1. CASE k + 1 \in s
            <4>1. Max(s) = k + 1
                BY <3>1, LastIsMax
            <4>2. h[s \ {k + 1}] = g[s \ {k + 1}]
                BY <2>3, <2>5
            <4> QED
                BY <3>1, <4>1, <4>2
        <3>2. CASE k + 1 \notin s
            <4>1. s \in SUBSET (1..k) /\ h[s] = g[s]
                BY <2>4, <3>2
            <4>2. s \ {Max(s)} \in SUBSET (1..k)
                BY <4>1, Zenon
            <4>3. h[s \ {Max(s)}] = g[s \ {Max(s)}]
                BY <2>5, <4>2
            <4> QED
                BY <2>1, <4>1, <4>3 DEF FoldsOver
        <3> QED
            BY <3>1, <3>2
    <2>8. FoldsOver(h, k + 1, A, base, F, q)
        BY <2>6, <2>7 DEF FoldsOver
    <2> QED
        BY <2>8
<1>3. Len(q) \in Nat /\ Len(q) \in T
    <2> HIDE DEF T
    <2>1. Nat \subseteq T
        BY <1>1, <1>2, SetInduction
    <2> QED
        BY <2>1
<1> QED
    BY <1>3

\* The prefixes of a sequence, as sets of indices.
LEMMA PrefixWithin ==
    ASSUME NEW n \in Nat, NEW k \in 0..n
    PROVE  1..k \in SUBSET (1..n)
<1>1. \A i \in 1..k : i \in 1..n
    OBVIOUS
<1> QED
    BY <1>1, Zenon

LEMMA LastOfPrefix ==
    ASSUME NEW n \in Nat, NEW k \in 1..n
    PROVE  1..k # {} /\ Max(1..k) = k /\ (1..k) \ {k} = 1..(k - 1)
<1>1. k \in Nat /\ k \in 1..k
    OBVIOUS
<1>2. 1..k \in SUBSET (1..k)
    OBVIOUS
<1>3. Max(1..k) = k
    BY <1>1, <1>2, LastIsMax
<1>4. (1..k) \ {k} = 1..(k - 1)
    OBVIOUS
<1> QED
    BY <1>1, <1>3, <1>4

\* What remove_all, add and matching_subscribers do with one more key f.
Kept(b, kept, f) == IF Vacant(b[f]) THEN kept ELSE Append(kept, f)

Added(keys, f) == IF f \in ToSet(keys) THEN keys ELSE Append(keys, f)

Best(c, t, best, f) ==
    IF <<f, t>> \in Matching /\ Better(best, bucket[f][c]) THEN bucket[f][c] ELSE best

\* The loop of remove_all is a sequence of such steps, one for each key.
LEMMA OccupiedSteps ==
    ASSUME NEW q \in Seq(Filters), NEW b
    PROVE  \E v : /\ v[0] = <<>>
                  /\ \A k \in 1..Len(q) : v[k] = Kept(b, v[k - 1], q[k])
                  /\ Occupied(q, b) = v[Len(q)]
<1> DEFINE A == Seq(Filters)
           F == [p \in A \X Filters |-> Kept(b, p[1], p[2])]
           Body(g) == [s \in SUBSET (DOMAIN q) |->
                          IF s = {} THEN <<>> ELSE Kept(b, g[s \ {Max(s)}], q[Max(s)])]
           iter == CHOOSE g : g = Body(g)
           v == [k \in 0..Len(q) |-> iter[1..k]]
<1>1. /\ F \in [A \X Filters -> A]
      /\ \A a \in A, f \in Filters : F[<<a, f>>] = Kept(b, a, f)
    BY DEF Kept
<1> HIDE DEF F
<1>2. PICK g : FoldsOver(g, Len(q), A, <<>>, F, q)
  <2>1. <<>> \in A
      OBVIOUS
  <2> HIDE DEF A, F
  <2> QED
      BY <1>1, <2>1, FoldExists
<1>3. Len(q) \in Nat /\ DOMAIN q = 1..Len(q)
    OBVIOUS
<1>4. ASSUME NEW s \in SUBSET (1..Len(q))
      PROVE  g[s] = IF s = {} THEN <<>> ELSE Kept(b, g[s \ {Max(s)}], q[Max(s)])
  <2>1. CASE s # {}
    <3>1. Max(s) \in s /\ g[s] = F[<<g[s \ {Max(s)}], q[Max(s)]>>]
        BY <1>2, <2>1 DEF FoldsOver
    <3>2. s \ {Max(s)} \in SUBSET (1..Len(q))
        BY Zenon
    <3>3. g[s \ {Max(s)}] \in A
        BY <1>2, <3>2 DEF FoldsOver
    <3>4. q[Max(s)] \in Filters
      <4>1. \A i \in s : q[i] \in Filters
          OBVIOUS
      <4> QED
          BY <3>1, <4>1
    <3> QED
        BY <1>1, <2>1, <3>1, <3>3, <3>4
  <2>2. CASE s = {}
      BY <1>2, <2>2 DEF FoldsOver
  <2> QED
      BY <2>1, <2>2
<1>5. g = Body(g)
  <2>1. g = [s \in SUBSET (1..Len(q)) |-> g[s]]
      BY <1>2 DEF FoldsOver
  <2> QED
      BY <1>3, <1>4, <2>1
<1>6. iter = Body(iter)
  <2> HIDE DEF Body
  <2> QED
      BY <1>5
<1>7. Occupied(q, b) = iter[1..Len(q)]
    BY <1>3 DEF Occupied, FoldLeft, MapThenFoldSet, Kept
<1>8. \A s \in SUBSET (1..Len(q)) :
          iter[s] = IF s = {} THEN <<>> ELSE Kept(b, iter[s \ {Max(s)}], q[Max(s)])
  <2> HIDE DEF iter
  <2> QED
      BY <1>3, <1>6
<1> HIDE DEF iter
<1>9. v[0] = <<>> /\ Occupied(q, b) = v[Len(q)]
  <2>1. /\ 0 \in 0..Len(q) /\ Len(q) \in 0..Len(q)
        /\ 1..0 = {} /\ 1..0 \in SUBSET (1..Len(q))
      BY <1>3
  <2> QED
      BY <1>7, <1>8, <2>1
<1>10. ASSUME NEW k \in 1..Len(q)
       PROVE  v[k] = Kept(b, v[k - 1], q[k])
  <2>1. k \in 0..Len(q) /\ k - 1 \in 0..Len(q)
      BY <1>3
  <2>2. /\ 1..k \in SUBSET (1..Len(q)) /\ 1..k # {}
        /\ Max(1..k) = k /\ (1..k) \ {k} = 1..(k - 1)
      BY <1>3, <2>1, PrefixWithin, LastOfPrefix, Zenon
  <2> QED
      BY <1>8, <2>1, <2>2
<1> HIDE DEF v
<1> QED
    BY <1>9, <1>10

\* The calls of add, too.
LEMMA InsertedSteps ==
    ASSUME NEW r \in Seq(Filters), NEW q \in Seq(Filters)
    PROVE  \E v : /\ v[0] = r
                  /\ \A k \in 1..Len(q) : v[k] = Added(v[k - 1], q[k])
                  /\ Inserted(r, q) = v[Len(q)]
<1> DEFINE A == Seq(Filters)
           F == [p \in A \X Filters |-> Added(p[1], p[2])]
           Body(g) == [s \in SUBSET (DOMAIN q) |->
                          IF s = {} THEN r ELSE Added(g[s \ {Max(s)}], q[Max(s)])]
           iter == CHOOSE g : g = Body(g)
           v == [k \in 0..Len(q) |-> iter[1..k]]
<1>1. /\ F \in [A \X Filters -> A]
      /\ \A a \in A, f \in Filters : F[<<a, f>>] = Added(a, f)
    BY DEF Added
<1> HIDE DEF F
<1>2. PICK g : FoldsOver(g, Len(q), A, r, F, q)
  <2>1. r \in A
      OBVIOUS
  <2> HIDE DEF A, F
  <2> QED
      BY <1>1, <2>1, FoldExists
<1>3. Len(q) \in Nat /\ DOMAIN q = 1..Len(q)
    OBVIOUS
<1>4. ASSUME NEW s \in SUBSET (1..Len(q))
      PROVE  g[s] = IF s = {} THEN r ELSE Added(g[s \ {Max(s)}], q[Max(s)])
  <2>1. CASE s # {}
    <3>1. Max(s) \in s /\ g[s] = F[<<g[s \ {Max(s)}], q[Max(s)]>>]
        BY <1>2, <2>1 DEF FoldsOver
    <3>2. s \ {Max(s)} \in SUBSET (1..Len(q))
        BY Zenon
    <3>3. g[s \ {Max(s)}] \in A
        BY <1>2, <3>2 DEF FoldsOver
    <3>4. q[Max(s)] \in Filters
      <4>1. \A i \in s : q[i] \in Filters
          OBVIOUS
      <4> QED
          BY <3>1, <4>1
    <3> QED
        BY <1>1, <2>1, <3>1, <3>3, <3>4
  <2>2. CASE s = {}
      BY <1>2, <2>2 DEF FoldsOver
  <2> QED
      BY <2>1, <2>2
<1>5. g = Body(g)
  <2>1. g = [s \in SUBSET (1..Len(q)) |-> g[s]]
      BY <1>2 DEF FoldsOver
  <2> QED
      BY <1>3, <1>4, <2>1
<1>6. iter = Body(iter)
  <2> HIDE DEF Body
  <2> QED
      BY <1>5
<1>7. Inserted(r, q) = iter[1..Len(q)]
    BY <1>3 DEF Inserted, FoldLeft, MapThenFoldSet, Added
<1>8. \A s \in SUBSET (1..Len(q)) :
          iter[s] = IF s = {} THEN r ELSE Added(iter[s \ {Max(s)}], q[Max(s)])
  <2> HIDE DEF iter
  <2> QED
      BY <1>3, <1>6
<1> HIDE DEF iter
<1>9. v[0] = r /\ Inserted(r, q) = v[Len(q)]
  <2>1. /\ 0 \in 0..Len(q) /\ Len(q) \in 0..Len(q)
        /\ 1..0 = {} /\ 1..0 \in SUBSET (1..Len(q))
      BY <1>3
  <2> QED
      BY <1>7, <1>8, <2>1
<1>10. ASSUME NEW k \in 1..Len(q)
       PROVE  v[k] = Added(v[k - 1], q[k])
  <2>1. k \in 0..Len(q) /\ k - 1 \in 0..Len(q)
      BY <1>3
  <2>2. /\ 1..k \in SUBSET (1..Len(q)) /\ 1..k # {}
        /\ Max(1..k) = k /\ (1..k) \ {k} = 1..(k - 1)
      BY <1>3, <2>1, PrefixWithin, LastOfPrefix, Zenon
  <2> QED
      BY <1>8, <2>1, <2>2
<1> HIDE DEF v
<1> QED
    BY <1>9, <1>10

\* And the loop of matching_subscribers.
LEMMA SelectedSteps ==
    ASSUME order \in Seq(Filters), Types, NEW c \in Clients, NEW t
    PROVE  \E v : /\ v[0] = None
                  /\ \A k \in 1..Len(order) : v[k] = Best(c, t, v[k - 1], order[k])
                  /\ Selected(c, t) = v[Len(order)]
<1> DEFINE A == Grant \cup {None}
           F == [p \in A \X Filters |-> Best(c, t, p[1], p[2])]
           Body(g) == [s \in SUBSET (DOMAIN order) |->
                          IF s = {} THEN None ELSE Best(c, t, g[s \ {Max(s)}], order[Max(s)])]
           iter == CHOOSE g : g = Body(g)
           v == [k \in 0..Len(order) |-> iter[1..k]]
<1>1. /\ F \in [A \X Filters -> A]
      /\ \A a \in A, f \in Filters : F[<<a, f>>] = Best(c, t, a, f)
    BY DEF Best, Types
<1> HIDE DEF F
<1>2. PICK g : FoldsOver(g, Len(order), A, None, F, order)
  <2>1. None \in A
      OBVIOUS
  <2> HIDE DEF A, F
  <2> QED
      BY <1>1, <2>1, FoldExists
<1>3. Len(order) \in Nat /\ DOMAIN order = 1..Len(order)
    OBVIOUS
<1>4. ASSUME NEW s \in SUBSET (1..Len(order))
      PROVE  g[s] = IF s = {} THEN None ELSE Best(c, t, g[s \ {Max(s)}], order[Max(s)])
  <2>1. CASE s # {}
    <3>1. Max(s) \in s /\ g[s] = F[<<g[s \ {Max(s)}], order[Max(s)]>>]
        BY <1>2, <2>1 DEF FoldsOver
    <3>2. s \ {Max(s)} \in SUBSET (1..Len(order))
        BY Zenon
    <3>3. g[s \ {Max(s)}] \in A
        BY <1>2, <3>2 DEF FoldsOver
    <3>4. order[Max(s)] \in Filters
      <4>1. \A i \in s : order[i] \in Filters
          OBVIOUS
      <4> QED
          BY <3>1, <4>1
    <3> QED
        BY <1>1, <2>1, <3>1, <3>3, <3>4
  <2>2. CASE s = {}
      BY <1>2, <2>2 DEF FoldsOver
  <2> QED
      BY <2>1, <2>2
<1>5. g = Body(g)
  <2>1. g = [s \in SUBSET (1..Len(order)) |-> g[s]]
      BY <1>2 DEF FoldsOver
  <2> QED
      BY <1>3, <1>4, <2>1
<1>6. iter = Body(iter)
  <2> HIDE DEF Body
  <2> QED
      BY <1>5
<1>7. Selected(c, t) = iter[1..Len(order)]
    BY <1>3 DEF Selected, FoldLeft, MapThenFoldSet, Best
<1>8. \A s \in SUBSET (1..Len(order)) :
          iter[s] = IF s = {} THEN None ELSE Best(c, t, iter[s \ {Max(s)}], order[Max(s)])
  <2> HIDE DEF iter
  <2> QED
      BY <1>3, <1>6
<1> HIDE DEF iter
<1>9. v[0] = None /\ Selected(c, t) = v[Len(order)]
  <2>1. /\ 0 \in 0..Len(order) /\ Len(order) \in 0..Len(order)
        /\ 1..0 = {} /\ 1..0 \in SUBSET (1..Len(order))
      BY <1>3
  <2> QED
      BY <1>7, <1>8, <2>1
<1>10. ASSUME NEW k \in 1..Len(order)
       PROVE  v[k] = Best(c, t, v[k - 1], order[k])
  <2>1. k \in 0..Len(order) /\ k - 1 \in 0..Len(order)
      BY <1>3
  <2>2. /\ 1..k \in SUBSET (1..Len(order)) /\ 1..k # {}
        /\ Max(1..k) = k /\ (1..k) \ {k} = 1..(k - 1)
      BY <1>3, <2>1, PrefixWithin, LastOfPrefix, Zenon
  <2> QED
      BY <1>8, <2>1, <2>2
<1> HIDE DEF v
<1> QED
    BY <1>9, <1>10

\* Sequences of keys that come once.
Distinct == {q \in Seq(Filters) : IsInjective(q)}

LEMMA AppendKey ==
    ASSUME NEW q \in Distinct, NEW f \in Filters, f \notin ToSet(q)
    PROVE  Append(q, f) \in Distinct /\ ToSet(Append(q, f)) = ToSet(q) \cup {f}
<1>1. /\ q \in Seq(Filters) /\ IsInjective(q)
      /\ Len(q) \in Nat /\ DOMAIN q = 1..Len(q)
    BY DEF Distinct
<1> DEFINE r == Append(q, f)
<1>2. /\ r \in Seq(Filters) /\ DOMAIN r = 1..(Len(q) + 1)
      /\ \A i \in 1..Len(q) : r[i] = q[i]
      /\ r[Len(q) + 1] = f
    BY <1>1
<1> HIDE DEF r
<1>3. ToSet(r) = ToSet(q) \cup {f}
  <2>1. \A e : e \in ToSet(r) <=> e \in ToSet(q) \cup {f}
      BY <1>1, <1>2 DEF ToSet
  <2> QED
      BY <2>1
<1>4. IsInjective(r)
  <2>1. \A i \in 1..Len(q) : q[i] # f
      BY <1>1 DEF ToSet
  <2> QED
      BY <1>1, <1>2, <2>1 DEF IsInjective
<1>5. r \in Distinct
    BY <1>2, <1>4 DEF Distinct
<1> QED
    BY <1>3, <1>5 DEF r

\* The key k + 1 of a sequence is not among those before it.
LEMMA NextKey ==
    ASSUME NEW q \in Distinct, NEW k \in Nat, k + 1 <= Len(q)
    PROVE  /\ q[k + 1] \in Filters
           /\ q[k + 1] \notin {q[i] : i \in 1..k}
           /\ {q[i] : i \in 1..(k + 1)} = {q[i] : i \in 1..k} \cup {q[k + 1]}
<1>1. /\ q \in Seq(Filters) /\ IsInjective(q)
      /\ Len(q) \in Nat /\ DOMAIN q = 1..Len(q)
    BY DEF Distinct
<1>2. k + 1 \in 1..Len(q) /\ q[k + 1] \in Filters
    BY <1>1
<1>3. ASSUME NEW i \in 1..k PROVE q[k + 1] # q[i]
    BY <1>1, <1>2 DEF IsInjective
<1>4. \A i : i \in 1..(k + 1) <=> i \in 1..k \/ i = k + 1
    OBVIOUS
<1>5. \A e : e \in {q[i] : i \in 1..(k + 1)} <=> e \in {q[i] : i \in 1..k} \cup {q[k + 1]}
    BY <1>4
<1> QED
    BY <1>2, <1>3, <1>5

\* remove_all keeps the keys whose buckets are not empty.
LEMMA OccupiedKeys ==
    ASSUME NEW q \in Distinct, NEW b
    PROVE  /\ Occupied(q, b) \in Distinct
           /\ ToSet(Occupied(q, b)) = {f \in ToSet(q) : ~Vacant(b[f])}
<1>1. q \in Seq(Filters) /\ Len(q) \in Nat /\ DOMAIN q = 1..Len(q)
    BY DEF Distinct
<1>2. PICK v : /\ v[0] = <<>>
               /\ \A k \in 1..Len(q) : v[k] = Kept(b, v[k - 1], q[k])
               /\ Occupied(q, b) = v[Len(q)]
    BY <1>1, OccupiedSteps
<1> DEFINE Before(k) == {q[i] : i \in 1..k}
           T == {k \in Nat : k <= Len(q) =>
                     /\ v[k] \in Distinct
                     /\ ToSet(v[k]) = {f \in Before(k) : ~Vacant(b[f])}}
<1>3. 0 \in T
  <2>1. <<>> \in Distinct /\ ToSet(<<>>) = {} /\ Before(0) = {}
      BY DEF Distinct, IsInjective, ToSet
  <2> QED
      BY <1>2, <2>1
<1>4. ASSUME NEW k \in Nat, k \in T PROVE k + 1 \in T
  <2> SUFFICES ASSUME k + 1 <= Len(q)
               PROVE  /\ v[k + 1] \in Distinct
                      /\ ToSet(v[k + 1]) = {f \in Before(k + 1) : ~Vacant(b[f])}
      OBVIOUS
  <2>1. v[k] \in Distinct /\ ToSet(v[k]) = {f \in Before(k) : ~Vacant(b[f])}
      BY <1>1, <1>4
  <2>2. /\ q[k + 1] \in Filters /\ q[k + 1] \notin Before(k)
        /\ Before(k + 1) = Before(k) \cup {q[k + 1]}
      BY NextKey
  <2>3. v[k + 1] = Kept(b, v[k], q[k + 1])
    <3>1. k + 1 \in 1..Len(q) /\ (k + 1) - 1 = k
        BY <1>1
    <3> QED
        BY <1>2, <3>1
  <2> HIDE DEF Before
  <2>4. CASE Vacant(b[q[k + 1]])
      BY <2>1, <2>2, <2>3, <2>4 DEF Kept
  <2>5. CASE ~Vacant(b[q[k + 1]])
    <3>1. q[k + 1] \notin ToSet(v[k])
        BY <2>1, <2>2
    <3>2. /\ v[k + 1] \in Distinct
          /\ ToSet(v[k + 1]) = ToSet(v[k]) \cup {q[k + 1]}
        BY <2>1, <2>2, <2>3, <2>5, <3>1, AppendKey DEF Kept
    <3> QED
        BY <2>1, <2>2, <2>5, <3>2
  <2> QED
      BY <2>4, <2>5
<1>5. Len(q) \in T
  <2> HIDE DEF T
  <2> QED
      BY <1>1, <1>3, <1>4, SetInduction
<1>6. Before(Len(q)) = ToSet(q)
    BY <1>1 DEF ToSet
<1> QED
    BY <1>1, <1>2, <1>5, <1>6

\* add keeps the keys there are and appends the new ones, each once.
LEMMA InsertedKeys ==
    ASSUME NEW r \in Distinct, NEW q \in Seq(Filters)
    PROVE  /\ Inserted(r, q) \in Distinct
           /\ ToSet(Inserted(r, q)) = ToSet(r) \cup ToSet(q)
<1>1. r \in Seq(Filters) /\ Len(q) \in Nat /\ DOMAIN q = 1..Len(q)
    BY DEF Distinct
<1>2. PICK v : /\ v[0] = r
               /\ \A k \in 1..Len(q) : v[k] = Added(v[k - 1], q[k])
               /\ Inserted(r, q) = v[Len(q)]
    BY <1>1, InsertedSteps
<1> DEFINE Before(k) == {q[i] : i \in 1..k}
           T == {k \in Nat : k <= Len(q) =>
                     v[k] \in Distinct /\ ToSet(v[k]) = ToSet(r) \cup Before(k)}
<1>3. 0 \in T
  <2>1. Before(0) = {}
      OBVIOUS
  <2> QED
      BY <1>2, <2>1
<1>4. ASSUME NEW k \in Nat, k \in T PROVE k + 1 \in T
  <2> SUFFICES ASSUME k + 1 <= Len(q)
               PROVE  /\ v[k + 1] \in Distinct
                      /\ ToSet(v[k + 1]) = ToSet(r) \cup Before(k + 1)
      OBVIOUS
  <2>1. v[k] \in Distinct /\ ToSet(v[k]) = ToSet(r) \cup Before(k)
      BY <1>1, <1>4
  <2>2. k + 1 \in 1..Len(q) /\ (k + 1) - 1 = k /\ q[k + 1] \in Filters
      BY <1>1
  <2>3. Before(k + 1) = Before(k) \cup {q[k + 1]}
    <3>1. \A i : i \in 1..(k + 1) <=> i \in 1..k \/ i = k + 1
        OBVIOUS
    <3>2. \A e : e \in Before(k + 1) <=> e \in Before(k) \cup {q[k + 1]}
        BY <3>1
    <3> QED
        BY <3>2
  <2>4. v[k + 1] = Added(v[k], q[k + 1])
      BY <1>2, <2>2
  <2> HIDE DEF Before
  <2>5. CASE q[k + 1] \in ToSet(v[k])
      BY <2>1, <2>3, <2>4, <2>5 DEF Added
  <2>6. CASE q[k + 1] \notin ToSet(v[k])
      BY <2>1, <2>2, <2>3, <2>4, <2>6, AppendKey DEF Added
  <2> QED
      BY <2>5, <2>6
<1>5. Len(q) \in T
  <2> HIDE DEF T
  <2> QED
      BY <1>1, <1>3, <1>4, SetInduction
<1>6. Before(Len(q)) = ToSet(q)
    BY <1>1 DEF ToSet
<1> QED
    BY <1>1, <1>2, <1>5, <1>6

\* matching_subscribers finds a grant of the client whose filter matches, if
\* there is one, and no such grant has a larger QoS.
LEMMA SelectedIsBest ==
    ASSUME order \in Seq(Filters), Types, NEW c \in Clients, NEW t
    PROVE  LET G == {bucket[f][c] : f \in {x \in ToSet(order) : <<x, t>> \in Matching}} \ {None}
           IN  /\ Selected(c, t) \in G \cup {None}
               /\ \A g \in G : Selected(c, t) # None /\ g.qos <= Selected(c, t).qos
<1>1. /\ Len(order) \in Nat /\ DOMAIN order = 1..Len(order)
      /\ \A i \in 1..Len(order) : order[i] \in Filters
    OBVIOUS
<1>2. PICK v : /\ v[0] = None
               /\ \A k \in 1..Len(order) : v[k] = Best(c, t, v[k - 1], order[k])
               /\ Selected(c, t) = v[Len(order)]
    BY SelectedSteps
<1> DEFINE Before(k) == {i \in 1..k : /\ <<order[i], t>> \in Matching
                                      /\ bucket[order[i]][c] # None}
           Fine(k) == /\ v[k] \in Grant \cup {None}
                      /\ v[k] # None => \E i \in Before(k) : v[k] = bucket[order[i]][c]
                      /\ \A i \in Before(k) :
                            v[k] # None /\ bucket[order[i]][c].qos <= v[k].qos
           T == {k \in Nat : k <= Len(order) => Fine(k)}
<1>3. 0 \in T
  <2>1. Before(0) = {}
      OBVIOUS
  <2> QED
      BY <1>2, <2>1
<1>4. ASSUME NEW k \in Nat, k \in T PROVE k + 1 \in T
  <2> SUFFICES ASSUME k + 1 <= Len(order) PROVE Fine(k + 1)
      OBVIOUS
  <2>1. Fine(k)
      BY <1>1, <1>4
  <2>2. k + 1 \in 1..Len(order) /\ (k + 1) - 1 = k /\ order[k + 1] \in Filters
      BY <1>1
  <2>3. PICK f \in Filters : f = order[k + 1]
      BY <2>2
  <2>4. v[k + 1] = Best(c, t, v[k], f)
      BY <1>2, <2>2, <2>3
  <2>5. PICK g \in Grant \cup {None} : g = bucket[f][c]
      BY DEF Types
  <2>6. \A x \in Grant : x.qos \in 0..2
      BY TableAssumption DEF Grant
  <2>7. \A i : i \in 1..(k + 1) <=> i \in 1..k \/ i = k + 1
      OBVIOUS
  <2>8. \A i \in 1..k : order[i] \in Filters /\ bucket[order[i]][c] \in Grant \cup {None}
      BY <1>1, <2>2 DEF Types
  <2>9. CASE <<f, t>> \in Matching /\ g # None
    <3>1. Before(k + 1) = Before(k) \cup {k + 1}
        BY <2>3, <2>5, <2>7, <2>9
    <3>2. CASE Better(v[k], g)
      <4>1. v[k + 1] = g
          BY <2>4, <2>5, <2>9, <3>2 DEF Best
      <4>2. ASSUME NEW i \in Before(k) PROVE bucket[order[i]][c].qos <= g.qos
        <5>1. /\ v[k] \in Grant /\ v[k] # None
              /\ bucket[order[i]][c].qos <= v[k].qos
            BY <2>1
        <5>2. bucket[order[i]][c] \in Grant
            BY <2>8
        <5>3. g \in Grant /\ g.qos > v[k].qos
            BY <2>9, <3>2, <5>1 DEF Better
        <5> HIDE DEF Before, Fine
        <5> QED
            BY <2>6, <5>1, <5>2, <5>3
      <4>3. g \in Grant /\ g.qos <= g.qos
          BY <2>6, <2>9
      <4>4. v[k + 1] = bucket[order[k + 1]][c]
          BY <2>3, <2>5, <4>1
      <4>5. \A i \in Before(k + 1) :
                v[k + 1] # None /\ bucket[order[i]][c].qos <= v[k + 1].qos
          BY <2>3, <2>5, <2>9, <3>1, <4>1, <4>2, <4>3
      <4>6. k + 1 \in Before(k + 1)
          BY <3>1
      <4> HIDE DEF Before
      <4> QED
          BY <4>1, <4>3, <4>4, <4>5, <4>6
    <3>3. CASE ~Better(v[k], g)
      <4>1. v[k + 1] = v[k]
          BY <2>4, <2>5, <3>3 DEF Best
      <4>2. v[k] \in Grant /\ g.qos <= v[k].qos
          BY <2>1, <2>6, <2>9, <3>3 DEF Better
      <4>3. /\ v[k + 1] \in Grant \cup {None}
            /\ \E i \in Before(k + 1) : v[k + 1] = bucket[order[i]][c]
          BY <2>1, <3>1, <4>1, <4>2, GrantFacts
      <4>4. \A i \in Before(k + 1) :
                v[k + 1] # None /\ bucket[order[i]][c].qos <= v[k + 1].qos
          BY <2>1, <2>3, <2>5, <3>1, <4>1, <4>2, GrantFacts
      <4> QED
          BY <4>3, <4>4
    <3> QED
        BY <3>2, <3>3
  <2>10. CASE ~(<<f, t>> \in Matching /\ g # None)
    <3>1. Before(k + 1) = Before(k)
        BY <2>3, <2>5, <2>7, <2>10
    <3>2. v[k + 1] = v[k]
        BY <2>4, <2>5, <2>10 DEF Best, Better
    <3> QED
        BY <2>1, <3>1, <3>2
  <2> QED
      BY <2>9, <2>10
<1>5. Fine(Len(order))
  <2>1. Len(order) \in T
    <3> HIDE DEF T
    <3> QED
        BY <1>1, <1>3, <1>4, SetInduction
  <2> QED
      BY <1>1, <2>1
<1>6. \A g : (g # None /\ \E f \in ToSet(order) : <<f, t>> \in Matching /\ g = bucket[f][c])
            <=> \E i \in Before(Len(order)) : g = bucket[order[i]][c]
    BY <1>1 DEF ToSet
<1>7. Selected(c, t) # None =>
          \E i \in Before(Len(order)) : Selected(c, t) = bucket[order[i]][c]
    BY <1>2, <1>5
<1>8. \A i \in Before(Len(order)) :
          Selected(c, t) # None /\ bucket[order[i]][c].qos <= Selected(c, t).qos
    BY <1>2, <1>5
<1> HIDE DEF Before, Fine
<1> DEFINE G == {bucket[f][c] : f \in {x \in ToSet(order) : <<x, t>> \in Matching}} \ {None}
<1>9. \A g : g \in G <=> \E i \in Before(Len(order)) : g = bucket[order[i]][c]
    BY <1>6
<1> HIDE DEF G
<1>10. /\ Selected(c, t) \in G \cup {None}
       /\ \A g \in G : Selected(c, t) # None /\ g.qos <= Selected(c, t).qos
    BY <1>7, <1>8, <1>9
<1> QED
    BY <1>10 DEF G

-----------------------------------------------------------------------------
\* The keys of _subs are the filters with a subscriber, each once.
Keys == order \in Distinct /\ ToSet(order) = {f \in Filters : ~Vacant(bucket[f])}

Sessions ==
    /\ session \in [Clients -> Kinds \cup {"none"}]
    /\ \A c \in attached : session[c] # "none"

Copied(c) == {f \in Filters : mirror[c][f] # None}

FiniteCopies == \A c \in Clients : IsFiniteSet(Copied(c))

KInv == Types /\ Keys /\ Sessions /\ FiniteCopies

\* A sequence that lists a finite set of filters.
LEMMA Listing ==
    ASSUME NEW S \in SUBSET Filters, IsFiniteSet(S), NEW q \in SetToSeqs(S)
    PROVE  q \in Seq(Filters) /\ ToSet(q) = S
<1> DEFINE n == Cardinality(S)
           D == 1..n
<1>1. n \in Nat
    BY FS_CardinalityType
<1>2. IsFiniteSet(D) /\ Cardinality(D) = n
    BY <1>1, FS_Interval
<1>3. q \in [D -> S] /\ \A i, j \in D : i # j => q[i] # q[j]
    BY DEF SetToSeqs
<1>4. q \in Injection(D, S)
    BY <1>3 DEF Injection, IsInjective
<1>5. q \in Surjection(D, S)
  <2> HIDE DEF D, n
  <2> QED
      BY <1>2, <1>4, FS_Injection DEF n
<1>6. \A f : f \in ToSet(q) <=> f \in S
  <2>1. DOMAIN q = D
      BY <1>3
  <2> QED
      BY <1>3, <1>5, <2>1 DEF ToSet, Surjection
<1>7. q \in Seq(Filters)
    BY <1>1, <1>3
<1> QED
    BY <1>6, <1>7

\* A sequence without repetitions is as long as the set of its elements.
LEMMA DistinctLength ==
    ASSUME NEW q \in Distinct
    PROVE  Len(q) = Cardinality(ToSet(q))
<1> DEFINE n == Len(q)
           D == 1..n
           S == ToSet(q)
<1>1. n \in Nat /\ q \in Seq(Filters) /\ DOMAIN q = D /\ IsInjective(q)
    BY DEF Distinct
<1>2. IsFiniteSet(D) /\ Cardinality(D) = n
    BY <1>1, FS_Interval
<1>3. q \in [D -> S]
    BY <1>1 DEF ToSet
<1>4. q \in Surjection(D, S) /\ q \in Injection(D, S)
    BY <1>1, <1>3 DEF Surjection, Injection, ToSet
<1> HIDE DEF n, D, S
<1>5. Cardinality(S) = Cardinality(D)
    BY <1>2, <1>4, FS_Surjection
<1> QED
    BY <1>2, <1>5 DEF n, S

\* When grants go, the keys that remain are those of the buckets not empty.
LEMMA FewerGrants ==
    ASSUME Keys, order' = Occupied(order, bucket'),
           \A f \in Filters, c \in Clients : bucket'[f][c] \in {None, bucket[f][c]}
    PROVE  Keys'
<1>1. /\ order' \in Distinct
      /\ ToSet(order') = {f \in ToSet(order) : ~Vacant(bucket'[f])}
    BY OccupiedKeys DEF Keys
<1>2. \A f \in Filters : ~Vacant(bucket'[f]) => ~Vacant(bucket[f])
    BY DEF Vacant
<1>3. \A f : f \in ToSet(order') <=> f \in {x \in Filters : ~Vacant(bucket'[x])}
    BY <1>1, <1>2 DEF Keys
<1>4. ToSet(order') = {x \in Filters : ~Vacant(bucket'[x])}
    BY <1>3, Zenon
<1> QED
    BY <1>1, <1>4 DEF Keys

\* When grants come, so do their keys.
LEMMA MoreGrants ==
    ASSUME Keys, NEW q \in Seq(Filters), order' = Inserted(order, q),
           \A f \in Filters :
               ~Vacant(bucket'[f]) <=> f \in ToSet(q) \/ ~Vacant(bucket[f])
    PROVE  Keys'
<1>1. order' \in Distinct /\ ToSet(order') = ToSet(order) \cup ToSet(q)
    BY InsertedKeys DEF Keys
<1>2. ToSet(q) \subseteq Filters
    BY DEF ToSet
<1>3. \A f : f \in ToSet(order') <=> f \in {x \in Filters : ~Vacant(bucket'[x])}
    BY <1>1, <1>2 DEF Keys
<1>4. ToSet(order') = {x \in Filters : ~Vacant(bucket'[x])}
    BY <1>3, Zenon
<1> QED
    BY <1>1, <1>4 DEF Keys

LEMMA InitKInv == Init => KInv
<1> SUFFICES ASSUME Init PROVE KInv
    OBVIOUS
<1>1. Types
    BY DEF Init, Types, NoSubscriptions
<1>2. Keys
  <2>1. <<>> \in Distinct /\ ToSet(<<>>) = {}
      BY DEF Distinct, IsInjective, ToSet
  <2>2. \A f \in Filters : Vacant(bucket[f])
      BY DEF Init, Vacant
  <2> QED
      BY <2>1, <2>2 DEF Init, Keys
<1>3. Sessions
    BY DEF Init, Sessions, Kinds
<1>4. FiniteCopies
  <2>1. \A c \in Clients : Copied(c) = {}
      BY DEF Init, NoSubscriptions, Copied
  <2> QED
      BY <2>1, FS_EmptySet DEF FiniteCopies
<1> QED
    BY <1>1, <1>2, <1>3, <1>4 DEF KInv

\* A step that changes the copy of at most one client, by a filter.
LEMMA CopiesStayFinite ==
    ASSUME Types, FiniteCopies, NEW c \in Clients, NEW f \in Filters,
           \A d \in Clients \ {c}, e \in Filters : mirror'[d][e] = mirror[d][e],
           \A e \in Filters \ {f} : mirror'[c][e] \in {None, mirror[c][e]}
    PROVE  FiniteCopies'
<1> SUFFICES ASSUME NEW d \in Clients PROVE IsFiniteSet(Copied(d)')
    BY DEF FiniteCopies
<1>1. IsFiniteSet(Copied(d)) /\ IsFiniteSet(Copied(d) \cup {f})
    BY FS_AddElement DEF FiniteCopies
<1>2. Copied(d)' \in SUBSET (Copied(d) \cup {f})
    BY DEF Copied
<1> QED
    BY <1>1, <1>2, FS_Subset

LEMMA SubscribeKeepsKInv ==
    ASSUME KInv, Types', NEW c \in Clients, NEW f \in Filters, NEW g \in Grant,
           Subscribe(c, f, g)
    PROVE  KInv'
<1>1. Keys'
  <2>1. <<f>> \in Seq(Filters) /\ ToSet(<<f>>) = {f}
      BY DEF ToSet
  <2>2. bucket'[f][c] = g /\ \A e \in Filters \ {f} : bucket'[e] = bucket[e]
      BY DEF Subscribe, KInv, Types
  <2>3. \A e \in Filters : ~Vacant(bucket'[e]) <=> e \in ToSet(<<f>>) \/ ~Vacant(bucket[e])
      BY <2>1, <2>2, GrantFacts DEF Vacant
  <2> QED
      BY <2>1, <2>3, MoreGrants DEF Subscribe, KInv
<1>2. Sessions'
    BY DEF Subscribe, KInv, Sessions
<1>3. FiniteCopies'
  <2>1. /\ \A d \in Clients \ {c}, e \in Filters : mirror'[d][e] = mirror[d][e]
        /\ \A e \in Filters \ {f} : mirror'[c][e] = mirror[c][e]
      BY DEF Subscribe, KInv, Types
  <2> QED
      BY <2>1, CopiesStayFinite DEF KInv
<1> QED
    BY <1>1, <1>2, <1>3 DEF KInv

LEMMA UnsubscribeKeepsKInv ==
    ASSUME KInv, Types', NEW c \in Clients, NEW f \in Filters, Unsubscribe(c, f)
    PROVE  KInv'
<1>1. Sessions'
    BY DEF Unsubscribe, KInv, Sessions
<1>2. CASE Holds(c, f)
  <2>1. /\ bucket' = [bucket EXCEPT ![f][c] = None]
        /\ mirror' = [mirror EXCEPT ![c][f] = None]
        /\ order' = Occupied(order, bucket')
      BY <1>2 DEF Unsubscribe
  <2>2. \A e \in Filters, d \in Clients : bucket'[e][d] \in {None, bucket[e][d]}
      BY <2>1 DEF KInv, Types
  <2>3. Keys'
      BY <2>1, <2>2, FewerGrants DEF KInv
  <2>4. /\ \A d \in Clients \ {c}, e \in Filters : mirror'[d][e] = mirror[d][e]
        /\ \A e \in Filters \ {f} : mirror'[c][e] = mirror[c][e]
      BY <2>1 DEF KInv, Types
  <2>5. FiniteCopies'
      BY <2>4, CopiesStayFinite DEF KInv
  <2> QED
      BY <1>1, <2>3, <2>5 DEF KInv
<1>3. CASE ~Holds(c, f)
  <2>1. UNCHANGED <<order, bucket, mirror>>
      BY <1>3 DEF Unsubscribe
  <2> QED
      BY <1>1, <2>1 DEF KInv, Keys, FiniteCopies, Copied
<1> QED
    BY <1>2, <1>3

LEMMA DetachKeepsKInv ==
    ASSUME KInv, Types', NEW c \in Clients, DetachPersistent(c) \/ DetachClean(c)
    PROVE  KInv'
<1>1. CASE DetachPersistent(c)
    BY <1>1 DEF DetachPersistent, KInv, Keys, Sessions, FiniteCopies, Copied
<1>2. CASE DetachClean(c)
  <2>1. Keys'
    <3>1. \A e \in Filters, d \in Clients : bucket'[e][d] \in {None, bucket[e][d]}
        BY <1>2 DEF DetachClean, KInv, Types
    <3> QED
        BY <1>2, <3>1, FewerGrants DEF DetachClean, KInv
  <2>2. Sessions'
    <3>1. session' = session \/ session' = [session EXCEPT ![c] = "none"]
        BY <1>2 DEF DetachClean
    <3>2. attached' = attached \ {c} /\ attached \subseteq Clients
        BY <1>2 DEF DetachClean, KInv, Types
    <3> QED
        BY <3>1, <3>2 DEF KInv, Sessions
  <2>3. FiniteCopies'
    <3>1. /\ \A d \in Clients \ {c}, e \in Filters : mirror'[d][e] = mirror[d][e]
          /\ \A e \in Filters : mirror'[c][e] \in {None, mirror[c][e]}
        BY <1>2 DEF DetachClean, KInv, Types, NoSubscriptions
    <3> SUFFICES ASSUME NEW d \in Clients PROVE IsFiniteSet(Copied(d)')
        BY DEF FiniteCopies
    <3>2. Copied(d)' \in SUBSET Copied(d)
        BY <3>1 DEF Copied
    <3> QED
        BY <3>2, FS_Subset DEF KInv, FiniteCopies
  <2> QED
      BY <2>1, <2>2, <2>3 DEF KInv
<1> QED
    BY <1>1, <1>2

LEMMA AttachKeepsKInv ==
    ASSUME KInv, Types', NEW c \in Clients,
           AttachResumed(c) \/ \E kind \in Kinds : AttachFresh(c, kind)
    PROVE  KInv'
<1>1. ASSUME NEW kind \in Kinds, AttachFresh(c, kind)
      PROVE  KInv'
  <2>1. Keys'
      BY <1>1 DEF AttachFresh, KInv, Keys
  <2>2. Sessions'
    <3>1. kind # "none"
        BY DEF Kinds
    <3> QED
        BY <1>1, <3>1 DEF AttachFresh, KInv, Sessions, Types
  <2>3. FiniteCopies'
    <3>1. /\ \A d \in Clients \ {c}, e \in Filters : mirror'[d][e] = mirror[d][e]
          /\ \A e \in Filters : mirror'[c][e] \in {None, mirror[c][e]}
        BY <1>1 DEF AttachFresh, KInv, Types, NoSubscriptions
    <3> SUFFICES ASSUME NEW d \in Clients PROVE IsFiniteSet(Copied(d)')
        BY DEF FiniteCopies
    <3>2. Copied(d)' \in SUBSET Copied(d)
        BY <3>1 DEF Copied
    <3> QED
        BY <3>2, FS_Subset DEF KInv, FiniteCopies
  <2> QED
      BY <2>1, <2>2, <2>3 DEF KInv
<1>2. CASE AttachResumed(c)
  <2>1. PICK q \in SetToSeqs(Copied(c)) : order' = Inserted(order, q)
      BY <1>2 DEF AttachResumed, Copied
  <2>2. q \in Seq(Filters) /\ ToSet(q) = Copied(c)
    <3>1. Copied(c) \in SUBSET Filters /\ IsFiniteSet(Copied(c))
        BY DEF Copied, KInv, FiniteCopies
    <3> QED
        BY <3>1, Listing
  <2>3. \A f \in Filters :
            IF f \in Copied(c)
            THEN bucket'[f] = [bucket[f] EXCEPT ![c] = [qos |-> mirror[c][f], noLocal |-> FALSE]]
            ELSE bucket'[f] = bucket[f]
      BY <1>2 DEF AttachResumed, Copied, Restored
  <2>4. \A f \in Copied(c) : bucket'[f][c] # None
    <3>1. \A f \in Copied(c) : [qos |-> mirror[c][f], noLocal |-> FALSE] \in Grant
        BY GrantFacts DEF KInv, Types, Copied
    <3> QED
        BY <2>3, <3>1, GrantFacts DEF KInv, Types, Copied
  <2>5. \A f \in Filters : ~Vacant(bucket'[f]) <=> f \in ToSet(q) \/ ~Vacant(bucket[f])
      BY <2>2, <2>3, <2>4 DEF Vacant
  <2>6. Keys'
      BY <2>1, <2>2, <2>5, MoreGrants DEF KInv
  <2>7. Sessions' /\ FiniteCopies'
      BY <1>2 DEF AttachResumed, KInv, Sessions, FiniteCopies, Copied
  <2> QED
      BY <2>6, <2>7 DEF KInv
<1> QED
    BY <1>1, <1>2

LEMMA NextKeepsKInv == IInv' /\ KInv /\ [Next]_vars => KInv'
<1> SUFFICES ASSUME IInv', KInv, [Next]_vars PROVE KInv'
    OBVIOUS
<1>1. Types'
    BY DEF IInv
<1>2. CASE UNCHANGED vars
    BY <1>2 DEF vars, KInv, Types, Keys, Sessions, FiniteCopies, Copied
<1> QED
    BY <1>1, <1>2, SubscribeKeepsKInv, UnsubscribeKeepsKInv, DetachKeepsKInv,
       AttachKeepsKInv DEF Next

\* The routing table is sound in every behaviour.
THEOREM TableInvariance == Spec => []KInv
<1> QED
    BY InitKInv, NextKeepsKInv, Invariance, PTL DEF Spec

\* The table is well typed, its keys are the filters with a subscriber and
\* none comes twice, however subscriptions and sessions come and go.
THEOREM TableIsWellTyped == Spec => []TypeOK
<1>1. KInv => TypeOK
  <2> SUFFICES ASSUME KInv PROVE TypeOK
      OBVIOUS
  <2>1. Len(order) = Cardinality(ToSet(order))
      BY DistinctLength DEF KInv, Keys
  <2> QED
      BY <2>1 DEF KInv, Types, Keys, Sessions, TypeOK
<1> QED
    BY <1>1, TableInvariance, PTL

\* A client gets a message with the largest QoS it was granted by a matching
\* filter, in whatever order its filters were stored.
THEOREM TheHighestQoSWins == Spec => []HighestQoSWins
<1>1. KInv => HighestQoSWins
  <2> SUFFICES ASSUME KInv, NEW c \in Clients, NEW t \in Topics
               PROVE  /\ Selected(c, t) # None <=> Grants(c, t) # {}
                      /\ \A g \in Grants(c, t), q \in QoS :
                            /\ g.qos <= Selected(c, t).qos
                            /\ EffectiveQoS(c, t, q) <= q
                            /\ q <= g.qos => EffectiveQoS(c, t, q) = q
      BY DEF HighestQoSWins
  <2> DEFINE G == {bucket[f][c] : f \in {x \in ToSet(order) : <<x, t>> \in Matching}} \ {None}
  <2>1. G = Grants(c, t)
    <3>1. \A f \in Filters : bucket[f][c] # None => f \in ToSet(order)
        BY DEF KInv, Keys, Vacant
    <3>2. ToSet(order) \subseteq Filters
        BY DEF KInv, Keys
    <3>3. \A g : g \in G <=> g \in Grants(c, t)
        BY <3>1, <3>2 DEF Grants
    <3> QED
        BY <3>3, Zenon
  <2>2. /\ Selected(c, t) \in G \cup {None}
        /\ \A g \in G : Selected(c, t) # None /\ g.qos <= Selected(c, t).qos
      BY SelectedIsBest DEF KInv, Keys, Distinct
  <2>3. \A g \in Grants(c, t) : g \in Grant
    <3>1. \A f \in Filters : bucket[f][c] \in Grant \cup {None}
        BY DEF KInv, Types
    <3> QED
        BY <3>1 DEF Grants
  <2> HIDE DEF G
  <2>4. Selected(c, t) # None <=> Grants(c, t) # {}
      BY <2>1, <2>2
  <2>5. ASSUME NEW g \in Grants(c, t), NEW q \in QoS
        PROVE  /\ g.qos <= Selected(c, t).qos
               /\ EffectiveQoS(c, t, q) <= q
               /\ q <= g.qos => EffectiveQoS(c, t, q) = q
    <3>1. Selected(c, t) \in Grant /\ g \in Grant /\ g.qos <= Selected(c, t).qos
        BY <2>1, <2>2, <2>3
    <3>2. Selected(c, t).qos \in 0..2 /\ g.qos \in 0..2 /\ q \in 0..2
        BY <3>1, GrantFacts, TableAssumption
    <3> QED
        BY <3>1, <3>2 DEF EffectiveQoS
  <2> QED
      BY <2>4, <2>5
<1> QED
    BY <1>1, TableInvariance, PTL

=============================================================================
