------------------------- MODULE DeviceMirrorProofs -------------------------
(***************************************************************************)
(* Proofs about DeviceMirror, for any devices, targets and mishaps.        *)
(***************************************************************************)
EXTENDS DeviceMirror, TLAPS

\* A device whose join the watcher has read or will read is on the primary.
JoinersOnPrimary ==
    /\ ToSet(joins) \subseteq onPrimary
    /\ watcher.pc # "idle" => watcher.dev \in onPrimary

\* The keys a walk hands out are the current ones, or the device joined again
\* since: then the next event is waiting, or it was lost.
KeysAreCurrent ==
    watcher.pc \in {"walk", "create", "activate"} =>
        \/ watcher.keys = session[watcher.dev]
        \/ watcher.dev \in ToSet(joins)
        \/ Everywhere(watcher.dev) \subseteq missed

IInv ==
    /\ MirrorTypeOK
    /\ JoinersOnPrimary
    /\ KeysAreCurrent
    /\ UpToDate
    /\ SeenIsOnPrimary

-----------------------------------------------------------------------------
\* The elements of a queue when one is taken from it or added to it.
LEMMA TailElements ==
    ASSUME NEW S, NEW s \in Seq(S), s # <<>>
    PROVE  /\ Head(s) \in S /\ Tail(s) \in Seq(S)
           /\ ToSet(s) = ToSet(Tail(s)) \cup {Head(s)}
<1>1. Head(s) \in S /\ Tail(s) \in Seq(S) /\ Len(s) \in Nat \ {0}
    OBVIOUS
<1>2. /\ DOMAIN s = 1..Len(s) /\ DOMAIN Tail(s) = 1..(Len(s) - 1)
      /\ \A i \in 1..(Len(s) - 1) : Tail(s)[i] = s[i + 1]
      /\ Head(s) = s[1]
    OBVIOUS
<1>3. ASSUME NEW x \in ToSet(s) PROVE x \in ToSet(Tail(s)) \cup {Head(s)}
  <2>1. PICK i \in 1..Len(s) : s[i] = x
      BY <1>2 DEF ToSet
  <2>2. CASE i = 1
      BY <2>1, <2>2, <1>2
  <2>3. CASE i # 1
    <3>1. i - 1 \in 1..(Len(s) - 1) /\ Tail(s)[i - 1] = x
        BY <1>1, <1>2, <2>1, <2>3
    <3> QED
        BY <3>1, <1>2 DEF ToSet
  <2> QED
      BY <2>2, <2>3
<1>4. ASSUME NEW x \in ToSet(Tail(s)) PROVE x \in ToSet(s)
  <2>1. PICK i \in 1..(Len(s) - 1) : Tail(s)[i] = x
      BY <1>2 DEF ToSet
  <2>2. i + 1 \in 1..Len(s) /\ s[i + 1] = x
      BY <2>1, <1>1, <1>2
  <2> QED
      BY <2>2, <1>2 DEF ToSet
<1>5. Head(s) \in ToSet(s)
    BY <1>1, <1>2 DEF ToSet
<1> QED
    BY <1>1, <1>3, <1>4, <1>5

LEMMA AppendElements ==
    ASSUME NEW S, NEW s \in Seq(S), NEW x \in S
    PROVE  /\ Append(s, x) \in Seq(S)
           /\ ToSet(Append(s, x)) = ToSet(s) \cup {x}
<1>1. /\ Append(s, x) \in Seq(S) /\ Len(s) \in Nat
      /\ DOMAIN s = 1..Len(s) /\ DOMAIN Append(s, x) = 1..(Len(s) + 1)
      /\ \A i \in 1..Len(s) : Append(s, x)[i] = s[i]
      /\ Append(s, x)[Len(s) + 1] = x
    OBVIOUS
<1>2. ASSUME NEW y \in ToSet(Append(s, x)) PROVE y \in ToSet(s) \cup {x}
  <2>1. PICK i \in 1..(Len(s) + 1) : Append(s, x)[i] = y
      BY <1>1 DEF ToSet
  <2>2. i \in 1..Len(s) \/ i = Len(s) + 1
      BY <1>1
  <2> QED
      BY <2>1, <2>2, <1>1 DEF ToSet
<1>3. ASSUME NEW y \in ToSet(s) PROVE y \in ToSet(Append(s, x))
  <2>1. PICK i \in 1..Len(s) : s[i] = y
      BY <1>1 DEF ToSet
  <2>2. i \in 1..(Len(s) + 1)
      BY <1>1
  <2> QED
      BY <2>1, <2>2, <1>1 DEF ToSet
<1>4. x \in ToSet(Append(s, x))
  <2>1. Len(s) + 1 \in 1..(Len(s) + 1)
      BY <1>1
  <2> QED
      BY <2>1, <1>1 DEF ToSet
<1> QED
    BY <1>1, <1>2, <1>3, <1>4

LEMMA NoElements == ToSet(<<>>) = {}
    BY DEF ToSet

LEMMA InitIInv == Init => IInv
<1> SUFFICES ASSUME Init PROVE IInv
    OBVIOUS
<1>1. MirrorTypeOK
    BY MirrorAssumption DEF Init, MirrorTypeOK, Waiting, Resting, Settings
<1>2. JoinersOnPrimary /\ KeysAreCurrent
    BY NoElements DEF Init, JoinersOnPrimary, KeysAreCurrent, Waiting
<1>3. UpToDate /\ SeenIsOnPrimary
    BY DEF Init, UpToDate, SeenIsOnPrimary, Settings
<1> QED
    BY <1>1, <1>2, <1>3 DEF IInv

-----------------------------------------------------------------------------
\* A step that writes nothing to a target keeps UpToDate if what the watcher
\* owed it still owes or has given up.
LEMMA NothingForgotten ==
    ASSUME UpToDate,
           UNCHANGED <<settings, session, mirrored>>, missed \subseteq missed',
           \A t \in settings.targets, d \in Devices :
               Owed(t, d) => Owed(t, d)' \/ <<t, d>> \in missed'
    PROVE  UpToDate'
    BY DEF UpToDate

LEMMA ReadJoinKeepsIInv ==
    ASSUME IInv, ReadJoin
    PROVE  IInv'
<1> DEFINE d == Head(joins)
<1>1. /\ d \in Devices /\ Tail(joins) \in Seq(Devices)
      /\ ToSet(joins) = ToSet(Tail(joins)) \cup {d}
    BY TailElements DEF IInv, MirrorTypeOK, ReadJoin
<1> HIDE DEF d
<1>2. /\ watcher = Waiting /\ joins' = Tail(joins)
      /\ UNCHANGED <<settings, primaryApi, seen, forwarder, servers, refused>>
    BY DEF ReadJoin, IInv, MirrorTypeOK
<1>3. \/ /\ watcher' = [Waiting EXCEPT !.pc = "fetch", !.dev = d]
         /\ UNCHANGED missed
      \/ /\ missed' = missed \cup Everywhere(d)
         /\ UNCHANGED watcher
    BY DEF ReadJoin, d
<1>4. MirrorTypeOK'
    BY <1>1, <1>2, <1>3
    DEF IInv, MirrorTypeOK, servers, Everywhere, Waiting
<1>5. JoinersOnPrimary' /\ KeysAreCurrent'
    BY <1>1, <1>2, <1>3
    DEF IInv, JoinersOnPrimary, KeysAreCurrent, servers, Waiting
<1>6. ASSUME NEW t \in settings.targets, NEW e \in Devices, Owed(t, e)
      PROVE  Owed(t, e)' \/ <<t, e>> \in missed'
  <2>1. t \in Targets
      BY DEF IInv, MirrorTypeOK, Settings
  <2>2. e \in ToSet(joins)
      BY <1>2, <1>6, MirrorAssumption DEF Owed, Waiting
  <2>3. CASE e # d
      BY <1>1, <1>2, <2>2, <2>3 DEF Owed
  <2>4. CASE e = d /\ missed' = missed \cup Everywhere(d)
      BY <2>1, <2>4 DEF Everywhere
  <2>5. CASE e = d /\ watcher' = [Waiting EXCEPT !.pc = "fetch", !.dev = d]
    <3>1. watcher'.dev = d /\ watcher'.pc = "fetch"
        BY <2>5 DEF Waiting
    <3> QED
        BY <3>1, <2>5 DEF Owed
  <2> QED
      BY <1>3, <2>3, <2>4, <2>5
<1>7. UpToDate'
  <2>1. UNCHANGED <<settings, session, mirrored>> /\ missed \subseteq missed'
      BY <1>2, <1>3 DEF servers
  <2> QED
      BY <1>6, <2>1, NothingForgotten DEF IInv
<1>8. SeenIsOnPrimary'
    BY <1>2 DEF IInv, SeenIsOnPrimary, servers
<1> QED
    BY <1>4, <1>5, <1>7, <1>8 DEF IInv

\* A walk goes on with the targets rest, or ends.
LEMMA WalkKeepsTypes ==
    ASSUME MirrorTypeOK, watcher.pc # "idle",
           NEW keys \in Nat, NEW rest \in SUBSET Targets, Walk(keys, rest)
    PROVE  /\ seen' \subseteq seen \cup {watcher.dev} /\ seen' \subseteq Devices
           /\ watcher'.pc \in {"idle", "walk"}
           /\ watcher'.pc = "idle" => watcher' = Waiting /\ rest = {}
           /\ watcher'.pc = "walk" =>
                 watcher' = [pc |-> "walk", dev |-> watcher.dev, keys |-> keys,
                             walk |-> rest, api |-> None]
<1>1. watcher.dev \in Devices
    BY DEF MirrorTypeOK
<1>2. CASE rest = {}
    BY <1>1, <1>2 DEF Walk, Waiting, MirrorTypeOK
<1>3. CASE rest # {}
    BY <1>1, <1>3 DEF Walk, MirrorTypeOK
<1> QED
    BY <1>2, <1>3

LEMMA FetchKeysKeepsIInv ==
    ASSUME IInv, FetchKeys
    PROVE  IInv'
<1> DEFINE d == watcher.dev
<1>1. /\ watcher.pc = "fetch" /\ d \in Devices /\ session[d] \in Nat
      /\ settings.targets \in SUBSET Targets
    BY DEF FetchKeys, IInv, MirrorTypeOK, Settings
<1>2. UNCHANGED <<settings, primaryApi, forwarder, joins, servers, refused>>
    BY DEF FetchKeys
<1>3. CASE Walk(session[d], settings.targets) /\ UNCHANGED missed
  <2>1. /\ seen' \subseteq seen \cup {d} /\ seen' \subseteq Devices
        /\ watcher'.pc \in {"idle", "walk"}
        /\ watcher'.pc = "idle" => watcher' = Waiting /\ settings.targets = {}
        /\ watcher'.pc = "walk" =>
              watcher' = [pc |-> "walk", dev |-> d, keys |-> session[d],
                          walk |-> settings.targets, api |-> None]
      BY <1>1, <1>3, WalkKeepsTypes DEF IInv
  <2>2. MirrorTypeOK'
      BY <1>1, <1>2, <1>3, <2>1 DEF IInv, MirrorTypeOK, servers, Waiting
  <2>3. JoinersOnPrimary' /\ KeysAreCurrent' /\ SeenIsOnPrimary'
      BY <1>1, <1>2, <2>1
      DEF IInv, JoinersOnPrimary, KeysAreCurrent, SeenIsOnPrimary, servers, Waiting
  <2>4. ASSUME NEW t \in settings.targets, NEW e \in Devices, Owed(t, e)
        PROVE  Owed(t, e)'
      BY <1>1, <1>2, <2>1, <2>4 DEF Owed
  <2>5. UpToDate'
      BY <1>2, <1>3, <2>4, NothingForgotten DEF IInv, servers
  <2> QED
      BY <2>2, <2>3, <2>5 DEF IInv
<1>4. CASE watcher' = Waiting /\ missed' = missed \cup Everywhere(d) /\ UNCHANGED seen
  <2>1. MirrorTypeOK'
      BY <1>1, <1>2, <1>4 DEF IInv, MirrorTypeOK, servers, Waiting, Everywhere
  <2>2. JoinersOnPrimary' /\ KeysAreCurrent' /\ SeenIsOnPrimary'
      BY <1>1, <1>2, <1>4
      DEF IInv, JoinersOnPrimary, KeysAreCurrent, SeenIsOnPrimary, servers, Waiting
  <2>3. ASSUME NEW t \in settings.targets, NEW e \in Devices, Owed(t, e)
        PROVE  Owed(t, e)' \/ <<t, e>> \in missed'
      BY <1>1, <1>2, <1>4, <2>3 DEF Owed, Everywhere
  <2>4. UpToDate'
      BY <1>2, <1>4, <2>3, NothingForgotten DEF IInv, servers
  <2> QED
      BY <2>1, <2>2, <2>4 DEF IInv
<1> QED
    BY <1>3, <1>4 DEF FetchKeys

LEMMA DeviceExistsKeepsIInv ==
    ASSUME IInv, NEW t \in Targets, DeviceExists(t)
    PROVE  IInv'
<1>1. /\ watcher.pc = "walk" /\ t \in watcher.walk /\ watcher.dev \in Devices
      /\ \/ watcher' = [watcher EXCEPT !.pc = "activate", !.api = t]
         \/ watcher' = [watcher EXCEPT !.pc = "create", !.api = t]
      /\ UNCHANGED <<settings, primaryApi, seen, forwarder, joins, servers, missed, refused>>
    BY DEF DeviceExists, IInv, MirrorTypeOK
<1>2. MirrorTypeOK'
    BY <1>1 DEF IInv, MirrorTypeOK, servers
<1>3. JoinersOnPrimary' /\ KeysAreCurrent' /\ SeenIsOnPrimary'
    BY <1>1 DEF IInv, MirrorTypeOK, JoinersOnPrimary, KeysAreCurrent, SeenIsOnPrimary, servers
<1>4. \A u \in settings.targets, e \in Devices : Owed(u, e) => Owed(u, e)'
    BY <1>1 DEF Owed, IInv, MirrorTypeOK
<1>5. UpToDate'
    BY <1>1, <1>4, NothingForgotten DEF IInv, servers
<1> QED
    BY <1>2, <1>3, <1>5 DEF IInv

\* What the types say of the watcher.
WatcherTypes ==
    /\ watcher \in [pc: {"idle", "fetch", "walk", "create", "activate"},
                    dev: Devices \cup {None}, keys: Nat, walk: SUBSET Targets,
                    api: Targets \cup {None}]
    /\ watcher.pc # "idle" => watcher.dev \in Devices
    /\ watcher.pc = "idle" => watcher = Waiting
    /\ watcher.pc \in {"create", "activate"} => watcher.api \in watcher.walk

\* The types after a step of handle_join that sends a request to a target.
LEMMA RequestKeepsTypes ==
    ASSUME MirrorTypeOK, WatcherTypes', seen' \subseteq Devices,
           onTarget' \subseteq Targets \X Devices,
           mirrored' \in [Targets -> [Devices -> Nat]],
           missed' \subseteq Targets \X Devices,
           UNCHANGED <<settings, primaryApi, forwarder, joins, bridged, onPrimary,
                       session, refused>>
    PROVE  MirrorTypeOK'
    BY DEF MirrorTypeOK, WatcherTypes

\* create_device or set_activation failed: what holds of the walk after Skip
\* and after Raise.
GivenUp(pairs) ==
    /\ missed' = missed \cup pairs
    /\ pairs \subseteq watcher.walk \X {watcher.dev}
    /\ seen' \subseteq seen \cup {watcher.dev} /\ seen' \subseteq Devices
    /\ \/ /\ watcher' = Waiting
          /\ watcher.walk \X {watcher.dev} \subseteq pairs
       \/ /\ watcher' = [pc |-> "walk", dev |-> watcher.dev, keys |-> watcher.keys,
                          walk |-> watcher.walk \ {watcher.api}, api |-> None]
          /\ pairs = {<<watcher.api, watcher.dev>>}

LEMMA FailuresGiveUp ==
    ASSUME MirrorTypeOK, watcher.pc \in {"create", "activate"}, Skip \/ Raise
    PROVE  \E pairs : GivenUp(pairs)
<1>1. /\ watcher.dev \in Devices /\ watcher.api \in watcher.walk
      /\ watcher.keys \in Nat /\ watcher.walk \in SUBSET Targets
    BY DEF MirrorTypeOK
<1>2. CASE Skip
  <2> DEFINE rest == watcher.walk \ {watcher.api}
  <2>1. Walk(watcher.keys, rest) /\ missed' = missed \cup {<<watcher.api, watcher.dev>>}
      BY <1>2 DEF Skip
  <2>2. rest \in SUBSET Targets
      BY <1>1
  <2>3. /\ seen' \subseteq seen \cup {watcher.dev} /\ seen' \subseteq Devices
        /\ watcher'.pc \in {"idle", "walk"}
        /\ watcher'.pc = "idle" => watcher' = Waiting /\ rest = {}
        /\ watcher'.pc = "walk" =>
              watcher' = [pc |-> "walk", dev |-> watcher.dev, keys |-> watcher.keys,
                          walk |-> rest, api |-> None]
      BY <1>1, <2>1, <2>2, WalkKeepsTypes
  <2>4. GivenUp({<<watcher.api, watcher.dev>>})
      BY <1>1, <2>1, <2>3 DEF GivenUp
  <2> QED
      BY <2>4
<1>3. CASE Raise
  <2>1. GivenUp(watcher.walk \X {watcher.dev})
      BY <1>1, <1>3 DEF Raise, GivenUp, MirrorTypeOK
  <2> QED
      BY <2>1
<1> QED
    BY <1>2, <1>3

\* Giving up keeps the invariant when no target gets keys; a target may get
\* the device.
LEMMA GivingUpKeepsIInv ==
    ASSUME IInv, watcher.pc \in {"create", "activate"}, NEW pairs, GivenUp(pairs),
           onTarget' \in {onTarget, onTarget \cup {<<watcher.api, watcher.dev>>}},
           UNCHANGED <<settings, primaryApi, forwarder, joins, bridged, onPrimary,
                       session, mirrored, refused>>
    PROVE  IInv'
<1>1. /\ watcher.dev \in Devices /\ watcher.api \in watcher.walk
      /\ watcher.keys \in Nat /\ watcher.walk \in SUBSET Targets
      /\ <<watcher.api, watcher.dev>> \in Targets \X Devices
      /\ watcher.dev \in onPrimary
    BY DEF IInv, MirrorTypeOK, JoinersOnPrimary
<1>2. pairs \subseteq Targets \X Devices
    BY <1>1 DEF GivenUp
<1>3. MirrorTypeOK'
  <2>1. watcher' = Waiting => WatcherTypes'
      BY DEF WatcherTypes, Waiting
  <2>2. watcher' = [pc |-> "walk", dev |-> watcher.dev, keys |-> watcher.keys,
                    walk |-> watcher.walk \ {watcher.api}, api |-> None]
        => WatcherTypes'
      BY <1>1 DEF WatcherTypes
  <2>3. WatcherTypes' /\ seen' \subseteq Devices
      BY <2>1, <2>2 DEF GivenUp
  <2>4. missed' \subseteq Targets \X Devices
      BY <1>2 DEF IInv, MirrorTypeOK, GivenUp
  <2>5. onTarget' \subseteq Targets \X Devices
      BY <1>1 DEF IInv, MirrorTypeOK
  <2>6. mirrored' \in [Targets -> [Devices -> Nat]]
      BY DEF IInv, MirrorTypeOK
  <2> QED
      BY <2>3, <2>4, <2>5, <2>6, RequestKeepsTypes DEF IInv
<1>4. JoinersOnPrimary' /\ SeenIsOnPrimary'
  <2>1. seen' \subseteq seen \cup {watcher.dev}
      BY DEF GivenUp
  <2>2. watcher'.pc # "idle" => watcher'.dev = watcher.dev
      BY DEF GivenUp, Waiting
  <2>3. JoinersOnPrimary'
      BY <1>1, <2>2 DEF IInv, JoinersOnPrimary
  <2>4. SeenIsOnPrimary'
      BY <1>1, <2>1 DEF IInv, SeenIsOnPrimary
  <2> QED
      BY <2>3, <2>4
<1>5. KeysAreCurrent'
  <2>1. CASE watcher' = Waiting
      BY <2>1 DEF KeysAreCurrent, Waiting
  <2>2. CASE watcher' # Waiting
    <3>1. watcher'.dev = watcher.dev /\ watcher'.keys = watcher.keys
        BY <2>2 DEF GivenUp
    <3>2. missed \subseteq missed'
        BY DEF GivenUp
    <3> QED
        BY <3>1, <3>2 DEF IInv, KeysAreCurrent
  <2> QED
      BY <2>1, <2>2
<1>6. ASSUME NEW t \in settings.targets, NEW e \in Devices, Owed(t, e)
      PROVE  Owed(t, e)' \/ <<t, e>> \in missed'
  <2>1. CASE e \in ToSet(joins)
      BY <2>1 DEF Owed
  <2>2. CASE watcher.dev = e /\ t \in watcher.walk
    <3>1. CASE <<t, e>> \in pairs
        BY <3>1 DEF GivenUp
    <3>2. CASE <<t, e>> \notin pairs
      <4>1. /\ pairs = {<<watcher.api, watcher.dev>>}
            /\ watcher'.dev = watcher.dev
            /\ watcher'.walk = watcher.walk \ {watcher.api}
          BY <2>2, <3>2 DEF GivenUp
      <4>2. t # watcher.api
          BY <2>2, <3>2, <4>1
      <4> QED
          BY <2>2, <4>1, <4>2 DEF Owed
    <3> QED
        BY <3>1, <3>2
  <2> QED
      BY <1>6, <2>1, <2>2 DEF Owed
<1>7. UpToDate'
  <2>1. missed \subseteq missed'
      BY DEF GivenUp
  <2> QED
      BY <1>6, <2>1, NothingForgotten DEF IInv
<1> QED
    BY <1>3, <1>4, <1>5, <1>7 DEF IInv

LEMMA CreateDeviceKeepsIInv ==
    ASSUME IInv, CreateDevice
    PROVE  IInv'
<1>1. /\ watcher.pc = "create" /\ watcher.dev \in Devices
      /\ watcher.api \in watcher.walk /\ watcher.api \in Targets
      /\ UNCHANGED <<settings, primaryApi, forwarder, joins, bridged, onPrimary,
                     session, mirrored, refused>>
    BY DEF CreateDevice, IInv, MirrorTypeOK
<1>2. CASE Skip \/ Raise
  <2>1. PICK pairs : GivenUp(pairs)
      BY <1>1, <1>2, FailuresGiveUp DEF IInv
  <2>2. onTarget' \in {onTarget, onTarget \cup {<<watcher.api, watcher.dev>>}}
    <3>1. \/ onTarget' = onTarget \cup {<<watcher.api, watcher.dev>>}
          \/ UNCHANGED onTarget
          \/ onTarget' \in {onTarget, onTarget \cup {<<watcher.api, watcher.dev>>}}
        BY DEF CreateDevice
    <3> QED
        BY <3>1
  <2> QED
      BY <1>1, <2>1, <2>2, GivingUpKeepsIInv
<1>3. CASE /\ watcher' = [watcher EXCEPT !.pc = "activate"]
           /\ onTarget' = onTarget \cup {<<watcher.api, watcher.dev>>}
           /\ UNCHANGED <<seen, missed>>
  <2>1. MirrorTypeOK'
    <3>1. WatcherTypes'
        BY <1>1, <1>3 DEF IInv, MirrorTypeOK, WatcherTypes
    <3>2. <<watcher.api, watcher.dev>> \in Targets \X Devices
        BY <1>1
    <3>3. /\ onTarget' \subseteq Targets \X Devices
          /\ mirrored' \in [Targets -> [Devices -> Nat]]
          /\ missed' \subseteq Targets \X Devices /\ seen' \subseteq Devices
        BY <1>1, <1>3, <3>2 DEF IInv, MirrorTypeOK
    <3> QED
        BY <1>1, <3>1, <3>3, RequestKeepsTypes DEF IInv
  <2>2. JoinersOnPrimary' /\ KeysAreCurrent' /\ SeenIsOnPrimary'
      BY <1>1, <1>3
      DEF IInv, MirrorTypeOK, JoinersOnPrimary, KeysAreCurrent, SeenIsOnPrimary
  <2>3. \A t \in settings.targets, e \in Devices : Owed(t, e) => Owed(t, e)'
      BY <1>1, <1>3 DEF Owed, IInv, MirrorTypeOK
  <2>4. UpToDate'
      BY <1>1, <1>3, <2>3, NothingForgotten DEF IInv
  <2> QED
      BY <2>1, <2>2, <2>4 DEF IInv
<1> QED
    BY <1>2, <1>3 DEF CreateDevice

LEMMA SetActivationKeepsIInv ==
    ASSUME IInv, SetActivation
    PROVE  IInv'
<1> DEFINE t == watcher.api
           d == watcher.dev
           activated == [mirrored EXCEPT ![t][d] = watcher.keys]
<1>1. /\ watcher.pc = "activate" /\ d \in Devices /\ t \in watcher.walk /\ t \in Targets
      /\ watcher.keys \in Nat /\ watcher.walk \in SUBSET Targets
      /\ mirrored \in [Targets -> [Devices -> Nat]]
      /\ UNCHANGED <<settings, primaryApi, forwarder, joins, bridged, onPrimary,
                     session, onTarget, refused>>
    BY DEF SetActivation, IInv, MirrorTypeOK
<1>2. /\ activated \in [Targets -> [Devices -> Nat]]
      /\ activated[t][d] = watcher.keys
      /\ \A u \in Targets, e \in Devices :
            u # t \/ e # d => activated[u][e] = mirrored[u][e]
    BY <1>1
<1>3. CASE (Skip \/ Raise) /\ UNCHANGED mirrored
  <2>1. PICK pairs : GivenUp(pairs)
      BY <1>1, <1>3, FailuresGiveUp DEF IInv
  <2> QED
      BY <1>1, <1>3, <2>1, GivingUpKeepsIInv
\* The request raised, and the target has the keys nevertheless.
<1>4. CASE Raise /\ mirrored' = activated
  <2>1. /\ watcher' = Waiting /\ UNCHANGED seen
        /\ missed' = missed \cup (watcher.walk \X {d})
      BY <1>4 DEF Raise
  <2>2. MirrorTypeOK'
    <3>1. WatcherTypes'
        BY <2>1 DEF WatcherTypes, Waiting
    <3>2. /\ missed' \subseteq Targets \X Devices /\ seen' \subseteq Devices
          /\ onTarget' \subseteq Targets \X Devices
        BY <1>1, <2>1 DEF IInv, MirrorTypeOK
    <3> QED
        BY <1>1, <1>2, <1>4, <3>1, <3>2, RequestKeepsTypes DEF IInv
  <2>3. JoinersOnPrimary' /\ KeysAreCurrent' /\ SeenIsOnPrimary'
      BY <1>1, <2>1
      DEF IInv, JoinersOnPrimary, KeysAreCurrent, SeenIsOnPrimary, Waiting
  <2>4. UpToDate'
    <3> SUFFICES ASSUME NEW u \in settings.targets, NEW e \in Devices,
                        session[e] > 0, ~Owed(u, e)', <<u, e>> \notin missed'
                 PROVE  mirrored'[u][e] = session[e]
        BY <1>1 DEF UpToDate
    <3>1. u \in Targets
        BY DEF IInv, MirrorTypeOK, Settings
    <3>2. ~(u \in watcher.walk /\ e = d) /\ <<u, e>> \notin missed
        BY <2>1, <3>1
    <3>3. e \notin ToSet(joins)
        BY <1>1 DEF Owed
    <3>4. ~Owed(u, e)
        BY <1>1, <3>2, <3>3 DEF Owed
    <3>5. mirrored[u][e] = session[e]
        BY <3>2, <3>4 DEF IInv, UpToDate
    <3> QED
        BY <1>1, <1>2, <1>4, <3>1, <3>2, <3>5
  <2> QED
      BY <2>2, <2>3, <2>4 DEF IInv
<1>5. CASE /\ mirrored' = activated
           /\ Walk(watcher.keys, watcher.walk \ {t})
           /\ missed' = IF watcher.keys = session[d] THEN missed \ {<<t, d>>} ELSE missed
  <2>1. /\ seen' \subseteq seen \cup {d} /\ seen' \subseteq Devices
        /\ watcher'.pc \in {"idle", "walk"}
        /\ watcher'.pc = "idle" => watcher' = Waiting /\ watcher.walk \ {t} = {}
        /\ watcher'.pc = "walk" =>
              watcher' = [pc |-> "walk", dev |-> d, keys |-> watcher.keys,
                          walk |-> watcher.walk \ {t}, api |-> None]
    <3>1. watcher.walk \ {t} \in SUBSET Targets
        BY <1>1
    <3> QED
        BY <1>1, <1>5, <3>1, WalkKeepsTypes DEF IInv
  <2>2. watcher' = Waiting \/ (watcher'.dev = d /\ watcher'.keys = watcher.keys)
      BY <2>1
  <2>3. MirrorTypeOK'
    <3>1. watcher'.pc = "idle" => WatcherTypes'
        BY <2>1 DEF WatcherTypes, Waiting
    <3>2. watcher'.pc = "walk" => WatcherTypes'
        BY <1>1, <2>1 DEF WatcherTypes
    <3>3. WatcherTypes'
        BY <2>1, <3>1, <3>2
    <3>4. missed' \subseteq Targets \X Devices /\ onTarget' \subseteq Targets \X Devices
        BY <1>1, <1>5 DEF IInv, MirrorTypeOK
    <3> QED
        BY <1>1, <1>2, <1>5, <2>1, <3>3, <3>4, RequestKeepsTypes DEF IInv
  <2>4. JoinersOnPrimary' /\ SeenIsOnPrimary'
    <3>1. d \in onPrimary
        BY <1>1 DEF IInv, JoinersOnPrimary
    <3> QED
        BY <1>1, <2>1, <2>2, <3>1 DEF IInv, JoinersOnPrimary, SeenIsOnPrimary, Waiting
  <2>5. \/ watcher.keys = session[d]
        \/ d \in ToSet(joins)
        \/ Everywhere(d) \subseteq missed'
      BY <1>1, <1>5 DEF IInv, KeysAreCurrent
  <2>6. KeysAreCurrent'
    <3>1. CASE watcher' = Waiting
        BY <3>1 DEF KeysAreCurrent, Waiting
    <3>2. CASE watcher'.dev = d /\ watcher'.keys = watcher.keys
        BY <1>1, <2>5, <3>2 DEF KeysAreCurrent, Everywhere
    <3> QED
        BY <2>2, <3>1, <3>2
  <2>7. UpToDate'
    <3> SUFFICES ASSUME NEW u \in settings.targets, NEW e \in Devices,
                        session[e] > 0, ~Owed(u, e)', <<u, e>> \notin missed'
                 PROVE  mirrored'[u][e] = session[e]
        BY <1>1 DEF UpToDate
    <3>1. u \in Targets /\ e \notin ToSet(joins)
        BY <1>1 DEF IInv, MirrorTypeOK, Settings, Owed
    <3>2. CASE u = t /\ e = d
      <4>1. watcher.keys = session[d]
          BY <2>5, <3>1, <3>2 DEF Everywhere
      <4> QED
          BY <1>2, <1>5, <3>2, <4>1
    <3>3. CASE u # t \/ e # d
      <4>1. <<u, e>> \notin missed
          BY <1>5, <3>3
      <4>2. ~(e = d /\ u \in watcher.walk)
        <5>1. ASSUME e = d, u \in watcher.walk PROVE FALSE
          <6>1. u \in watcher.walk \ {t}
              BY <3>3, <5>1
          <6>2. watcher'.dev = d /\ u \in watcher'.walk
              BY <2>1, <6>1
          <6> QED
              BY <5>1, <6>2 DEF Owed
        <5> QED
            BY <5>1
      <4>3. mirrored[u][e] = session[e]
          BY <1>1, <3>1, <4>1, <4>2 DEF IInv, UpToDate, Owed
      <4> QED
          BY <1>2, <1>5, <3>1, <3>3, <4>3
    <3> QED
        BY <3>2, <3>3
  <2> QED
      BY <2>3, <2>4, <2>6, <2>7 DEF IInv
<1> QED
    BY <1>3, <1>4, <1>5 DEF SetActivation

-----------------------------------------------------------------------------
\* The subscriber: it writes what the primary has, what is seen, and what was
\* refused, and none of it ever shrinks.
LEMMA ForwardKeepsIInv ==
    ASSUME IInv,
           \/ \E d \in Devices : ForwardJoinRequest(d) \/ ForwardUplink(d)
           \/ PrimaryExists \/ PrimaryCreate
    PROVE  IInv'
<1>1. UNCHANGED <<settings, primaryApi, watcher, joins, session, onTarget, mirrored, missed>>
    BY DEF ForwardJoinRequest, ForwardUplink, PrimaryExists, PrimaryCreate, servers
<1> DEFINE Typed == /\ bridged \subseteq Devices
                    /\ forwarder \in [pc: {"idle", "exists", "create", "uplink"},
                                      dev: Devices \cup {None}]
                    /\ forwarder.pc # "idle" => forwarder.dev \in Devices
           Grown == /\ onPrimary \subseteq onPrimary' /\ onPrimary' \subseteq Devices
                    /\ refused' \subseteq Devices /\ seen' \subseteq Devices
                    /\ SeenIsOnPrimary'
<1>2. Typed'
  <2>1. ASSUME NEW d \in Devices, ForwardJoinRequest(d) PROVE Typed'
      BY <2>1 DEF ForwardJoinRequest, Resting, IInv, MirrorTypeOK
  <2>2. ASSUME NEW d \in Devices, ForwardUplink(d) PROVE Typed'
      BY <2>2 DEF ForwardUplink, servers, IInv, MirrorTypeOK
  <2>3. ASSUME PrimaryExists PROVE Typed'
    <3>1. /\ UNCHANGED bridged /\ forwarder.dev \in Devices
          /\ forwarder' = Resting \/ forwarder' = [forwarder EXCEPT !.pc = "create"]
        BY <2>3 DEF PrimaryExists, servers, IInv, MirrorTypeOK
    <3>2. bridged' \subseteq Devices
        BY <3>1 DEF IInv, MirrorTypeOK
    <3>3. CASE forwarder' = Resting
        BY <3>2, <3>3 DEF Resting
    <3>4. CASE forwarder' = [forwarder EXCEPT !.pc = "create"]
      <4>1. forwarder' = [pc |-> "create", dev |-> forwarder.dev]
          BY <3>4 DEF IInv, MirrorTypeOK
      <4> QED
          BY <3>1, <3>2, <4>1
    <3> QED
        BY <3>1, <3>3, <3>4
  <2>4. ASSUME PrimaryCreate PROVE Typed'
      BY <2>4 DEF PrimaryCreate, Resting, IInv, MirrorTypeOK
  <2> QED
      BY <2>1, <2>2, <2>3, <2>4
<1>3. Grown
  <2>1. ASSUME UNCHANGED <<onPrimary, refused, seen>> PROVE Grown
      BY <2>1 DEF IInv, MirrorTypeOK, SeenIsOnPrimary
  <2>2. ASSUME PrimaryCreate PROVE Grown
      BY <2>2 DEF PrimaryCreate, SeenAfter, IInv, MirrorTypeOK, SeenIsOnPrimary
  <2> QED
      BY <2>1, <2>2 DEF ForwardJoinRequest, ForwardUplink, PrimaryExists, servers
<1>4. MirrorTypeOK'
    BY <1>1, <1>2, <1>3 DEF IInv, MirrorTypeOK
<1>5. JoinersOnPrimary' /\ KeysAreCurrent'
    BY <1>1, <1>3 DEF IInv, JoinersOnPrimary, KeysAreCurrent
<1>6. UpToDate'
    BY <1>1 DEF IInv, UpToDate, Owed
<1> QED
    BY <1>3, <1>4, <1>5, <1>6 DEF IInv

\* New settings: a target that was not in use has missed the joins so far.
LEMMA SaveSettingsKeepsIInv ==
    ASSUME IInv, NEW s \in Settings, SaveSettings(s)
    PROVE  IInv'
<1>1. /\ settings' = s /\ missed \subseteq missed'
      /\ UNCHANGED <<seen, watcher, forwarder, joins, servers, refused>>
      /\ s.targets \subseteq Targets /\ s.api \in BOOLEAN
    BY DEF SaveSettings, Settings
<1>2. MirrorTypeOK'
  <2>1. primaryApi' \in BOOLEAN
      BY <1>1 DEF SaveSettings, IInv, MirrorTypeOK
  <2>2. missed' \subseteq Targets \X Devices
      BY <1>1 DEF SaveSettings, IInv, MirrorTypeOK
  <2> QED
      BY <1>1, <2>1, <2>2 DEF IInv, MirrorTypeOK, servers
<1>3. JoinersOnPrimary' /\ KeysAreCurrent' /\ SeenIsOnPrimary'
    BY <1>1 DEF IInv, JoinersOnPrimary, KeysAreCurrent, SeenIsOnPrimary, servers
<1>4. UpToDate'
  <2> SUFFICES ASSUME NEW t \in s.targets, NEW d \in Devices,
                      session[d] > 0, ~Owed(t, d), <<t, d>> \notin missed'
               PROVE  mirrored[t][d] = session[d]
      BY <1>1 DEF UpToDate, Owed, servers
  <2>1. t \in settings.targets
      BY DEF SaveSettings
  <2>2. <<t, d>> \notin missed
      BY <1>1
  <2> QED
      BY <2>1, <2>2 DEF IInv, UpToDate
<1> QED
    BY <1>2, <1>3, <1>4 DEF IInv

LEMMA RestartKeepsIInv ==
    ASSUME IInv, Restart
    PROVE  IInv'
<1>1. /\ watcher' = Waiting /\ forwarder' = Resting /\ joins' = <<>> /\ seen' = {}
      /\ primaryApi' = settings.api /\ missed' = missed \cup (Targets \X Unserved)
      /\ UNCHANGED <<settings, servers, refused>>
    BY DEF Restart
<1>2. Unserved \subseteq Devices
  <2>1. ToSet(joins) \subseteq Devices
      BY DEF IInv, JoinersOnPrimary, MirrorTypeOK
  <2> QED
      BY <2>1 DEF Unserved, IInv, MirrorTypeOK
<1>3. MirrorTypeOK'
    BY <1>1, <1>2 DEF IInv, MirrorTypeOK, Waiting, Resting, Settings, servers
<1>4. JoinersOnPrimary' /\ KeysAreCurrent' /\ SeenIsOnPrimary'
    BY <1>1, NoElements
    DEF JoinersOnPrimary, KeysAreCurrent, SeenIsOnPrimary, Waiting
<1>5. ASSUME NEW t \in settings.targets, NEW d \in Devices, Owed(t, d)
      PROVE  <<t, d>> \in missed'
  <2>1. t \in Targets /\ d # None
      BY MirrorAssumption DEF IInv, MirrorTypeOK, Settings
  <2>2. d \in Unserved
      BY <1>5, <2>1 DEF Owed, Unserved
  <2> QED
      BY <1>1, <2>1, <2>2
<1>6. UpToDate'
    BY <1>1, <1>5, NothingForgotten DEF IInv, servers
<1> QED
    BY <1>3, <1>4, <1>6 DEF IInv

LEMMA PrimaryJoinKeepsIInv ==
    ASSUME IInv, NEW d \in Devices, PrimaryJoin(d)
    PROVE  IInv'
<1>1. /\ bridged' \subseteq bridged
      /\ UNCHANGED <<service, onPrimary, onTarget, mirrored, refused>>
    BY DEF PrimaryJoin
<1>2. CASE UNCHANGED <<session, joins, missed>>
  <2>1. MirrorTypeOK'
      BY <1>1, <1>2 DEF IInv, MirrorTypeOK, service
  <2>2. JoinersOnPrimary' /\ KeysAreCurrent' /\ SeenIsOnPrimary' /\ UpToDate'
      BY <1>1, <1>2
      DEF IInv, JoinersOnPrimary, KeysAreCurrent, SeenIsOnPrimary, UpToDate, Owed, service
  <2> QED
      BY <2>1, <2>2 DEF IInv
<1>3. CASE /\ d \in onPrimary
           /\ session' = [session EXCEPT ![d] = @ + 1]
           /\ \/ joins' = Append(joins, d) /\ UNCHANGED missed
              \/ missed' = missed \cup Everywhere(d) /\ UNCHANGED joins
  <2>1. /\ Append(joins, d) \in Seq(Devices)
        /\ ToSet(Append(joins, d)) = ToSet(joins) \cup {d}
      BY AppendElements DEF IInv, MirrorTypeOK
  <2>2. /\ joins' \in Seq(Devices) /\ ToSet(joins) \subseteq ToSet(joins')
        /\ ToSet(joins') \subseteq ToSet(joins) \cup {d}
        /\ missed \subseteq missed' /\ missed' \subseteq Targets \X Devices
        /\ d \in ToSet(joins') \/ Everywhere(d) \subseteq missed'
      BY <1>3, <2>1 DEF IInv, MirrorTypeOK, Everywhere
  <2>3. /\ session' \in [Devices -> Nat]
        /\ \A e \in Devices \ {d} : session'[e] = session[e]
      BY <1>3 DEF IInv, MirrorTypeOK
  <2>4. MirrorTypeOK'
      BY <1>1, <2>2, <2>3 DEF IInv, MirrorTypeOK, service
  <2>5. JoinersOnPrimary' /\ SeenIsOnPrimary'
      BY <1>1, <1>3, <2>2 DEF IInv, JoinersOnPrimary, SeenIsOnPrimary, service
  <2>6. KeysAreCurrent'
    <3>1. CASE watcher.dev = d
        BY <1>1, <2>2, <3>1 DEF KeysAreCurrent, service
    <3>2. CASE watcher.dev # d
        BY <1>1, <2>2, <2>3, <3>2 DEF IInv, MirrorTypeOK, KeysAreCurrent, service
    <3> QED
        BY <3>1, <3>2
  <2>7. UpToDate'
    <3> SUFFICES ASSUME NEW t \in settings.targets, NEW e \in Devices,
                        session'[e] > 0, ~Owed(t, e)', <<t, e>> \notin missed'
                 PROVE  mirrored[t][e] = session'[e]
        BY <1>1 DEF UpToDate, service
    <3>1. e \notin ToSet(joins') /\ ~Owed(t, e) /\ <<t, e>> \notin missed
        BY <1>1, <2>2 DEF Owed, service
    <3>2. e # d
      <4>1. t \in Targets
          BY DEF IInv, MirrorTypeOK, Settings
      <4> QED
          BY <2>2, <3>1, <4>1 DEF Everywhere
    <3> QED
        BY <2>3, <3>1, <3>2 DEF IInv, UpToDate
  <2> QED
      BY <2>4, <2>5, <2>6, <2>7 DEF IInv
<1> QED
    BY <1>2, <1>3 DEF PrimaryJoin

-----------------------------------------------------------------------------
\* IInv holds in every reachable state.
THEOREM Invariance == Spec => []IInv
<1>1. IInv /\ [Next]_vars => IInv'
  <2> SUFFICES ASSUME IInv, [Next]_vars PROVE IInv'
      OBVIOUS
  <2>1. CASE UNCHANGED vars
    <3>1. UNCHANGED <<settings, primaryApi, seen, watcher, forwarder, joins, bridged,
                      onPrimary, session, onTarget, mirrored, missed, refused>>
        BY <2>1 DEF vars, service, servers
    <3> QED
        BY <3>1 DEF IInv, MirrorTypeOK, JoinersOnPrimary, KeysAreCurrent, UpToDate,
                    SeenIsOnPrimary, Owed
  <2>2. CASE Next
      BY <2>2, ReadJoinKeepsIInv, FetchKeysKeepsIInv, DeviceExistsKeepsIInv,
         CreateDeviceKeepsIInv, SetActivationKeepsIInv, ForwardKeepsIInv,
         SaveSettingsKeepsIInv, RestartKeepsIInv, PrimaryJoinKeepsIInv DEF Next
  <2> QED
      BY <2>1, <2>2
<1> QED
    BY <1>1, InitIInv, PTL DEF Spec

\* The state of the mirror is well typed, and a suspended handle_join has a
\* device and a target it has yet to finish.
THEOREM TypeCorrect == Spec => []MirrorTypeOK
<1>1. IInv => MirrorTypeOK
    BY DEF IInv
<1> QED
    BY <1>1, Invariance, PTL

\* Whatever fails, restarts or is reconfigured, a target in use has the current
\* keys of a device unless they are still owed or were given up.
THEOREM TargetsAreUpToDate == Spec => []UpToDate
<1>1. IInv => UpToDate
    BY DEF IInv
<1> QED
    BY <1>1, Invariance, PTL

\* _seen_dev never runs ahead of the primary.
THEOREM SeenDevicesAreRegistered == Spec => []SeenIsOnPrimary
<1>1. IInv => SeenIsOnPrimary
    BY DEF IInv
<1> QED
    BY <1>1, Invariance, PTL

=============================================================================
