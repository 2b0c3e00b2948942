---------------------------- MODULE DeviceMirror ----------------------------
(***************************************************************************)
(* The ChirpStack mirror of the integration service:                       *)
(* ChirpStackIntegration of integration/integrations/chirpstack.py, and    *)
(* the loops of integration/main.py that call it.                          *)
(*                                                                         *)
(* Two tasks share _seen_dev, _primary_api and the list of targets.  The   *)
(* watcher reads the join events of the primary and runs handle_join, the  *)
(* subscriber reads the messages of the broker and runs forward; each      *)
(* handles one message at a time, and is suspended in every API request.   *)
(* POST /settings replaces the targets between any two such steps.  A      *)
(* request takes effect on its server and is answered in one step.  The    *)
(* primary gives a device new session keys at every join, named here by    *)
(* the number of the join.                                                 *)
(***************************************************************************)
EXTENDS Naturals, SequencesExt

CONSTANTS Devices, Targets,
          MaxJoins,  \* bound: how often a device joins
          Mishaps,   \* what may go wrong or change, see AllMishaps
          None

\* A server refuses a request; a request raises, having taken effect or not; a
\* message is lost with an MQTT connection; the service restarts; an operator
\* saves other settings.
AllMishaps == {"refused", "raised", "lost", "restart", "settings"}

ASSUME MirrorAssumption ==
    /\ MaxJoins \in Nat
    /\ Mishaps \subseteq AllMishaps
    /\ None \notin Devices \cup Targets

\* _shared_settings: whether there is a URL of the primary's API, the enabled
\* targets with one (_api_targets is built from them in the step that saves
\* them), and the devices that _check_whitelist allows.
Settings == [api: BOOLEAN, targets: SUBSET Targets, allowed: SUBSET Devices]

VARIABLES settings,   \* _shared_settings, and the file they are saved to
          primaryApi, \* whether _primary_api is set
          seen,       \* _seen_dev
          watcher,    \* handle_join: position, dev_eui, activation, targets to do, api
          forwarder,  \* forward: position, dev_eui
          joins,      \* external: join events the watcher has yet to read
          bridged,    \* external: join requests on their way to the primary
          onPrimary,  \* external: devices the primary has
          session,    \* external: the keys the primary gave each device, 0 for none
          onTarget,   \* external: the pairs <<target, device>> that exist
          mirrored,   \* external: the keys each target has, 0 for none
          missed,     \* history: the pairs <<target, device>> the mirror gave up
          refused     \* history: the devices the primary refused to create

service == <<settings, primaryApi, seen, watcher, forwarder>>
servers == <<bridged, onPrimary, session, onTarget, mirrored>>
vars == <<service, joins, servers, missed, refused>>

Everywhere(d) == Targets \X {d}

\* Between two messages of the watcher, and of the subscriber.
Waiting == [pc |-> "idle", dev |-> None, keys |-> 0, walk |-> {}, api |-> None]
Resting == [pc |-> "idle", dev |-> None]

Init ==
    /\ settings \in Settings
    /\ primaryApi = settings.api
    /\ seen = {}
    /\ watcher = Waiting
    /\ forwarder = Resting
    /\ joins = <<>>
    /\ bridged = {}
    /\ onPrimary \in SUBSET Devices
    /\ session = [d \in Devices |-> 0]
    /\ onTarget = {}
    /\ mirrored = [t \in Targets |-> [d \in Devices |-> 0]]
    /\ missed = {}
    /\ refused = {}

-----------------------------------------------------------------------------
(***************************************************************************)
(* The watcher: primary_watcher_loop and handle_join.                      *)
(***************************************************************************)

\* handle_join up to its first request.
ReadJoin ==
    /\ watcher.pc = "idle" /\ joins # <<>>
    /\ joins' = Tail(joins)
    /\ LET d == Head(joins)
       IN  IF primaryApi /\ d \notin seen
           THEN /\ watcher' = [Waiting EXCEPT !.pc = "fetch", !.dev = d]
                /\ UNCHANGED missed
           ELSE /\ missed' = missed \cup Everywhere(d)
                /\ UNCHANGED watcher
    /\ UNCHANGED <<settings, primaryApi, seen, forwarder, servers, refused>>

\* The loop over the targets goes on with rest; with none left the device is
\* seen, whatever its targets answered.
Walk(keys, rest) ==
    IF rest # {}
    THEN /\ watcher' = [watcher EXCEPT !.pc = "walk", !.keys = keys,
                                       !.walk = rest, !.api = None]
         /\ UNCHANGED seen
    ELSE /\ watcher' = Waiting
         /\ seen' = seen \cup {watcher.dev}

\* get_activation: an answer other than 200, and an exception, are no keys.
FetchKeys ==
    /\ watcher.pc = "fetch"
    /\ \/ /\ Walk(session[watcher.dev], settings.targets)
          /\ UNCHANGED missed
       \/ /\ Mishaps \cap {"refused", "raised"} # {}
          /\ watcher' = Waiting
          /\ missed' = missed \cup Everywhere(watcher.dev)
          /\ UNCHANGED seen
    /\ UNCHANGED <<settings, primaryApi, forwarder, joins, servers, refused>>

\* device_exists on the next target: an exception counts as no.
DeviceExists(t) ==
    /\ watcher.pc = "walk" /\ t \in watcher.walk
    /\ \E exists \in BOOLEAN :
          /\ exists => <<t, watcher.dev>> \in onTarget
          /\ <<t, watcher.dev>> \in onTarget /\ ~exists =>
                Mishaps \cap {"refused", "raised"} # {}
          /\ watcher' = [watcher EXCEPT !.pc = IF exists THEN "activate" ELSE "create",
                                        !.api = t]
    /\ UNCHANGED <<settings, primaryApi, seen, forwarder, joins, servers, missed, refused>>

\* Fault: handle_join returns where it should continue.
SkipReturns ==
    /\ "refused" \in Mishaps
    /\ Walk(watcher.keys, {})
    /\ missed' = missed \cup {<<watcher.api, watcher.dev>>}

\* create_device or set_activation returned False: the loop continues.
Skip ==
    /\ "refused" \in Mishaps
    /\ Walk(watcher.keys, watcher.walk \ {watcher.api})
    /\ missed' = missed \cup {<<watcher.api, watcher.dev>>}

\* Fault: the exception ends the task of the watcher.
RaiseStopsWatcher ==
    /\ "raised" \in Mishaps
    /\ watcher' = [Waiting EXCEPT !.pc = "stopped"]
    /\ missed' = missed \cup (watcher.walk \X {watcher.dev})
    /\ UNCHANGED seen

\* Fault: the exception ends the request, and not handle_join.
RaiseKeepsPlace ==
    /\ "raised" \in Mishaps
    /\ watcher' = [watcher EXCEPT !.pc = "idle"]
    /\ UNCHANGED <<missed, seen>>

\* Either of them raised: primary_watcher_loop logs it and reads on.
Raise ==
    /\ "raised" \in Mishaps
    /\ watcher' = Waiting
    /\ missed' = missed \cup (watcher.walk \X {watcher.dev})
    /\ UNCHANGED seen

\* create_device, which takes a device that is there already for success.
CreateDevice ==
    LET created == onTarget \cup {<<watcher.api, watcher.dev>>}
    IN  /\ watcher.pc = "create"
        /\ \/ /\ watcher' = [watcher EXCEPT !.pc = "activate"]
              /\ onTarget' = created
              /\ UNCHANGED <<seen, missed>>
           \/ Skip /\ UNCHANGED onTarget
           \/ Raise /\ onTarget' \in {onTarget, created}
        /\ UNCHANGED <<settings, primaryApi, forwarder, joins, bridged, onPrimary,
                       session, mirrored, refused>>

\* set_activation.
SetActivation ==
    LET t == watcher.api
        d == watcher.dev
        activated == [mirrored EXCEPT ![t][d] = watcher.keys]
    IN  /\ watcher.pc = "activate"
        /\ \/ /\ mirrored' = activated
              /\ Walk(watcher.keys, watcher.walk \ {t})
              /\ missed' = IF watcher.keys = session[d] THEN missed \ {<<t, d>>} ELSE missed
           \/ Skip /\ UNCHANGED mirrored
           \/ Raise /\ mirrored' \in {mirrored, activated}
        /\ UNCHANGED <<settings, primaryApi, forwarder, joins, bridged, onPrimary,
                       session, onTarget, refused>>

-----------------------------------------------------------------------------
(***************************************************************************)
(* The subscriber: subscriber_loop and forward.                            *)
(***************************************************************************)

\* Whether forward registers the device d with the primary.
Registers(d) == primaryApi /\ d \notin seen /\ d \in settings.allowed

\* A gateway frame with a join request: it is bridged, and the device created
\* on the primary if it is missing there.
ForwardJoinRequest(d) ==
    /\ forwarder.pc = "idle"
    /\ \/ bridged' = bridged \cup {d}
       \/ "lost" \in Mishaps /\ UNCHANGED bridged
    /\ forwarder' = IF Registers(d) THEN [pc |-> "exists", dev |-> d] ELSE Resting
    /\ UNCHANGED <<settings, primaryApi, seen, watcher, joins, onPrimary, session,
                   onTarget, mirrored, missed, refused>>

\* Fault: the device is marked before the request, and not after it.
ForwardUplinkMarks(d) ==
    /\ forwarder.pc = "idle"
    /\ Registers(d)
    /\ forwarder' = [pc |-> "uplink", dev |-> d]
    /\ seen' = seen \cup {d}
    /\ UNCHANGED <<settings, primaryApi, watcher, joins, servers, missed, refused>>

\* Plain JSON that names a device.
ForwardUplink(d) ==
    /\ forwarder.pc = "idle"
    /\ Registers(d)
    /\ forwarder' = [pc |-> "uplink", dev |-> d]
    /\ UNCHANGED <<settings, primaryApi, seen, watcher, joins, servers, missed, refused>>

\* device_exists on the primary.
PrimaryExists ==
    /\ forwarder.pc = "exists"
    /\ \/ forwarder.dev \in onPrimary /\ forwarder' = Resting
       \/ /\ \/ forwarder.dev \notin onPrimary
             \/ Mishaps \cap {"refused", "raised"} # {}
          /\ forwarder' = [forwarder EXCEPT !.pc = "create"]
    /\ UNCHANGED <<settings, primaryApi, seen, watcher, joins, servers, missed, refused>>

\* forward marks the device of plain JSON as seen once create_device returned.
SeenAfter == IF forwarder.pc = "uplink" THEN seen \cup {forwarder.dev} ELSE seen

\* create_device on the primary.
PrimaryCreate ==
    LET d == forwarder.dev
    IN  /\ forwarder.pc \in {"create", "uplink"}
        /\ forwarder' = Resting
        /\ \/ onPrimary' = onPrimary \cup {d} /\ seen' = SeenAfter /\ UNCHANGED refused
           \/ /\ "refused" \in Mishaps
              /\ refused' = refused \cup {d} /\ seen' = SeenAfter /\ UNCHANGED onPrimary
           \/ /\ "raised" \in Mishaps
              /\ onPrimary' \in {onPrimary, onPrimary \cup {d}}
              /\ UNCHANGED <<seen, refused>>
        /\ UNCHANGED <<settings, primaryApi, watcher, joins, bridged, session, onTarget,
                       mirrored, missed>>

-----------------------------------------------------------------------------
(***************************************************************************)
(* Settings, restarts, and the primary.                                    *)
(***************************************************************************)

\* save_settings with reload_targets: a target that is new has missed every
\* join so far.  _rebuild sets _primary_api and never clears it; a walk that
\* is under way keeps the list it began with.
SaveSettings(s) ==
    /\ "settings" \in Mishaps
    /\ settings' = s
    /\ primaryApi' = (primaryApi \/ s.api)
    /\ missed' = missed \cup ((s.targets \ settings.targets)
                                \X {d \in Devices : session[d] > 0})
    /\ UNCHANGED <<seen, watcher, forwarder, joins, servers, refused>>

\* The devices whose join the watcher has not finished with.
Unserved == ToSet(joins) \cup ({watcher.dev} \ {None})

\* The service stops at any point and starts again from its file.
Restart ==
    /\ "restart" \in Mishaps
    /\ primaryApi' = settings.api
    /\ seen' = {}
    /\ watcher' = Waiting
    /\ forwarder' = Resting
    /\ joins' = <<>>
    /\ missed' = missed \cup (Targets \X Unserved)
    /\ UNCHANGED <<settings, servers, refused>>

\* External: the primary answers a join request of a device it has, and
\* publishes the event; it drops the request of another.
PrimaryJoin(d) ==
    /\ d \in bridged
    /\ bridged' = bridged \ {d}
    /\ IF d \in onPrimary /\ session[d] < MaxJoins
       THEN /\ session' = [session EXCEPT ![d] = @ + 1]
            /\ \/ joins' = Append(joins, d) /\ UNCHANGED missed
               \/ /\ "lost" \in Mishaps
                  /\ missed' = missed \cup Everywhere(d)
                  /\ UNCHANGED joins
       ELSE UNCHANGED <<session, joins, missed>>
    /\ UNCHANGED <<service, onPrimary, onTarget, mirrored, refused>>

Next ==
    \/ ReadJoin \/ FetchKeys \/ CreateDevice \/ SetActivation
    \/ \E t \in Targets : DeviceExists(t)
    \/ \E d \in Devices : ForwardJoinRequest(d) \/ ForwardUplink(d) \/ PrimaryJoin(d)
    \/ PrimaryExists \/ PrimaryCreate
    \/ \E s \in Settings : SaveSettings(s)
    \/ Restart

Spec == Init /\ [][Next]_vars

\* A task whose message is there, or whose request was answered, goes on; every
\* request is answered or times out.
Fairness ==
    /\ WF_vars(ReadJoin) /\ WF_vars(FetchKeys)
    /\ WF_vars(\E t \in Targets : DeviceExists(t))
    /\ WF_vars(CreateDevice) /\ WF_vars(SetActivation)
    /\ WF_vars(PrimaryExists) /\ WF_vars(PrimaryCreate)

FairSpec == Spec /\ Fairness

-----------------------------------------------------------------------------
\* Types; a suspended handle_join has a device, and its target is one it has
\* yet to finish.
MirrorTypeOK ==
    /\ settings \in Settings
    /\ primaryApi \in BOOLEAN
    /\ seen \subseteq Devices
    /\ watcher \in [pc: {"idle", "fetch", "walk", "create", "activate"},
                    dev: Devices \cup {None}, keys: Nat, walk: SUBSET Targets,
                    api: Targets \cup {None}]
    /\ watcher.pc # "idle" => watcher.dev \in Devices
    /\ watcher.pc = "idle" => watcher = Waiting
    /\ watcher.pc \in {"create", "activate"} => watcher.api \in watcher.walk
    /\ forwarder \in [pc: {"idle", "exists", "create", "uplink"},
                      dev: Devices \cup {None}]
    /\ forwarder.pc # "idle" => forwarder.dev \in Devices
    /\ joins \in Seq(Devices)
    /\ bridged \subseteq Devices
    /\ onPrimary \subseteq Devices
    /\ session \in [Devices -> Nat]
    /\ onTarget \subseteq Targets \X Devices
    /\ mirrored \in [Targets -> [Devices -> Nat]]
    /\ missed \subseteq Targets \X Devices
    /\ refused \subseteq Devices

\* The watcher still owes the target t the keys of the device d.
Owed(t, d) ==
    \/ d \in ToSet(joins)
    \/ watcher.dev = d /\ (watcher.pc = "fetch" \/ t \in watcher.walk)

\* A target in use has the current keys of every device that joined, unless
\* the watcher still owes them or the pair is one that was given up: the event
\* was lost or ignored, a request failed, the service restarted, or the target
\* was added later.  No interleaving of joins, settings and uplinks makes the
\* mirror forget a target in any other way.
UpToDate ==
    \A t \in settings.targets, d \in Devices :
        session[d] > 0 /\ ~Owed(t, d) /\ <<t, d>> \notin missed =>
            mirrored[t][d] = session[d]

\* A device marked as seen is one the primary has or has refused: an uplink
\* whose request is under way, or raised, does not stop a later attempt.
SeenIsOnPrimary == seen \subseteq onPrimary \cup refused

\* The watcher gets to every join event, whatever the targets answer.
JoinsAreRead == joins # <<>> ~> joins = <<>>

(***************************************************************************)
(* What the documents say, and the code does not do.                       *)
(***************************************************************************)

\* "The integration service will automatically register devices as ABP and set
\* session keys whenever an OTAA join is seen on the primary": with the API of the
\* primary configured and no join left to handle, each target has the current keys of each device.
KeysFollowJoins ==
    \A t \in settings.targets, d \in Devices :
        settings.api /\ session[d] > 0 /\ ~Owed(t, d) => mirrored[t][d] = session[d]

=============================================================================
