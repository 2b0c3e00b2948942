----------------------------- MODULE TopicMatch -----------------------------
(***************************************************************************)
(* Topic filters (mqtt_broker/router.py): the loop of topic_matches that   *)
(* walks a filter and a topic level by level, and is_valid_topic_filter,   *)
(* which guards every filter that is stored.                               *)
(*                                                                         *)
(* A topic or a filter is the sequence of the levels that split("/")       *)
(* returns, so it is never empty and a level may be the empty string.      *)
(* Levels stand for strings: what the code can tell of a level is whether  *)
(* it is "+", is "#", contains one of them, begins with "$", or equals     *)
(* another one.                                                            *)
(***************************************************************************)
EXTENDS Integers, Sequences

CONSTANTS Level,       \* the strings between the slashes
          Plus, Hash,  \* the levels "+" and "#"
          Empty,       \* the empty level
          HasPlus,     \* the levels with a "+" in them
          HasHash,     \* the levels with a "#" in them
          Dollar       \* the levels that begin with "$"

ASSUME LevelAssumption ==
    /\ Plus \in HasPlus /\ Hash \in HasHash
    /\ HasPlus \cup HasHash \cup Dollar \cup {Empty} \subseteq Level
    /\ Plus \notin HasHash \cup Dollar /\ Hash \notin HasPlus \cup Dollar
    /\ Empty \notin HasPlus \cup HasHash \cup Dollar

Paths == Seq(Level) \ {<<>>}

\* is_valid_topic_filter; the empty string is the path of one empty level.
ValidFilter(f) ==
    /\ f # <<Empty>>
    /\ \A i \in 1..Len(f) :
          /\ f[i] \in HasHash => f[i] = Hash /\ i = Len(f)
          /\ f[i] \in HasPlus => f[i] = Plus

-----------------------------------------------------------------------------
VARIABLES filter, topic,  \* the arguments of topic_matches
          fi, ti,         \* the indices of the loop, counted from 1
          result          \* "none" until the function returns

walkVars == <<filter, topic, fi, ti, result>>

InitFor(Filters, Topics) ==
    /\ filter \in Filters
    /\ topic \in Topics
    /\ fi = 1
    /\ ti = 1
    /\ result = "none"

WalkInit == InitFor(Paths, Paths)

Return(b) ==
    /\ result' = IF b THEN "yes" ELSE "no"
    /\ UNCHANGED <<filter, topic, fi, ti>>

Running == result = "none"

\* The test before the loop, which the code makes first and once.
Hidden == topic[1] \in Dollar /\ filter[1] \notin Dollar

InLoop == Running /\ ~Hidden /\ fi <= Len(filter) /\ ti <= Len(topic)

HideSystemTopic ==
    /\ Running
    /\ Hidden
    /\ Return(FALSE)

MatchRest ==
    /\ InLoop
    /\ filter[fi] = Hash
    /\ Return(TRUE)

\* Fault: "+" does not match an empty level.
LevelFitsNonEmpty(f, t) == (f = Plus /\ t # Empty) \/ f = t

\* The level f of the filter accepts the level t of the topic.
LevelFits(f, t) == f = Plus \/ f = t

\* Fault: after a "+" the filter moves on by two levels.
MatchLevelSkips ==
    /\ InLoop
    /\ filter[fi] # Hash
    /\ LevelFits(filter[fi], topic[ti])
    /\ fi' = fi + (IF filter[fi] = Plus THEN 2 ELSE 1)
    /\ ti' = ti + 1
    /\ UNCHANGED <<filter, topic, result>>

MatchLevel ==
    /\ InLoop
    /\ filter[fi] # Hash
    /\ LevelFits(filter[fi], topic[ti])
    /\ fi' = fi + 1
    /\ ti' = ti + 1
    /\ UNCHANGED <<filter, topic, result>>

Mismatch ==
    /\ InLoop
    /\ filter[fi] # Hash
    /\ ~LevelFits(filter[fi], topic[ti])
    /\ Return(FALSE)

AtEnd ==
    \/ fi = Len(filter) + 1 /\ ti = Len(topic) + 1
    \/ fi <= Len(filter) /\ filter[fi] = Hash

LeaveLoop ==
    /\ Running /\ ~Hidden
    /\ fi > Len(filter) \/ ti > Len(topic)
    /\ Return(AtEnd)

WalkNext == HideSystemTopic \/ MatchRest \/ MatchLevel \/ Mismatch \/ LeaveLoop

WalkSpec == WalkInit /\ [][WalkNext]_walkVars

-----------------------------------------------------------------------------
(***************************************************************************)
(* What MQTT means by a filter that matches a topic: the levels before a   *)
(* final "#" fit those of the topic one by one, "#" stands for any number  *)
(* of further levels and for none, and a system topic is only matched by a *)
(* filter that names it.                                                   *)
(***************************************************************************)
FitsUpTo(f, t, n) ==
    n <= Len(t) /\ \A i \in 1..n : f[i] = Plus \/ f[i] = t[i]

Covers(f, t) ==
    /\ t[1] \in Dollar => f[1] \in Dollar
    /\ IF f[Len(f)] = Hash
       THEN FitsUpTo(f, t, Len(f) - 1)
       ELSE Len(f) = Len(t) /\ FitsUpTo(f, t, Len(f))

\* The arguments are paths and the loop never reads past the end of either.
WalkTypeOK ==
    /\ filter \in Paths /\ topic \in Paths
    /\ fi \in 1..Len(filter) + 1 /\ ti \in 1..Len(topic) + 1
    /\ result \in {"none", "yes", "no"}

\* topic_matches returns what MQTT means, for every topic (a will topic is
\* never checked, so also one with wildcards in it) and every filter that
\* is_valid_topic_filter accepts.
MatchesExactly ==
    ValidFilter(filter) /\ ~Running => (result = "yes" <=> Covers(filter, topic))

=============================================================================
