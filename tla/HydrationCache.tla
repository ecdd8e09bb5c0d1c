--------------------------- MODULE HydrationCache ---------------------------
(***************************************************************************)
(* The hydration payload of one room: built from the database in a query   *)
(* for the profile, one for the schedule, one for the slots of the rosters *)
(* and three for each course and section among them; kept in Redis for a   *)
(* while, or, when Redis does not answer, in a dictionary of the server    *)
(* process that nothing expires.                                           *)
(*                                                                         *)
(* The database is abstracted to a revision that grows; a payload to the   *)
(* revisions its queries saw.  Every await of CacheService and             *)
(* BoardHydrationService ends a step.  A call to Redis either works, or    *)
(* fails (both layers of CacheService then change places), or works and    *)
(* loses its reply: the connection is down from then on.                   *)
(***************************************************************************)
EXTENDS Integers

CONSTANTS
    Builders,   \* hydrate requests that can be under way together
    Nil,
    MaxRev      \* bound: revisions of the database

Rev == 0..MaxRev
Layers == {"redis", "local"}

\* The queries of a payload; "rosters" are those of the loop over the slots' pairs.
Queries == {"profile", "schedule", "slots", "rosters"}

\* What a payload shows: the revisions seen by the queries of each kind.
Parts == [Queries -> SUBSET Rev]

ASSUME HydrationAssumption == MaxRev \in Nat /\ Nil \notin Parts

VARIABLES
    rev,        \* revision of timetable, enrolments and board profile
    cache,      \* Redis and CacheService._local_fallback
    up,         \* Redis answers
    build,      \* hydrate requests
    floor,      \* history: revision at the last invalidation that reached a layer
    tainted     \* history: layers whose entry was read before that invalidation

vars == <<rev, cache, up, build, floor, tainted>>

\* A request is at the query it awaits; over: the layers invalidated since it read.
Build == [pc : Queries \cup {"idle", "store"}, parts : Parts, over : SUBSET Layers]
NoParts == [q \in Queries |-> {}]
Idle == [pc |-> "idle", parts |-> NoParts, over |-> {}]

TypeOK ==
    /\ rev \in Rev
    /\ cache \in [Layers -> Parts \cup {Nil}]
    /\ up \in BOOLEAN
    /\ build \in [Builders -> Build]
    /\ floor \in [Layers -> Rev]
    /\ tainted \subseteq Layers

Init ==
    /\ rev = 0
    /\ cache = [l \in Layers |-> Nil]
    /\ up \in BOOLEAN
    /\ build = [p \in Builders |-> Idle]
    /\ floor = [l \in Layers |-> 0]
    /\ tainted = {}

----------------------------------------------------------------------------
(* CacheService: the layer an operation reaches, and how Redis is after it. *)

\* get: the fallback is read only when Redis fails.
Lookup == IF up THEN cache["redis"] ELSE cache["local"]

\* set and delete: the layers changed, and whether Redis still answers.
Reached(layers, upAfter) ==
    \/ up /\ layers = {"redis"} /\ upAfter
    \/ up /\ layers = {"redis", "local"} /\ ~upAfter
    \/ ~up /\ layers = {"local"} /\ ~upAfter

\* setex has a time to live, the dictionary has none.
Expires_Never(l) == FALSE
Expires(l) == l = "redis"

----------------------------------------------------------------------------
(* BoardHydrationService.                                                  *)

\* It has read something.
UnderWay(b) == b.pc \notin {"idle", "profile"}

\* A hit returns the entry and changes nothing.
Hydrate(p) ==
    /\ build[p].pc = "idle"
    /\ Lookup = Nil
    /\ build' = [build EXCEPT ![p] = [Idle EXCEPT !.pc = "profile"]]
    /\ UNCHANGED <<rev, cache, up, floor, tainted>>

\* What comes after a query: a room without pairs has no roster to ask for, and the
\* loop over the pairs goes on or ends.
Follows_RostersFirst(q, next) ==
    <<q, next>> \in {<<"profile", "slots">>, <<"slots", "rosters">>, <<"slots", "schedule">>,
                     <<"rosters", "rosters">>, <<"rosters", "schedule">>, <<"schedule", "store">>}
Follows(q, next) ==
    <<q, next>> \in {<<"profile", "schedule">>, <<"schedule", "slots">>,
                     <<"slots", "rosters">>, <<"slots", "store">>,
                     <<"rosters", "rosters">>, <<"rosters", "store">>}

\* A query returns.
Reads(p, q) ==
    /\ build[p].pc = q
    /\ \E next \in Queries \cup {"store"} :
         /\ Follows(q, next)
         /\ build' = [build EXCEPT ![p].pc = next, ![p].parts[q] = @ \cup {rev}]
    /\ UNCHANGED <<rev, cache, up, floor, tainted>>

BuildProfile(p) == Reads(p, "profile")
BuildSchedule(p) == Reads(p, "schedule")

\* _build_rosters asks for the slots itself, then for the enrolments, the section and
\* the course of each pair.
RosterSlots(p) == Reads(p, "slots")
RosterOfPair(p) == Reads(p, "rosters")

Store(p) ==
    /\ build[p].pc = "store"
    /\ \E layers \in SUBSET Layers, upAfter \in BOOLEAN :
         /\ Reached(layers, upAfter)
         /\ up' = upAfter
         /\ cache' = [l \in Layers |-> IF l \in layers THEN build[p].parts ELSE cache[l]]
         /\ tainted' = (tainted \ layers) \cup (layers \cap build[p].over)
    /\ build' = [build EXCEPT ![p] = Idle]
    /\ UNCHANGED <<rev, floor>>

\* invalidate, from the pre-flight and the termination of a session.
Kept_Emptied(l, layers) == IF l \in layers THEN [q \in {} |-> {}] ELSE cache[l]
Kept_RedisOnly(l, layers) == IF l \in layers /\ l = "redis" THEN Nil ELSE cache[l]
Kept(l, layers) == IF l \in layers THEN Nil ELSE cache[l]

Invalidate ==
    \E layers \in SUBSET Layers, upAfter \in BOOLEAN :
      /\ Reached(layers, upAfter)
      /\ up' = upAfter
      /\ cache' = [l \in Layers |-> Kept(l, layers)]
      /\ floor' = [l \in Layers |-> IF l \in layers THEN rev ELSE floor[l]]
      /\ tainted' = tainted \ layers
      /\ build' = [p \in Builders |->
                     IF UnderWay(build[p]) THEN [build[p] EXCEPT !.over = @ \cup layers]
                     ELSE build[p]]
      /\ UNCHANGED rev

----------------------------------------------------------------------------
(* The environment.                                                        *)

\* A registration or a deregistration writes the profile; the timetable and the
\* enrolments are edited in the database, by no code under src/.  Neither invalidates
\* the payload.
Change ==
    /\ rev < MaxRev
    /\ rev' = rev + 1
    /\ UNCHANGED <<cache, up, build, floor, tainted>>

Expire(l) ==
    /\ Expires(l)
    /\ cache[l] # Nil
    /\ cache' = [cache EXCEPT ![l] = Nil]
    /\ tainted' = tainted \ {l}
    /\ UNCHANGED <<rev, up, build, floor>>

RedisDown ==
    /\ up
    /\ up' = FALSE
    /\ UNCHANGED <<rev, cache, build, floor, tainted>>

RedisUp ==
    /\ ~up
    /\ up' = TRUE
    /\ UNCHANGED <<rev, cache, build, floor, tainted>>

\* The server process is replaced; Redis and the database are not.
Restart ==
    /\ cache' = [cache EXCEPT !["local"] = Nil]
    /\ build' = [p \in Builders |-> Idle]
    /\ tainted' = tainted \ {"local"}
    /\ UNCHANGED <<rev, up, floor>>

Step(p) ==
    BuildProfile(p) \/ BuildSchedule(p) \/ RosterSlots(p) \/ RosterOfPair(p) \/ Store(p)

Next ==
    \/ \E p \in Builders : Hydrate(p) \/ Step(p)
    \/ Invalidate
    \/ Change
    \/ \E l \in Layers : Expire(l)
    \/ RedisDown
    \/ RedisUp
    \/ Restart

Spec == Init /\ [][Next]_vars

\* A request that was started goes on, and time passes in Redis.
Fairness ==
    /\ \A p \in Builders : WF_vars(Step(p))
    /\ WF_vars(Expire("redis"))

FairSpec == Spec /\ Fairness

----------------------------------------------------------------------------

(* The queries of a build each see the database as it is then, so a payload  *)
(* may mix revisions; it never shows a roster older than the slots it was    *)
(* asked for, nor slots older than the schedule, nor anything newer than the *)
(* database, and neither cache layer ever holds half a build.                *)
InOrder(e) ==
    \A pair \in {<<"profile", "schedule">>, <<"schedule", "slots">>, <<"slots", "rosters">>} :
       \A m \in e[pair[1]], n \in e[pair[2]] : m <= n

UpTo(e, r) == \A q \in Queries : \A n \in e[q] : n <= r

Whole(e) == e["profile"] # {} /\ e["schedule"] # {} /\ e["slots"] # {}

PartsInOrder ==
    \A l \in Layers : cache[l] # Nil => InOrder(cache[l]) /\ UpTo(cache[l], rev) /\ Whole(cache[l])

(* An entry is older than the last invalidation of its layer only if the     *)
(* build that stored it was under way when the invalidation came: neither an *)
(* outage of Redis nor its end brings an invalidated entry back into the     *)
(* layer it was deleted from.                                                *)
Since(e, r) == \A q \in Queries : \A n \in e[q] : n >= r

InvalidationHolds ==
    \A l \in Layers : cache[l] # Nil /\ l \notin tainted => Since(cache[l], floor[l])

(* If Redis answers from some time on, what a hydration is served from the   *)
(* cache is eventually, in all its parts, the database as it is: neither the *)
(* fallback nor a build that was under way keeps an old payload alive.       *)
ServedIsCurrent == Lookup # Nil => \A q \in Queries : Lookup[q] \subseteq {rev}

CatchesUp == <>[]up => <>[]ServedIsCurrent
=============================================================================
