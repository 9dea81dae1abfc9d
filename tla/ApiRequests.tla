---------------------------- MODULE ApiRequests ----------------------------
(* The API server's way of a command request (src/api.rs,                   *)
(* handle_allowed_command): the rate limit, the two counters of the         *)
(* requests under way, the answers kept for a few seconds, the child        *)
(* process with its timeout, and the guard whose drop lowers the counters.  *)
(* Requests are tasks of a multi-threaded runtime: every atomic operation   *)
(* on a counter is a step of its own.  A client that goes away, like the    *)
(* timeout, drops the future that waits for the child and leaves the child  *)
(* running (no kill_on_drop).                                               *)
EXTENDS Integers, Sequences, FiniteSets

CONSTANTS Slots,          \* requests that may be under way at once
          Commands,       \* what is asked: a route with its arguments
          DirectCommands, \* answered in the server, without a child
          LongCommands,   \* is_long_api_command
          CachedCommands, \* GETs for which cli_response_cache_ttl is Some
          MaxActive,      \* api.max_concurrent_requests
          MaxLong,        \* api.max_concurrent_long_requests
          RateLimit,      \* api.rate_limit_per_minute
          RateWindow,     \* the 60 s of a rate window, in ticks
          Ttl,            \* how long an answer is reused, in ticks
          Timeout,        \* the command timeout, in ticks
          MaxEntries,     \* answers kept at most (256)
          MaxTick         \* bound: ticks of the clock

ASSUME ApiAssumption ==
  /\ IsFiniteSet(Slots) /\ Slots \subseteq Nat
  /\ DirectCommands \subseteq Commands
  /\ LongCommands \subseteq Commands
  /\ CachedCommands \subseteq Commands
  /\ MaxActive \in Nat
  /\ MaxLong \in Nat
  /\ RateLimit \in Nat \ {0}
  /\ {RateWindow, Ttl, Timeout, MaxEntries, MaxTick} \subseteq Nat

VARIABLES tick,        \* the clock
          window,      \* the rate window: when it began and what it counted
          active,      \* active_requests
          activeLong,  \* active_long_requests
          request,     \* slot -> the request under way in it
          cached,      \* command -> the answer kept for it
          age          \* how old the data of the latest answer were

apiVars == <<tick, window, active, activeLong, request, cached, age>>

Places == {"idle", "counted", "counting", "refusing", "guarded", "running",
           "dropping", "droppingLong"}
Idle == [at |-> "idle"]
NoAnswer == [stored |-> -1, read |-> -1]
At(s) == request[s].at
Asks(s) == request[s].command
IsLong(s) == Asks(s) \in LongCommands
Goes(s, place) == request' = [request EXCEPT ![s].at = place]
Leaves(s) == request' = [request EXCEPT ![s] = Idle]

ApiInit ==
  /\ tick = 0
  /\ window = [start |-> 0, count |-> 0]
  /\ active = 0
  /\ activeLong = 0
  /\ request = [s \in Slots |-> Idle]
  /\ cached = [c \in CachedCommands |-> NoAnswer]
  /\ age = 0

-----------------------------------------------------------------------------
(* A window of the rate limit begins with the first request that comes when *)
(* the last one is RateWindow old.                                          *)
RateOf(w) ==
  IF tick - w.start >= RateWindow THEN [start |-> tick, count |-> 0] ELSE w

\* A request takes the first free slot: which one makes no difference.
Arrives(s, c) ==
  /\ At(s) = "idle" /\ \A t \in Slots : t < s => At(t) # "idle"
  /\ LET w == RateOf(window)
     IN IF w.count >= RateLimit
        THEN /\ window' = w
             /\ UNCHANGED request
        ELSE /\ window' = [w EXCEPT !.count = @ + 1]
             /\ request' = [request EXCEPT ![s] = [at |-> "counted", command |-> c]]
  /\ UNCHANGED <<tick, active, activeLong, cached, age>>

\* The body or the arguments are refused: counted by the rate limit only.
BadRequest(s) ==
  /\ At(s) = "counted"
  /\ Asks(s) \notin DirectCommands
  /\ Leaves(s)
  /\ UNCHANGED <<tick, window, active, activeLong, cached, age>>

TakesActive(s) ==
  /\ At(s) = "counted"
  /\ IF active >= MaxActive
     THEN Leaves(s) /\ UNCHANGED active
     ELSE active' = active + 1 /\ Goes(s, "counting")
  /\ UNCHANGED <<tick, window, activeLong, cached, age>>

\* Mutant of TakesLong: a long request that is refused keeps its first place.
TakesLongForgets(s) ==
  /\ At(s) = "counting"
  /\ IF ~IsLong(s) THEN Goes(s, "guarded") /\ UNCHANGED activeLong
     ELSE IF activeLong >= MaxLong THEN Leaves(s) /\ UNCHANGED activeLong
     ELSE activeLong' = activeLong + 1 /\ Goes(s, "guarded")
  /\ UNCHANGED <<tick, window, active, cached, age>>

\* A long request needs room in both counters, or it gives the first back.
TakesLong(s) ==
  /\ At(s) = "counting"
  /\ IF ~IsLong(s) THEN Goes(s, "guarded") /\ UNCHANGED activeLong
     ELSE IF activeLong >= MaxLong THEN Goes(s, "refusing") /\ UNCHANGED activeLong
     ELSE activeLong' = activeLong + 1 /\ Goes(s, "guarded")
  /\ UNCHANGED <<tick, window, active, cached, age>>

GivesBack(s) ==
  /\ At(s) = "refusing"
  /\ active' = active - 1
  /\ Leaves(s)
  /\ UNCHANGED <<tick, window, activeLong, cached, age>>

-----------------------------------------------------------------------------
\* Mutant of IsHit: an answer is reused until it is swept.
IsHitAnyAge(c) == c \in CachedCommands /\ cached[c] # NoAnswer

\* An answer is reused until it is older than Ttl.
IsHit(c) ==
  /\ c \in CachedCommands
  /\ cached[c] # NoAnswer
  /\ tick - cached[c].stored <= Ttl

Answers(s) ==
  /\ At(s) = "guarded"
  /\ \/ Asks(s) \in DirectCommands /\ UNCHANGED age
     \/ Asks(s) \notin DirectCommands /\ IsHit(Asks(s))
        /\ age' = tick - cached[Asks(s)].read
  /\ Goes(s, "dropping")
  /\ UNCHANGED <<tick, window, active, activeLong, cached>>

StartsChild(s) ==
  /\ At(s) = "guarded"
  /\ Asks(s) \notin DirectCommands
  /\ ~IsHit(Asks(s))
  /\ request' = [request EXCEPT ![s] =
                   [at |-> "running", command |-> Asks(s), since |-> tick]]
  /\ UNCHANGED <<tick, window, active, activeLong, cached, age>>

\* Keeps an answer; a full cache is emptied first.
Kept(c, answer) ==
  LET full == Cardinality({d \in CachedCommands : cached[d] # NoAnswer}) >= MaxEntries
  IN [d \in CachedCommands |->
        IF d = c THEN answer ELSE IF full THEN NoAnswer ELSE cached[d]]

\* The child's output came: what it tells was read while it ran, and only a
\* success is kept.
ChildEnds(s, ok, read) ==
  /\ At(s) = "running"
  /\ read \in request[s].since..tick
  /\ age' = tick - read
  /\ cached' = IF ok /\ Asks(s) \in CachedCommands
               THEN Kept(Asks(s), [stored |-> tick, read |-> read])
               ELSE cached
  /\ Goes(s, "dropping")
  /\ UNCHANGED <<tick, window, active, activeLong>>

\* The timeout, or a client that goes away: nobody waits for the child.
IsDue(s) == At(s) = "running" /\ tick - request[s].since >= Timeout
TimesOut(s) ==
  /\ IsDue(s)
  /\ Goes(s, "dropping")
  /\ UNCHANGED <<tick, window, active, activeLong, cached, age>>
ClientLeaves(s) ==
  /\ At(s) = "running"
  /\ Goes(s, "dropping")
  /\ UNCHANGED <<tick, window, active, activeLong, cached, age>>

\* The guard's drop lowers one counter, then the other.
DropsActive(s) ==
  /\ At(s) = "dropping"
  /\ active' = active - 1
  /\ IF IsLong(s) THEN Goes(s, "droppingLong") ELSE Leaves(s)
  /\ UNCHANGED <<tick, window, activeLong, cached, age>>
DropsLong(s) ==
  /\ At(s) = "droppingLong"
  /\ activeLong' = activeLong - 1
  /\ Leaves(s)
  /\ UNCHANGED <<tick, window, active, cached, age>>

\* Timers are served before the clock goes on.
Ticks ==
  /\ tick < MaxTick
  /\ \A s \in Slots : ~IsDue(s)
  /\ tick' = tick + 1
  /\ UNCHANGED <<window, active, activeLong, request, cached, age>>

Serves(s) ==
  \/ \E c \in Commands : Arrives(s, c)
  \/ BadRequest(s)
  \/ TakesActive(s)
  \/ TakesLong(s)
  \/ GivesBack(s)
  \/ Answers(s)
  \/ StartsChild(s)
  \/ \E ok \in BOOLEAN, read \in 0..tick : ChildEnds(s, ok, read)
  \/ TimesOut(s)
  \/ ClientLeaves(s)
  \/ DropsActive(s)
  \/ DropsLong(s)

ApiNext == Ticks \/ \E s \in Slots : Serves(s)
ApiSpec == ApiInit /\ [][ApiNext]_apiVars

-----------------------------------------------------------------------------
\* A request that waits, runs or ends has the fields its place needs.
Requests ==
  {Idle}
    \cup [at : Places \ {"idle", "running"}, command : Commands]
    \cup [at : {"running", "dropping", "droppingLong"}, command : Commands, since : Nat]

ApiTypeOK ==
  /\ tick \in Nat
  /\ window \in [start : Nat, count : Nat]
  /\ active \in Int
  /\ activeLong \in Int
  /\ request \in [Slots -> Requests]

(* Who is counted: the counters lag the guard by one atomic operation.      *)
ActivePlaces == {"counting", "refusing", "guarded", "running", "dropping"}
LongPlaces == {"guarded", "running", "dropping", "droppingLong"}
InActive == {s \in Slots : At(s) \in ActivePlaces}
InLong == {s \in Slots : At(s) \in LongPlaces /\ IsLong(s)}

\* The counters count exactly the requests that were let in, whatever way each of
\* them ended, so no refusal leaks a place and neither limit is passed (api.rs,
\* try_increment_counter, acquire_api_request_guard and ApiRequestGuard's drop).
CountersAreExact ==
  /\ active = Cardinality(InActive) /\ active <= MaxActive
  /\ activeLong = Cardinality(InLong) /\ activeLong <= MaxLong

\* What an answer tells is never older than the command timeout and the time an
\* answer is reused together, although answers come from commands that overlap
\* (api.rs, run_cli and cli_response_cache_ttl).
AnswersAreRecent == age <= Ttl + Timeout

=============================================================================
