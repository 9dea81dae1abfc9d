----------------------------- MODULE Api_proofs -----------------------------
(* Proofs about the API servers: the request counters and the answers kept  *)
(* (module ApiRequests), the connections of the TLS server (module          *)
(* SslConnections), and the life of the servers and their commands (module  *)
(* ApiServer), for any number of requests, clients, commands and servers    *)
(* and any limits; and about the whole of the run trading_api, of which the *)
(* records of Records_proofs are the other parts.                           *)
EXTENDS MCTradingApi, Records_proofs

-----------------------------------------------------------------------------
(* The counters of requests (ApiRequests)                                   *)

(* A request's record is one of these forms; every place but "idle" has the *)
(* command that was asked.                                                  *)
Waiting == [at : Places \ {"idle", "running"}, command : Commands]
Begun == [at : {"running", "dropping", "droppingLong"}, command : Commands, since : Nat]

ApiInv ==
  /\ ApiTypeOK
  /\ \A s \in Slots : At(s) = "droppingLong" => IsLong(s)
  /\ CountersAreExact

\* A record put into one slot changes who is counted in that slot only.
LEMMA OneSlot ==
  ASSUME request \in [Slots -> Requests], NEW s \in Slots, NEW r \in Requests,
         request' = [request EXCEPT ![s] = r]
  PROVE  /\ request' \in [Slots -> Requests]
         /\ InActive' = IF r.at \in ActivePlaces THEN InActive \cup {s} ELSE InActive \ {s}
         /\ InLong' = IF r.at \in LongPlaces /\ r.command \in LongCommands
                      THEN InLong \cup {s} ELSE InLong \ {s}
         /\ \A t \in Slots \ {s} : request'[t] = request[t]
         /\ request'[s] = r
<1>1. \A t \in Slots : request'[t] = IF t = s THEN r ELSE request[t]
  OBVIOUS
<1>2. request' \in [Slots -> Requests]
  OBVIOUS
<1>3. InActive' = IF r.at \in ActivePlaces THEN InActive \cup {s} ELSE InActive \ {s}
  BY <1>1 DEF InActive, At
<1>4. InLong' = IF r.at \in LongPlaces /\ r.command \in LongCommands
                THEN InLong \cup {s} ELSE InLong \ {s}
  BY <1>1 DEF InLong, At, IsLong, Asks
<1> QED BY <1>1, <1>2, <1>3, <1>4

\* A request that waits and goes to another place keeps its command.
LEMMA GoesTo ==
  ASSUME request \in [Slots -> Requests], NEW s \in Slots,
         At(s) # "idle",
         NEW place \in {"counting", "refusing", "guarded", "dropping", "droppingLong"},
         At(s) \in {"running", "dropping", "droppingLong"} => place \in {"dropping", "droppingLong"},
         Goes(s, place)
  PROVE  \E r \in Requests : /\ r.at = place
                             /\ r.command = Asks(s)
                             /\ request' = [request EXCEPT ![s] = r]
<1> DEFINE r == [request[s] EXCEPT !.at = place]
<1>1. request' = [request EXCEPT ![s] = r]
  BY DEF Goes
<1>2. request[s] \in Waiting \cup Begun
  BY DEF At, Requests, Idle, Waiting, Begun
<1>3. CASE request[s] \in Waiting
  <2>1. r \in Waiting /\ r.at = place /\ r.command = request[s].command
    BY <1>3 DEF Waiting, Places
  <2> QED BY <2>1, <1>1 DEF Requests, Waiting, Asks
<1>4. CASE request[s] \in Begun
  <2>1. place \in {"dropping", "droppingLong"}
    BY <1>4 DEF Begun, At
  <2>2. r \in Begun /\ r.at = place /\ r.command = request[s].command
    BY <1>4, <2>1 DEF Begun
  <2> QED BY <2>2, <1>1 DEF Requests, Begun, Asks
<1> QED BY <1>2, <1>3, <1>4

-----------------------------------------------------------------------------
(* What a step that puts r into slot s does to the counters: no more and no *)
(* less than it changes in who is counted.                                  *)
Counts(s, r) ==
  /\ active' = active + (IF r.at \in ActivePlaces THEN 1 ELSE 0)
                      - (IF At(s) \in ActivePlaces THEN 1 ELSE 0)
  /\ activeLong' = activeLong
       + (IF r.at \in LongPlaces /\ r.command \in LongCommands THEN 1 ELSE 0)
       - (IF At(s) \in LongPlaces /\ IsLong(s) THEN 1 ELSE 0)
  /\ active' <= MaxActive
  /\ activeLong' <= MaxLong

\* Such a step keeps the counters exact.
LEMMA StepCounts ==
  ASSUME request \in [Slots -> Requests], CountersAreExact,
         active \in Int, activeLong \in Int,
         NEW s \in Slots, NEW r \in Requests,
         request' = [request EXCEPT ![s] = r],
         Counts(s, r)
  PROVE  CountersAreExact'
<1>1. IsFiniteSet(InActive) /\ IsFiniteSet(InLong)
  BY ApiAssumption, FS_Subset DEF ApiAssumption, InActive, InLong
<1>2. /\ InActive' = IF r.at \in ActivePlaces THEN InActive \cup {s} ELSE InActive \ {s}
      /\ InLong' = IF r.at \in LongPlaces /\ r.command \in LongCommands
                   THEN InLong \cup {s} ELSE InLong \ {s}
  BY OneSlot
<1>3. /\ (s \in InActive) <=> (At(s) \in ActivePlaces)
      /\ (s \in InLong) <=> (At(s) \in LongPlaces /\ IsLong(s))
  BY DEF InActive, InLong
<1>4. active = Cardinality(InActive) /\ activeLong = Cardinality(InLong)
  BY DEF CountersAreExact
<1>5. active' = Cardinality(InActive')
  <2>1. CASE r.at \in ActivePlaces
    <3>1. Cardinality(InActive \cup {s}) =
            IF s \in InActive THEN Cardinality(InActive) ELSE Cardinality(InActive) + 1
      BY <1>1, FS_AddElement
    <3> QED BY <2>1, <3>1, <1>2, <1>3, <1>4 DEF Counts
  <2>2. CASE r.at \notin ActivePlaces
    <3>1. Cardinality(InActive \ {s}) =
            IF s \in InActive THEN Cardinality(InActive) - 1 ELSE Cardinality(InActive)
      BY <1>1, FS_RemoveElement
    <3> QED BY <2>2, <3>1, <1>2, <1>3, <1>4 DEF Counts
  <2> QED BY <2>1, <2>2
<1>6. activeLong' = Cardinality(InLong')
  <2>1. CASE r.at \in LongPlaces /\ r.command \in LongCommands
    <3>1. Cardinality(InLong \cup {s}) =
            IF s \in InLong THEN Cardinality(InLong) ELSE Cardinality(InLong) + 1
      BY <1>1, FS_AddElement
    <3> QED BY <2>1, <3>1, <1>2, <1>3, <1>4 DEF Counts
  <2>2. CASE ~(r.at \in LongPlaces /\ r.command \in LongCommands)
    <3>1. Cardinality(InLong \ {s}) =
            IF s \in InLong THEN Cardinality(InLong) - 1 ELSE Cardinality(InLong)
      BY <1>1, FS_RemoveElement
    <3> QED BY <2>2, <3>1, <1>2, <1>3, <1>4 DEF Counts
  <2> QED BY <2>1, <2>2
<1> QED BY <1>5, <1>6 DEF CountersAreExact, Counts

-----------------------------------------------------------------------------
(* Every step keeps the types of the clock and of the window, and each slot *)
(* goes through one action at a time.                                       *)
LEMMA Initially == ApiInit => ApiInv
<1> SUFFICES ASSUME ApiInit PROVE ApiInv
  OBVIOUS
<1>1. \A s \in Slots : At(s) = "idle"
  BY DEF ApiInit, At, Idle
<1>2. ApiTypeOK
  BY DEF ApiInit, ApiTypeOK, Requests
<1>3. InActive = {} /\ InLong = {}
  BY <1>1 DEF InActive, InLong, ActivePlaces, LongPlaces
<1>4. CountersAreExact
  BY <1>3, FS_EmptySet, ApiAssumption DEF CountersAreExact, ApiInit, ApiAssumption
<1> QED BY <1>1, <1>2, <1>4 DEF ApiInv

\* A step of a slot that tells the counters what it does keeps the invariant.
LEMMA SlotStep ==
  ASSUME ApiInv, NEW s \in Slots, NEW r \in Requests,
         request' = [request EXCEPT ![s] = r],
         Counts(s, r),
         r.at = "droppingLong" => r.command \in LongCommands,
         active' \in Int, activeLong' \in Int, tick' \in Nat,
         window' \in [start : Nat, count : Nat]
  PROVE  ApiInv'
<1>1. CountersAreExact'
  BY StepCounts DEF ApiInv, ApiTypeOK
<1>2. request' \in [Slots -> Requests]
  BY DEF ApiInv, ApiTypeOK
<1>3. ASSUME NEW t \in Slots, At(t)' = "droppingLong"
      PROVE  IsLong(t)'
  <2>1. CASE t = s
    BY <2>1, <1>3 DEF ApiInv, ApiTypeOK, At, IsLong, Asks
  <2>2. CASE t # s
    BY <2>2, <1>3 DEF ApiInv, ApiTypeOK, At, IsLong, Asks
  <2> QED BY <2>1, <2>2
<1> QED BY <1>1, <1>2, <1>3 DEF ApiInv, ApiTypeOK

\* The places of the request's forms, and the numbers every step starts from.
LEMMA Numbers ==
  ASSUME ApiInv
  PROVE  /\ request \in [Slots -> Requests]
         /\ active \in Int /\ activeLong \in Int
         /\ active <= MaxActive /\ activeLong <= MaxLong
         /\ tick \in Nat /\ window \in [start : Nat, count : Nat]
         /\ MaxActive \in Nat /\ MaxLong \in Nat
         /\ Idle \in Requests /\ Idle.at = "idle"
  BY ApiAssumption DEF ApiInv, ApiTypeOK, CountersAreExact, ApiAssumption, Requests, Idle

\* ApiInv is about the request variables alone.
LEMMA Stutters == ApiInv /\ UNCHANGED apiVars => ApiInv'
  BY DEF ApiInv, apiVars, ApiTypeOK, CountersAreExact, InActive, InLong, At, IsLong, Asks

\* The clock moves no request and no counter.
LEMMA TickKeeps == ASSUME ApiInv, Ticks PROVE ApiInv'
  BY DEF Ticks, ApiInv, ApiTypeOK, CountersAreExact, InActive, InLong, At, IsLong, Asks

\* A window begun anew is a window.
LEMMA ArrivesKeeps ==
  ASSUME ApiInv, NEW s \in Slots, NEW c \in Commands, Arrives(s, c)
  PROVE  ApiInv'
<1> USE Numbers
<1> DEFINE w == RateOf(window)
<1>1. w \in [start : Nat, count : Nat]
  BY DEF RateOf
<1>2. CASE w.count >= RateLimit
  <2>1. window' = w /\ UNCHANGED <<request, tick, active, activeLong>>
    BY <1>2 DEF Arrives
  <2> QED BY <1>1, <2>1 DEF ApiInv, ApiTypeOK, CountersAreExact, InActive, InLong, At,
                            IsLong, Asks
<1>3. CASE ~(w.count >= RateLimit)
  <2> DEFINE r == [at |-> "counted", command |-> c]
  <2>1. /\ window' = [w EXCEPT !.count = @ + 1]
        /\ request' = [request EXCEPT ![s] = r]
        /\ UNCHANGED <<tick, active, activeLong>>
        /\ At(s) = "idle"
    BY <1>3 DEF Arrives
  <2>2. r \in Requests
    BY DEF Requests, Places
  <2>3. window' \in [start : Nat, count : Nat]
    BY <2>1, <1>1
  <2>4. Counts(s, r)
    BY <2>1 DEF Counts, ActivePlaces, LongPlaces
  <2>5. r.at # "droppingLong" /\ active' \in Int /\ activeLong' \in Int /\ tick' \in Nat
    BY <2>1
  <2> QED BY <2>1, <2>2, <2>3, <2>4, <2>5, SlotStep
<1> QED BY <1>2, <1>3

\* A slot that is left counts for nothing any more.
LEMMA LeavesKeeps ==
  ASSUME ApiInv, NEW s \in Slots, Leaves(s), UNCHANGED <<tick, window>>,
         active' = active - (IF At(s) \in ActivePlaces THEN 1 ELSE 0),
         activeLong' = activeLong - (IF At(s) \in LongPlaces /\ IsLong(s) THEN 1 ELSE 0)
  PROVE  ApiInv'
<1> USE Numbers
<1>1. request' = [request EXCEPT ![s] = Idle]
  BY DEF Leaves
<1>2. Counts(s, Idle)
  BY DEF Counts, ActivePlaces, LongPlaces
<1>3. active' \in Int /\ activeLong' \in Int /\ tick' \in Nat
  OBVIOUS
<1> QED BY <1>1, <1>2, <1>3, SlotStep

\* A slot whose request goes on, with what that adds to the counters.
LEMMA GoesKeeps ==
  ASSUME ApiInv, NEW s \in Slots, At(s) # "idle",
         NEW place \in {"counting", "refusing", "guarded", "dropping", "droppingLong"},
         At(s) \in {"running", "dropping", "droppingLong"}
           => place \in {"dropping", "droppingLong"},
         place = "droppingLong" => IsLong(s),
         Goes(s, place), UNCHANGED <<tick, window>>,
         active' = active + (IF place \in ActivePlaces THEN 1 ELSE 0)
                          - (IF At(s) \in ActivePlaces THEN 1 ELSE 0),
         activeLong' = activeLong + (IF place \in LongPlaces /\ IsLong(s) THEN 1 ELSE 0)
                                  - (IF At(s) \in LongPlaces /\ IsLong(s) THEN 1 ELSE 0),
         active' <= MaxActive, activeLong' <= MaxLong
  PROVE  ApiInv'
<1> USE Numbers
<1>1. PICK r \in Requests : /\ r.at = place
                            /\ r.command = Asks(s)
                            /\ request' = [request EXCEPT ![s] = r]
  BY GoesTo
<1>2. Counts(s, r)
  BY <1>1 DEF Counts, IsLong
<1>3. r.at = "droppingLong" => r.command \in LongCommands
  BY <1>1 DEF IsLong
<1>4. active' \in Int /\ activeLong' \in Int /\ tick' \in Nat
      /\ window' \in [start : Nat, count : Nat]
  OBVIOUS
<1> QED BY <1>1, <1>2, <1>3, <1>4, SlotStep

\* The child's start is the one step that gives a request its start.
LEMMA StartsChildKeeps ==
  ASSUME ApiInv, NEW s \in Slots, StartsChild(s)
  PROVE  ApiInv'
<1> USE Numbers
<1> DEFINE started == [at |-> "running", command |-> Asks(s), since |-> tick]
<1>1. /\ At(s) = "guarded"
      /\ request' = [request EXCEPT ![s] = started]
      /\ UNCHANGED <<tick, window, active, activeLong>>
  BY DEF StartsChild
<1>2. request[s] \in Waiting
  BY <1>1 DEF At, Requests, Idle, Waiting
<1>3. Asks(s) \in Commands
  BY <1>2 DEF Waiting, Asks
<1>4. started \in Requests
  BY <1>3 DEF Requests
<1>5. PICK r \in Requests : r = started
  BY <1>4
<1>6. Counts(s, r)
  BY <1>1, <1>5 DEF Counts, ActivePlaces, LongPlaces, IsLong
<1>7. r.at # "droppingLong"
  BY <1>5
<1> QED BY <1>1, <1>5, <1>6, <1>7, SlotStep

\* Every action of a slot.
LEMMA ServesKeeps ==
  ASSUME ApiInv, NEW s \in Slots, Serves(s)
  PROVE  ApiInv'
<1> USE Numbers DEF ActivePlaces, LongPlaces
<1>1. ASSUME NEW c \in Commands, Arrives(s, c) PROVE ApiInv'
  BY <1>1, ArrivesKeeps
<1>2. CASE BadRequest(s)
  BY <1>2, LeavesKeeps DEF BadRequest
<1>3. CASE TakesActive(s)
  <2>1. CASE active >= MaxActive
    BY <1>3, <2>1, LeavesKeeps DEF TakesActive
  <2>2. CASE ~(active >= MaxActive)
    BY <1>3, <2>2, GoesKeeps DEF TakesActive
  <2> QED BY <2>1, <2>2
<1>4. CASE TakesLong(s)
  <2>1. CASE ~IsLong(s)
    BY <1>4, <2>1, GoesKeeps DEF TakesLong
  <2>2. CASE IsLong(s) /\ activeLong >= MaxLong
    BY <1>4, <2>2, GoesKeeps DEF TakesLong
  <2>3. CASE IsLong(s) /\ ~(activeLong >= MaxLong)
    BY <1>4, <2>3, GoesKeeps DEF TakesLong
  <2> QED BY <2>1, <2>2, <2>3
<1>5. CASE GivesBack(s)
  BY <1>5, LeavesKeeps DEF GivesBack
<1>6. CASE Answers(s)
  BY <1>6, GoesKeeps DEF Answers
<1>7. CASE StartsChild(s)
  BY <1>7, StartsChildKeeps
<1>8. ASSUME NEW ok \in BOOLEAN, NEW read \in 0..tick, ChildEnds(s, ok, read) PROVE ApiInv'
  BY <1>8, GoesKeeps DEF ChildEnds
<1>9. CASE TimesOut(s)
  BY <1>9, GoesKeeps DEF TimesOut, IsDue
<1>10. CASE ClientLeaves(s)
  BY <1>10, GoesKeeps DEF ClientLeaves
<1>11. CASE DropsActive(s)
  <2>1. CASE IsLong(s)
    BY <1>11, <2>1, GoesKeeps DEF DropsActive
  <2>2. CASE ~IsLong(s)
    BY <1>11, <2>2, LeavesKeeps DEF DropsActive
  <2> QED BY <2>1, <2>2
<1>12. CASE DropsLong(s)
  <2>1. IsLong(s)
    BY <1>12 DEF DropsLong, ApiInv
  <2> QED BY <1>12, <2>1, LeavesKeeps DEF DropsLong
<1> QED BY <1>1, <1>2, <1>3, <1>4, <1>5, <1>6, <1>7, <1>8, <1>9, <1>10, <1>11, <1>12
        DEF Serves

\* ApiInv is an inductive invariant of the server's requests.
THEOREM ApiInvariant == ApiSpec => []ApiInv
<1>1. ApiInv /\ [ApiNext]_apiVars => ApiInv'
  BY ServesKeeps, TickKeeps, Stutters DEF ApiNext
<1> QED BY <1>1, Initially, PTL DEF ApiSpec

\* The requests under way, the window and the counters keep their types
\* (api.rs, ApiRuntimeState).
THEOREM ApiTypeCorrect == ApiSpec => []ApiTypeOK
<1>1. ApiInv => ApiTypeOK
  BY DEF ApiInv
<1> QED BY <1>1, ApiInvariant, PTL

\* However requests interleave, are refused, time out or lose their client, the
\* counters count those that were let in, and the limits hold
\* (api.rs, acquire_api_request_guard and ApiRequestGuard's drop).
THEOREM CountersStayExact == ApiSpec => []CountersAreExact
<1>1. ApiInv => CountersAreExact
  BY DEF ApiInv
<1> QED BY <1>1, ApiInvariant, PTL

-----------------------------------------------------------------------------
(* The answers kept (ApiRequests)                                           *)

\* A child's request does not outlast its timeout, and an answer that is kept was read
\* within a timeout of being stored.
RecentInv ==
  /\ age \in Int
  /\ \A s \in Slots : At(s) = "running" =>
       request[s].since <= tick /\ tick - request[s].since <= Timeout
  /\ cached \in [CachedCommands -> [stored : Int, read : Int]]
  /\ \A c \in CachedCommands : cached[c] # NoAnswer =>
       cached[c].stored - cached[c].read <= Timeout
  /\ AnswersAreRecent

\* Steps of a slot that start nobody leave the starts of the others alone.
LEMMA SinceKept ==
  ASSUME ApiInv, RecentInv, NEW s \in Slots, NEW r,
         request' = [request EXCEPT ![s] = r], r.at # "running", tick' = tick
  PROVE  \A t \in Slots : At(t)' = "running" =>
           request'[t].since <= tick' /\ tick' - request'[t].since <= Timeout
BY DEF ApiInv, ApiTypeOK, RecentInv, At

\* The child that ends was started within its timeout; what it read is no older.
LEMMA ChildEndsRecent ==
  ASSUME ApiInv, RecentInv, NEW s \in Slots, NEW ok \in BOOLEAN, NEW read \in 0..tick,
         ChildEnds(s, ok, read)
  PROVE  RecentInv'
<1> USE ApiAssumption DEF ApiAssumption
<1>1. /\ At(s) = "running" /\ request[s].since \in Nat /\ tick \in Nat
      /\ tick - request[s].since <= Timeout /\ read >= request[s].since
  <2>1. request[s] \in Begun
    BY DEF ChildEnds, At, ApiInv, ApiTypeOK, Requests, Idle, Begun
  <2> QED BY <2>1 DEF ChildEnds, RecentInv, ApiInv, ApiTypeOK, Begun
<1>2. age' = tick - read /\ tick - read <= Timeout /\ age' \in Int
  BY <1>1 DEF ChildEnds
<1>3. \A t \in Slots : At(t)' = "running" =>
        request'[t].since <= tick' /\ tick' - request'[t].since <= Timeout
  <2>1. request' = [request EXCEPT ![s] = [request[s] EXCEPT !.at = "dropping"]]
    BY DEF ChildEnds, Goes
  <2>2. request[s] \in Begun
    BY <1>1 DEF At, ApiInv, ApiTypeOK, Requests, Idle, Begun
  <2>3. [request[s] EXCEPT !.at = "dropping"].at # "running"
    BY <2>2 DEF Begun
  <2>4. tick' = tick
    BY DEF ChildEnds
  <2> QED BY <2>1, <2>3, <2>4, SinceKept
<1>4. /\ cached' \in [CachedCommands -> [stored : Int, read : Int]]
      /\ \A c \in CachedCommands : cached'[c] # NoAnswer =>
           cached'[c].stored - cached'[c].read <= Timeout
  <2> DEFINE answer == [stored |-> tick, read |-> read]
  <2>1. \/ cached' = cached
        \/ cached' = Kept(Asks(s), answer)
    BY DEF ChildEnds
  <2>2. answer \in [stored : Int, read : Int] /\ answer.stored - answer.read <= Timeout
    BY <1>1, <1>2
  <2>3. NoAnswer \in [stored : Int, read : Int]
    BY DEF NoAnswer
  <2> HIDE DEF answer
  <2>4. CASE cached' = Kept(Asks(s), answer)
    <3>1. \A c \in CachedCommands : cached'[c] \in {answer, NoAnswer, cached[c]}
      BY <2>4 DEF Kept
    <3>2. cached' = [c \in CachedCommands |-> cached'[c]]
      BY <2>4 DEF Kept
    <3>3. \A c \in CachedCommands : cached'[c] \in [stored : Int, read : Int]
      BY <3>1, <2>2, <2>3 DEF RecentInv
    <3>4. \A c \in CachedCommands : cached'[c] # NoAnswer =>
            cached'[c].stored - cached'[c].read <= Timeout
      BY <3>1, <2>2 DEF RecentInv
    <3> QED BY <3>2, <3>3, <3>4
  <2> QED BY <2>1, <2>4 DEF RecentInv
<1>5. AnswersAreRecent'
  BY <1>2 DEF AnswersAreRecent
<1> QED BY <1>2, <1>3, <1>4, <1>5 DEF RecentInv

\* An answer that is reused was stored within Ttl, and read within Timeout of that.
LEMMA AnswersRecent ==
  ASSUME ApiInv, RecentInv, NEW s \in Slots, Answers(s)
  PROVE  AnswersAreRecent' /\ age' \in Int
<1>1. CASE Asks(s) \notin DirectCommands /\ IsHit(Asks(s)) /\ age' = tick - cached[Asks(s)].read
  <2> DEFINE kept == cached[Asks(s)]
  <2>1. /\ kept \in [stored : Int, read : Int] /\ tick \in Nat
        /\ tick - kept.stored <= Ttl /\ kept.stored - kept.read <= Timeout
        /\ age' = tick - kept.read
    BY <1>1 DEF IsHit, RecentInv, ApiInv, ApiTypeOK
  <2> HIDE DEF kept
  <2>2. kept.stored \in Int /\ kept.read \in Int
    BY <2>1
  <2> QED BY <2>1, <2>2, ApiAssumption DEF ApiAssumption, AnswersAreRecent
<1>2. CASE UNCHANGED age
  BY <1>2 DEF AnswersAreRecent, RecentInv
<1> QED BY <1>1, <1>2 DEF Answers

\* No step of a request makes an answer tell of older data than it may.
LEMMA RecentKeeps ==
  ASSUME ApiInv, RecentInv, NEW s \in Slots, Serves(s)
  PROVE  RecentInv'
<1>1. ASSUME UNCHANGED <<tick, cached>>, age' \in Int, AnswersAreRecent', NEW r,
             request' = [request EXCEPT ![s] = r], r.at # "running"
      PROVE  RecentInv'
  BY <1>1, SinceKept DEF RecentInv
<1>2. ASSUME NEW place, place # "running", At(s) # "idle", Goes(s, place)
      PROVE  \E r : request' = [request EXCEPT ![s] = r] /\ r.at # "running"
  <2>1. request[s] \in Waiting \cup Begun
    BY <1>2 DEF At, ApiInv, ApiTypeOK, Requests, Idle, Waiting, Begun
  <2>2. [request[s] EXCEPT !.at = place].at = place
    BY <2>1 DEF Waiting, Begun
  <2> QED BY <1>2, <2>2 DEF Goes
<1>3. ASSUME Leaves(s) PROVE \E r : request' = [request EXCEPT ![s] = r] /\ r.at # "running"
  <2>1. request' = [request EXCEPT ![s] = Idle] /\ Idle.at # "running"
    BY <1>3 DEF Leaves, Idle
  <2> QED BY <2>1
<1>4. ASSUME UNCHANGED age PROVE age' \in Int /\ AnswersAreRecent'
  BY <1>4 DEF RecentInv, AnswersAreRecent
<1>5. ASSUME NEW c \in Commands, Arrives(s, c) PROVE RecentInv'
  <2>1. CASE UNCHANGED request
    BY <1>5, <2>1, <1>4 DEF Arrives, RecentInv, At
  <2>2. CASE request' = [request EXCEPT ![s] = [at |-> "counted", command |-> c]]
    <3> DEFINE r == [at |-> "counted", command |-> c]
    <3>1. request' = [request EXCEPT ![s] = r] /\ r.at # "running"
      BY <2>2
    <3>2. UNCHANGED <<tick, cached, age>>
      BY <1>5 DEF Arrives
    <3> HIDE DEF r
    <3> QED BY <3>1, <3>2, <1>4, <1>1
  <2> QED BY <1>5, <2>1, <2>2 DEF Arrives
<1>6. CASE BadRequest(s)
  BY <1>6, <1>1, <1>3, <1>4 DEF BadRequest
<1>7. CASE TakesActive(s)
  BY <1>7, <1>1, <1>2, <1>3, <1>4 DEF TakesActive
<1>8. CASE TakesLong(s)
  BY <1>8, <1>1, <1>2, <1>3, <1>4 DEF TakesLong
<1>9. CASE GivesBack(s)
  BY <1>9, <1>1, <1>3, <1>4 DEF GivesBack
<1>10. CASE Answers(s)
  BY <1>10, <1>1, <1>2, AnswersRecent DEF Answers
<1>11. CASE StartsChild(s)
  <2> DEFINE started == [at |-> "running", command |-> Asks(s), since |-> tick]
  <2>1. request' = [request EXCEPT ![s] = started] /\ UNCHANGED <<tick, cached, age>>
    BY <1>11 DEF StartsChild
  <2>2. started.since = tick /\ tick \in Nat /\ Timeout \in Nat
    BY ApiAssumption DEF ApiInv, ApiTypeOK, ApiAssumption
  <2> HIDE DEF started
  <2>3. \A t \in Slots : request'[t] = IF t = s THEN started ELSE request[t]
    BY <2>1 DEF ApiInv, ApiTypeOK
  <2>4. \A t \in Slots : At(t)' = "running" =>
          request'[t].since <= tick' /\ tick' - request'[t].since <= Timeout
    BY <2>1, <2>2, <2>3 DEF RecentInv, At
  <2> QED BY <2>1, <2>4, <1>4 DEF RecentInv
<1>12. ASSUME NEW ok \in BOOLEAN, NEW read \in 0..tick, ChildEnds(s, ok, read) PROVE RecentInv'
  BY <1>12, ChildEndsRecent
<1>13. CASE TimesOut(s)
  BY <1>13, <1>1, <1>2, <1>4 DEF TimesOut, IsDue
<1>14. CASE ClientLeaves(s)
  BY <1>14, <1>1, <1>2, <1>4 DEF ClientLeaves
<1>15. CASE DropsActive(s)
  BY <1>15, <1>1, <1>2, <1>3, <1>4 DEF DropsActive
<1>16. CASE DropsLong(s)
  BY <1>16, <1>1, <1>3, <1>4 DEF DropsLong
<1> QED BY <1>5, <1>6, <1>7, <1>8, <1>9, <1>10, <1>11, <1>12, <1>13, <1>14, <1>15, <1>16
        DEF Serves

\* The clock goes on only when no child's time is over.
LEMMA TickKeepsRecent ==
  ASSUME ApiInv, RecentInv, Ticks
  PROVE  RecentInv'
<1>1. ASSUME NEW s \in Slots, At(s)' = "running"
      PROVE  request'[s].since <= tick' /\ tick' - request'[s].since <= Timeout
  <2>1. request[s] \in Begun /\ At(s) = "running"
    BY <1>1 DEF Ticks, At, ApiInv, ApiTypeOK, Requests, Idle, Begun
  <2>2. request[s].since \in Nat /\ tick \in Nat
    BY <2>1 DEF Begun, ApiInv, ApiTypeOK
  <2>3. request[s].since <= tick /\ ~(tick - request[s].since >= Timeout)
    BY <2>1 DEF Ticks, IsDue, RecentInv
  <2> QED BY <2>2, <2>3, ApiAssumption DEF Ticks, ApiAssumption
<1> QED BY <1>1 DEF RecentInv, Ticks, AnswersAreRecent

\* What an answer tells is never older than the timeout and the time that answers are
\* reused together (api.rs, run_cli and cli_response_cache_ttl).
THEOREM AnswersStayRecent == ApiSpec => []AnswersAreRecent
<1>1. ApiInit => RecentInv
  BY ApiAssumption DEF ApiInit, RecentInv, AnswersAreRecent, At, Idle, NoAnswer, ApiAssumption
<1>2. ApiInv /\ RecentInv /\ [ApiNext]_apiVars => RecentInv'
  <2>1. ApiInv /\ RecentInv /\ UNCHANGED apiVars => RecentInv'
    BY DEF apiVars, RecentInv, AnswersAreRecent, At
  <2> QED BY <2>1, RecentKeeps, TickKeepsRecent DEF ApiNext
<1>3. RecentInv => AnswersAreRecent
  BY DEF RecentInv
<1> QED BY <1>1, <1>2, <1>3, ApiInvariant, PTL DEF ApiSpec

-----------------------------------------------------------------------------
(* The connections of the TLS server (SslConnections)                       *)

Link == [at : {"none", "handshake", "overLimit", "open", "left", "ending"},
         loop : Loops \cup {<<"none", "none">>}]
Work == [of : Clients \cup {"none"}, at : {"none", "asking", "streaming"}, beats : 0 .. MaxBeats]

\* A connection over TCP stays for as long as its request goes on, and it has one.
RequestsStand ==
  \A r \in Handlers : work[r].at # "none" =>
    /\ work[r].of \in Clients
    /\ Via(work[r].of) = "tcp" =>
         /\ LinkAt(work[r].of) \in {"open", "left"}
         /\ \A s \in Handlers \ {r} : work[s].at # "none" => work[s].of # work[r].of

LinkInv ==
  /\ LinkTypeOK
  /\ link \in [Clients -> Link] /\ work \in [Handlers -> Work]
  /\ \A c \in Clients : LinkAt(c) # "none" => link[c].loop \in Loops
  /\ RequestsStand
  /\ PlacesAreExact

\* What LinkInv needs of a step that neither begins nor ends a connection: those counted
\* are the same.
LEMMA SameLinks ==
  ASSUME LinkInv, link' \in [Clients -> Link],
         \A c \in Clients : /\ link'[c].loop = link[c].loop
                            /\ link'[c].at = "none" <=> LinkAt(c) = "none"
                            /\ link'[c].at = "overLimit" <=> LinkAt(c) = "overLimit"
  PROVE  /\ \A t \in Transports : LinksVia(t)' = LinksVia(t) /\ OverLimit(t)' = OverLimit(t)
         /\ \A c \in Clients : LinkAt(c)' # "none" => link'[c].loop \in Loops
BY DEF LinkInv, LinksVia, OverLimit, LinkAt, Via

\* A step that takes connections to other places, and counts nobody.
LEMMA SameCounts ==
  ASSUME LinkInv, link' \in [Clients -> Link], work' \in [Handlers -> Work],
         up' \subseteq Loops, stopping' \in BOOLEAN, UNCHANGED opened,
         \A c \in Clients : /\ link'[c].loop = link[c].loop
                            /\ link'[c].at = "none" <=> LinkAt(c) = "none"
                            /\ link'[c].at = "overLimit" <=> LinkAt(c) = "overLimit",
         RequestsStand',
         streaming' = Cardinality(Streams') /\ streaming' <= MaxStreams /\ streaming' \in Nat
  PROVE  LinkInv'
<1>1. /\ \A t \in Transports : LinksVia(t)' = LinksVia(t) /\ OverLimit(t)' = OverLimit(t)
      /\ \A c \in Clients : LinkAt(c)' # "none" => link'[c].loop \in Loops
  BY SameLinks
<1>2. PlacesAreExact'
  BY <1>1 DEF LinkInv, PlacesAreExact
<1>3. LinkTypeOK'
  BY DEF LinkInv, LinkTypeOK, LinkAt, Link, Work
<1> QED BY <1>1, <1>2, <1>3 DEF LinkInv, LinkAt

\* One request more or less is one stream more or less, or none.
LEMMA OneStream ==
  ASSUME LinkInv, NEW r \in Handlers, \A s \in Handlers \ {r} : work'[s] = work[s]
  PROVE  /\ Cardinality(Streams') = Cardinality(Streams)
              + (IF work'[r].at = "streaming" THEN 1 ELSE 0)
              - (IF work[r].at = "streaming" THEN 1 ELSE 0)
         /\ Cardinality(Streams') \in Nat
<1>1. IsFiniteSet(Streams') /\ Cardinality(Streams') \in Nat
  BY ConnectionsAssumption, FS_Subset, FS_CardinalityType DEF Streams
<1>2. Streams' = IF work'[r].at = "streaming" THEN Streams \cup {r} ELSE Streams \ {r}
  BY DEF Streams
<1>3. IsFiniteSet(Streams) /\ Cardinality(Streams) \in Nat
  BY ConnectionsAssumption, FS_Subset, FS_CardinalityType DEF Streams
<1>4. r \in Streams <=> work[r].at = "streaming"
  BY DEF Streams
<1>5. /\ Cardinality(Streams \cup {r}) =
           IF r \in Streams THEN Cardinality(Streams) ELSE Cardinality(Streams) + 1
      /\ Cardinality(Streams \ {r}) =
           IF r \in Streams THEN Cardinality(Streams) - 1 ELSE Cardinality(Streams)
  BY <1>3, FS_AddElement, FS_RemoveElement
<1> QED BY <1>1, <1>2, <1>3, <1>4, <1>5

\* A connection that goes to another place within its life, its requests as they are: one
\* over TCP does not end before its request.
LEMMA LinkMoves ==
  ASSUME LinkInv, NEW c \in Clients, NEW place \in {"open", "left", "ending"},
         LinkAt(c) \in {"handshake", "open", "left", "ending"}, LinkGoes(c, place),
         HasRequest(c) /\ Via(c) = "tcp" => place \in {"open", "left"},
         UNCHANGED <<up, stopping, opened, streaming, work>>
  PROVE  LinkInv'
<1>1. /\ link' \in [Clients -> Link]
      /\ \A d \in Clients : link'[d] = IF d = c THEN [link[c] EXCEPT !.at = place] ELSE link[d]
  BY DEF LinkInv, Link, LinkGoes
<1>2. streaming' = Cardinality(Streams') /\ streaming' \in Nat /\ streaming' <= MaxStreams
  BY DEF LinkInv, LinkTypeOK, PlacesAreExact, Streams
<1>3. \A d \in Clients : /\ link'[d].loop = link[d].loop
                         /\ link'[d].at = "none" <=> LinkAt(d) = "none"
                         /\ link'[d].at = "overLimit" <=> LinkAt(d) = "overLimit"
                         /\ link'[d].at = IF d = c THEN place ELSE link[d].at
  BY <1>1 DEF LinkInv, Link, LinkAt
<1>4. RequestsStand'
  BY <1>3 DEF LinkInv, RequestsStand, HasRequest, Via, LinkAt
<1>5. up' \subseteq Loops /\ stopping' \in BOOLEAN /\ work' \in [Handlers -> Work]
  BY DEF LinkInv, LinkTypeOK
<1> QED BY <1>1, <1>2, <1>3, <1>4, <1>5, SameCounts

\* A request that begins, with its place if it is a stream.
LEMMA WorkBegins ==
  ASSUME LinkInv, NEW c \in Clients, NEW r \in Handlers, NEW place \in {"asking", "streaming"},
         TakesRequest(c), work[r] = NoWork, WorkGoes(r, c, place),
         streaming' = streaming + (IF place = "streaming" THEN 1 ELSE 0),
         streaming' <= MaxStreams, UNCHANGED <<up, stopping, opened, link>>
  PROVE  LinkInv'
<1>1. /\ work' \in [Handlers -> Work]
      /\ work'[r].of = c /\ work'[r].at = place
      /\ \A s \in Handlers \ {r} : work'[s] = work[s]
  BY ConnectionsAssumption DEF LinkInv, WorkGoes, Work
<1>2. work[r].at = "none"
  BY DEF NoWork
<1>3. streaming' = Cardinality(Streams') /\ streaming' \in Nat
  <2>1. streaming = Cardinality(Streams) /\ streaming \in Nat
    BY DEF LinkInv, LinkTypeOK, PlacesAreExact
  <2> QED BY <1>1, <1>2, <2>1, OneStream
<1>4. RequestsStand'
  <2> SUFFICES ASSUME NEW s \in Handlers, work'[s].at # "none"
               PROVE  /\ work'[s].of \in Clients
                      /\ Via(work'[s].of) = "tcp" =>
                           /\ LinkAt(work'[s].of) \in {"open", "left"}
                           /\ \A q \in Handlers \ {s} :
                                work'[q].at # "none" => work'[q].of # work'[s].of
    BY DEF RequestsStand, Via, LinkAt
  <2>1. CASE s = r
    <3>1. LinkAt(c) = "open" /\ (Via(c) = "tcp" => ~HasRequest(c))
      BY DEF TakesRequest
    <3> QED BY <1>1, <2>1, <3>1 DEF HasRequest
  <2>2. CASE s # r
    <3>1. Via(c) = "tcp" => ~HasRequest(c)
      BY DEF TakesRequest
    <3> QED BY <1>1, <2>2, <3>1 DEF LinkInv, RequestsStand, HasRequest
  <2> QED BY <2>1, <2>2
<1>5. up' \subseteq Loops /\ stopping' \in BOOLEAN /\ link' \in [Clients -> Link]
  BY DEF LinkInv, LinkTypeOK
<1> QED BY <1>1, <1>3, <1>4, <1>5, SameCounts DEF LinkAt

\* A request that ends, with its connection over TCP; over UDP the connection may have
\* ended before it.
LEMMA WorkEnds ==
  ASSUME LinkInv, NEW r \in Handlers, work[r].at # "none",
         work' = [work EXCEPT ![r] = NoWork], AfterRequest(work[r].of),
         streaming' = streaming - (IF work[r].at = "streaming" THEN 1 ELSE 0),
         UNCHANGED <<up, stopping, opened>>
  PROVE  LinkInv'
<1> DEFINE c == work[r].of
<1>1. NoWork \in Work /\ NoWork.at = "none"
  BY ConnectionsAssumption DEF NoWork, Work
<1>2. /\ work' \in [Handlers -> Work] /\ work'[r].at = "none"
      /\ \A s \in Handlers \ {r} : work'[s] = work[s]
  BY <1>1 DEF LinkInv
<1>3. /\ streaming = Cardinality(Streams) /\ streaming \in Nat /\ streaming <= MaxStreams
      /\ MaxStreams \in Nat
  BY ConnectionsAssumption DEF LinkInv, LinkTypeOK, PlacesAreExact
<1>4. streaming' = Cardinality(Streams') /\ streaming' \in Nat /\ streaming' <= MaxStreams
  BY <1>2, <1>3, OneStream
<1>5. c \in Clients /\ (Via(c) = "tcp" => LinkAt(c) \in {"open", "left"})
  BY DEF LinkInv, RequestsStand
<1>6. /\ link' \in [Clients -> Link]
      /\ \A d \in Clients :
           link'[d] = IF d = c /\ Via(c) = "tcp" THEN [link[c] EXCEPT !.at = "ending"] ELSE link[d]
  BY <1>5 DEF LinkInv, Link, AfterRequest, LinkGoes, LinkAt
<1>7. \A d \in Clients : /\ link'[d].loop = link[d].loop
                         /\ link'[d].at = "none" <=> LinkAt(d) = "none"
                         /\ link'[d].at = "overLimit" <=> LinkAt(d) = "overLimit"
                         /\ link'[d].at = IF d = c /\ Via(c) = "tcp" THEN "ending" ELSE link[d].at
  BY <1>5, <1>6 DEF LinkInv, Link, LinkAt
<1>8. RequestsStand'
  <2> SUFFICES ASSUME NEW s \in Handlers \ {r}, work[s].at # "none"
               PROVE  /\ work[s].of \in Clients
                      /\ link'[work[s].of].loop[1] = "tcp" =>
                           /\ link'[work[s].of].at \in {"open", "left"}
                           /\ \A q \in Handlers \ {s} :
                                work'[q].at # "none" => work'[q].of # work[s].of
    BY <1>2 DEF RequestsStand, Via, LinkAt
  <2>1. work[s].of \in Clients /\ (Via(c) = "tcp" => work[s].of # c)
    BY DEF LinkInv, RequestsStand
  <2> QED BY <1>2, <1>7, <2>1 DEF LinkInv, RequestsStand, Via, LinkAt
<1>9. up' \subseteq Loops /\ stopping' \in BOOLEAN
  BY DEF LinkInv, LinkTypeOK
<1> QED BY <1>2, <1>4, <1>6, <1>7, <1>8, <1>9, SameCounts

\* The counter of a transport goes with the connections over it.
LEMMA PlacesCounted ==
  ASSUME LinkInv, NEW c \in Clients, NEW l \in Link, link' = [link EXCEPT ![c] = l],
         NEW t \in Transports
  PROVE  /\ LinksVia(t)' = IF l.at # "none" /\ l.loop[1] = t
                           THEN LinksVia(t) \cup {c} ELSE LinksVia(t) \ {c}
         /\ OverLimit(t)' = IF l.at = "overLimit" /\ l.loop[1] = t
                            THEN OverLimit(t) \cup {c} ELSE OverLimit(t) \ {c}
         /\ IsFiniteSet(LinksVia(t)) /\ Cardinality(LinksVia(t)) \in Nat
         /\ c \in LinksVia(t) <=> LinkAt(c) # "none" /\ Via(c) = t
         /\ Cardinality(LinksVia(t) \cup {c}) =
              IF c \in LinksVia(t) THEN Cardinality(LinksVia(t)) ELSE Cardinality(LinksVia(t)) + 1
         /\ Cardinality(LinksVia(t) \ {c}) =
              IF c \in LinksVia(t) THEN Cardinality(LinksVia(t)) - 1 ELSE Cardinality(LinksVia(t))
<1>1. \A d \in Clients : link'[d] = IF d = c THEN l ELSE link[d]
  BY DEF LinkInv
<1>2. LinksVia(t)' = IF l.at # "none" /\ l.loop[1] = t
                     THEN LinksVia(t) \cup {c} ELSE LinksVia(t) \ {c}
  BY <1>1 DEF LinksVia, LinkAt, Via
<1>3. OverLimit(t)' = IF l.at = "overLimit" /\ l.loop[1] = t
                      THEN OverLimit(t) \cup {c} ELSE OverLimit(t) \ {c}
  BY <1>1 DEF LinksVia, OverLimit, LinkAt, Via
<1>4. IsFiniteSet(LinksVia(t)) /\ Cardinality(LinksVia(t)) \in Nat
  BY ConnectionsAssumption, FS_Subset, FS_CardinalityType DEF LinksVia
<1>5. c \in LinksVia(t) <=> LinkAt(c) # "none" /\ Via(c) = t
  BY DEF LinksVia
<1>6. /\ Cardinality(LinksVia(t) \cup {c}) =
           IF c \in LinksVia(t) THEN Cardinality(LinksVia(t)) ELSE Cardinality(LinksVia(t)) + 1
      /\ Cardinality(LinksVia(t) \ {c}) =
           IF c \in LinksVia(t) THEN Cardinality(LinksVia(t)) - 1 ELSE Cardinality(LinksVia(t))
  BY <1>4, FS_AddElement, FS_RemoveElement
<1> QED BY <1>2, <1>3, <1>4, <1>5, <1>6

\* One connection more: over the limit exactly if its transport has MaxOpen already.
LEMMA AcceptsKeeps ==
  ASSUME LinkInv, NEW c \in Clients, NEW loop \in Loops, AcceptsLink(c, loop)
  PROVE  LinkInv'
<1> DEFINE l == [at |-> IF opened'[loop[1]] > MaxOpen THEN "overLimit" ELSE "handshake",
                 loop |-> loop]
           t == loop[1]
<1>1. /\ link' = [link EXCEPT ![c] = l] /\ LinkAt(c) = "none" /\ ~HasRequest(c)
      /\ opened' = [opened EXCEPT ![t] = @ + 1]
      /\ UNCHANGED <<up, stopping, streaming, work>>
  BY DEF AcceptsLink
<1>2. /\ l \in Link /\ l.loop = loop /\ l.at # "none" /\ t \in Transports
      /\ l.at = "overLimit" <=> opened'[t] > MaxOpen
  BY DEF Link, Loops
<1> HIDE DEF l
<1>3. \A k \in Transports :
        /\ LinksVia(k)' = IF t = k THEN LinksVia(k) \cup {c} ELSE LinksVia(k) \ {c}
        /\ OverLimit(k)' = IF l.at = "overLimit" /\ t = k
                           THEN OverLimit(k) \cup {c} ELSE OverLimit(k) \ {c}
        /\ IsFiniteSet(LinksVia(k)) /\ Cardinality(LinksVia(k)) \in Nat
        /\ c \notin LinksVia(k)
        /\ Cardinality(LinksVia(k) \cup {c}) = Cardinality(LinksVia(k)) + 1
  <2> SUFFICES ASSUME NEW k \in Transports
               PROVE  /\ LinksVia(k)' = IF t = k THEN LinksVia(k) \cup {c} ELSE LinksVia(k) \ {c}
                      /\ OverLimit(k)' = IF l.at = "overLimit" /\ t = k
                                         THEN OverLimit(k) \cup {c} ELSE OverLimit(k) \ {c}
                      /\ IsFiniteSet(LinksVia(k)) /\ Cardinality(LinksVia(k)) \in Nat
                      /\ c \notin LinksVia(k)
                      /\ Cardinality(LinksVia(k) \cup {c}) = Cardinality(LinksVia(k)) + 1
    OBVIOUS
  <2>1. c \notin LinksVia(k)
    BY <1>1 DEF LinksVia
  <2>2. l.loop[1] = t
    BY <1>2
  <2> QED BY <1>1, <1>2, <2>1, <2>2, PlacesCounted
<1>12. \A k \in Transports : c \notin OverLimit(k)
  BY <1>3 DEF OverLimit
<1>4. ASSUME NEW k \in Transports, k # t
      PROVE  LinksVia(k)' = LinksVia(k) /\ OverLimit(k)' = OverLimit(k)
  <2>1. LinksVia(k)' = LinksVia(k) \ {c} /\ OverLimit(k)' = OverLimit(k) \ {c}
    BY <1>3, <1>4
  <2>2. c \notin LinksVia(k) /\ c \notin OverLimit(k)
    BY <1>3, <1>12
  <2> QED BY <2>1, <2>2
<1>5. opened \in [Transports -> Nat] /\ MaxOpen \in Nat
  BY ConnectionsAssumption DEF LinkInv, LinkTypeOK
<1>6. /\ opened'[t] = Cardinality(LinksVia(t)')
      /\ Cardinality(LinksVia(t)' \ OverLimit(t)') <= MaxOpen
  <2>1. opened[t] = Cardinality(LinksVia(t)) /\ Cardinality(LinksVia(t) \ OverLimit(t)) <= MaxOpen
    BY <1>2 DEF LinkInv, PlacesAreExact
  <2>2. opened'[t] = Cardinality(LinksVia(t)')
    BY <1>1, <1>2, <1>3, <1>5, <2>1
  <2>3. CASE opened'[t] > MaxOpen
    <3>1. LinksVia(t)' \ OverLimit(t)' = LinksVia(t) \ OverLimit(t)
      BY <1>2, <1>3, <1>12, <2>3
    <3> QED BY <2>1, <2>2, <3>1
  <2>4. CASE ~(opened'[t] > MaxOpen)
    <3>1. opened'[t] \in Nat
      BY <1>1, <1>2, <1>5
    <3>2. IsFiniteSet(LinksVia(t)')
      <4>1. LinksVia(t)' = LinksVia(t) \cup {c} /\ IsFiniteSet(LinksVia(t))
        BY <1>2, <1>3
      <4> QED BY <4>1, FS_AddElement
    <3>3. Cardinality(LinksVia(t)' \ OverLimit(t)') <= Cardinality(LinksVia(t)')
      BY <3>2, FS_Subset
    <3>4. IsFiniteSet(LinksVia(t)' \ OverLimit(t)')
      BY <3>2, FS_Subset
    <3>5. /\ Cardinality(LinksVia(t)' \ OverLimit(t)') \in Nat
          /\ Cardinality(LinksVia(t)') \in Nat
      BY <3>2, <3>4, FS_CardinalityType
    <3> QED BY <1>5, <2>2, <2>4, <3>1, <3>3, <3>5
  <2> QED BY <2>2, <2>3, <2>4
<1>7. PlacesAreExact'
  <2>1. streaming' = Cardinality(Streams') /\ streaming' <= MaxStreams
    BY <1>1 DEF LinkInv, PlacesAreExact, Streams
  <2>2. ASSUME NEW k \in Transports, k # t
        PROVE  /\ opened'[k] = Cardinality(LinksVia(k)')
               /\ Cardinality(LinksVia(k)' \ OverLimit(k)') <= MaxOpen
    <3>1. opened'[k] = opened[k]
      BY <1>1, <1>5, <2>2
    <3> QED BY <1>4, <2>2, <3>1 DEF LinkInv, PlacesAreExact
  <2> QED BY <1>6, <2>1, <2>2 DEF PlacesAreExact
<1>8. \A d \in Clients : link'[d] = IF d = c THEN l ELSE link[d]
  BY <1>1 DEF LinkInv
<1>9. link' \in [Clients -> Link] /\ work' \in [Handlers -> Work] /\ opened' \in [Transports -> Nat]
  BY <1>1, <1>2, <1>5 DEF LinkInv
<1>10. LinkTypeOK'
  BY <1>1, <1>9 DEF LinkInv, LinkTypeOK, LinkAt, Link, Work
<1>11. \A d \in Clients : LinkAt(d)' # "none" => link'[d].loop \in Loops
  BY <1>1, <1>2, <1>8 DEF LinkInv, LinkAt
<1>13. RequestsStand'
  BY <1>1, <1>8 DEF LinkInv, RequestsStand, HasRequest, Via, LinkAt
<1> QED BY <1>7, <1>9, <1>10, <1>11, <1>13 DEF LinkInv

\* One connection less, and its place is given back.
LEMMA GivenBack ==
  ASSUME LinkInv, NEW c \in Clients, LinkAt(c) \in {"overLimit", "ending"},
         opened' = [opened EXCEPT ![Via(c)] = @ - 1], link' = [link EXCEPT ![c] = NoLink],
         UNCHANGED <<up, stopping, streaming, work>>
  PROVE  LinkInv'
<1> DEFINE t == Via(c)
<1>1. NoLink \in Link /\ NoLink.at = "none" /\ t \in Transports
  BY DEF NoLink, Link, LinkInv, LinkAt, Via, Loops
<1>2. \A k \in Transports :
        /\ LinksVia(k)' = LinksVia(k) \ {c} /\ OverLimit(k)' = OverLimit(k) \ {c}
        /\ IsFiniteSet(LinksVia(k)) /\ Cardinality(LinksVia(k)) \in Nat
        /\ c \in LinksVia(k) <=> t = k
        /\ Cardinality(LinksVia(k) \ {c}) =
             IF t = k THEN Cardinality(LinksVia(k)) - 1 ELSE Cardinality(LinksVia(k))
  BY <1>1, PlacesCounted
<1>3. opened \in [Transports -> Nat]
  BY DEF LinkInv, LinkTypeOK
<1>4. \A k \in Transports : opened[k] = Cardinality(LinksVia(k))
  BY DEF LinkInv, PlacesAreExact
<1>5. \A k \in Transports : opened'[k] = Cardinality(LinksVia(k)')
  BY <1>1, <1>2, <1>3, <1>4
<1>6. ASSUME NEW k \in Transports
      PROVE  Cardinality(LinksVia(k)' \ OverLimit(k)') <= MaxOpen
  <2> DEFINE Served == LinksVia(k) \ OverLimit(k)
             Left == LinksVia(k)' \ OverLimit(k)'
  <2>1. IsFiniteSet(Served) /\ Cardinality(Served) <= MaxOpen
    BY <1>2, FS_Subset DEF LinkInv, PlacesAreExact
  <2>2. Left \subseteq Served
    BY <1>2
  <2> HIDE DEF Served, Left
  <2>3. IsFiniteSet(Left) /\ Cardinality(Left) <= Cardinality(Served)
    BY <2>1, <2>2, FS_Subset
  <2>4. Cardinality(Left) \in Nat /\ Cardinality(Served) \in Nat /\ MaxOpen \in Nat
    BY <2>1, <2>3, FS_CardinalityType, ConnectionsAssumption
  <2> QED BY <2>1, <2>3, <2>4 DEF Left
<1>7. PlacesAreExact'
  BY <1>5, <1>6 DEF LinkInv, PlacesAreExact, Streams
<1>8. \A d \in Clients : link'[d] = IF d = c THEN NoLink ELSE link[d]
  BY DEF LinkInv
<1>9. link' \in [Clients -> Link] /\ work' \in [Handlers -> Work]
  BY <1>1 DEF LinkInv
<1>10. opened' \in [Transports -> Nat]
  <2>1. \A k \in Transports : Cardinality(LinksVia(k)') \in Nat
    BY <1>2, FS_RemoveElement, FS_CardinalityType
  <2> QED BY <1>3, <1>5, <2>1
<1>11. LinkTypeOK'
  BY <1>9, <1>10 DEF LinkInv, LinkTypeOK, LinkAt, Link, Work
<1>12. \A d \in Clients : LinkAt(d)' # "none" => link'[d].loop \in Loops
  BY <1>1, <1>8 DEF LinkInv, LinkAt
<1>13. NoLink.loop[1] = "none"
  BY DEF NoLink
<1>14. RequestsStand'
  BY <1>8, <1>13 DEF LinkInv, RequestsStand, Via, LinkAt
<1> QED BY <1>7, <1>9, <1>11, <1>12, <1>14 DEF LinkInv

\* Every step of a connection, from its accept to its end, moves the counters with it.
LEMMA LinkStepsKeep ==
  ASSUME LinkInv, NEW c \in Clients, LinkSteps(c)
  PROVE  LinkInv'
<1>1. /\ link \in [Clients -> Link] /\ streaming \in Nat /\ MaxStreams \in Nat
      /\ streaming <= MaxStreams
  BY ConnectionsAssumption DEF LinkInv, LinkTypeOK, PlacesAreExact
<1>2. ASSUME NEW loop \in Loops, AcceptsLink(c, loop) PROVE LinkInv'
  BY <1>2, AcceptsKeeps
<1>3. CASE RefusesLink(c)
  BY <1>3, GivenBack DEF RefusesLink
<1>4. CASE LinkEnds(c)
  BY <1>4, GivenBack DEF LinkEnds
<1>5. CASE Handshakes(c)
  <2>1. LinkAt(c) = "handshake"
    BY <1>5 DEF Handshakes
  <2>2. ~(HasRequest(c) /\ Via(c) = "tcp")
    BY <2>1 DEF LinkInv, RequestsStand, HasRequest
  <2> QED BY <1>5, <2>1, <2>2, LinkMoves DEF Handshakes
<1>6. ASSUME TakesRequest(c), AfterRequest(c),
             UNCHANGED <<up, stopping, opened, streaming, work>>
      PROVE  LinkInv'
  BY <1>6, LinkMoves DEF TakesRequest, AfterRequest
<1>7. CASE AnswersAtOnce(c)
  BY <1>6, <1>7 DEF AnswersAtOnce
<1>8. ASSUME NEW r \in Handlers, AsksCommand(c, r) PROVE LinkInv'
  <2>1. /\ TakesRequest(c) /\ work[r] = NoWork /\ WorkGoes(r, c, "asking")
        /\ UNCHANGED <<up, stopping, opened, streaming, link>>
    BY <1>8 DEF AsksCommand
  <2> QED BY <1>1, <2>1, WorkBegins
<1>9. ASSUME NEW r \in Handlers, AsksStream(c, r) PROVE LinkInv'
  <2>1. TakesRequest(c) /\ work[r] = NoWork /\ UNCHANGED <<up, stopping, opened>>
    BY <1>9 DEF AsksStream
  <2>2. CASE streaming < MaxStreams
    <3>1. streaming' = streaming + 1 /\ WorkGoes(r, c, "streaming") /\ UNCHANGED link
      BY <1>9, <2>2 DEF AsksStream
    <3> QED BY <1>1, <2>1, <2>2, <3>1, WorkBegins
  <2>3. CASE ~(streaming < MaxStreams)
    BY <1>6, <1>9, <2>1, <2>3 DEF AsksStream
  <2> QED BY <2>2, <2>3
<1>10. CASE ClientGoes(c)
  BY <1>10, LinkMoves DEF ClientGoes
<1> QED BY <1>2, <1>3, <1>4, <1>5, <1>7, <1>8, <1>9, <1>10 DEF LinkSteps

\* Every step of a request, which may go on when its connection has ended.
LEMMA WorkStepsKeep ==
  ASSUME LinkInv, NEW r \in Handlers, WorkSteps(r)
  PROVE  LinkInv'
<1>1. /\ work \in [Handlers -> Work] /\ link \in [Clients -> Link]
      /\ streaming \in Nat /\ streaming = Cardinality(Streams) /\ streaming <= MaxStreams
  BY DEF LinkInv, LinkTypeOK, PlacesAreExact
<1>2. CASE CommandAnswered(r)
  <2>1. /\ work[r].at = "asking" /\ work' = [work EXCEPT ![r] = NoWork]
        /\ AfterRequest(work[r].of) /\ UNCHANGED <<up, stopping, opened, streaming>>
    BY <1>2 DEF CommandAnswered
  <2>2. streaming' = streaming - (IF work[r].at = "streaming" THEN 1 ELSE 0)
    BY <1>1, <2>1
  <2> QED BY <2>1, <2>2, WorkEnds
<1>3. CASE StreamEnds(r)
  BY <1>1, <1>3, WorkEnds DEF StreamEnds
<1>4. CASE Beats(r)
  <2>1. /\ work[r].at = "streaming" /\ work' \in [Handlers -> Work]
        /\ \A s \in Handlers : work'[s].at = work[s].at /\ work'[s].of = work[s].of
    BY <1>1, <1>4, ConnectionsAssumption DEF Beats, Work
  <2>2. UNCHANGED <<up, stopping, opened, streaming, link>>
    BY <1>4 DEF Beats
  <2>3. RequestsStand'
    BY <2>1, <2>2 DEF LinkInv, RequestsStand, Via, LinkAt
  <2>4. Streams' = Streams
    BY <2>1 DEF Streams
  <2>5. up' \subseteq Loops /\ stopping' \in BOOLEAN /\ link' \in [Clients -> Link]
    BY <1>1, <2>2 DEF LinkInv, LinkTypeOK
  <2> QED BY <1>1, <2>1, <2>2, <2>3, <2>4, <2>5, SameCounts DEF LinkAt
<1> QED BY <1>2, <1>3, <1>4 DEF WorkSteps

\* A loop that ends closes the connections over UDP; their places are given back later.
LEMMA LoopsKeep ==
  ASSUME LinkInv, NEW loop \in Loops, LoopFails(loop) \/ LoopStops(loop)
  PROVE  LinkInv'
<1>1. /\ \A c \in Clients : /\ link'[c].loop = link[c].loop
                            /\ link'[c].at = "none" <=> LinkAt(c) = "none"
                            /\ link'[c].at = "overLimit" <=> LinkAt(c) = "overLimit"
                            /\ Via(c) = "tcp" => link'[c].at = LinkAt(c)
      /\ link' \in [Clients -> Link]
  BY DEF LinkInv, LoopFails, LoopStops, LinkAt, Via, Link
<1>2. /\ up' \subseteq Loops /\ stopping' \in BOOLEAN
      /\ UNCHANGED <<opened, streaming, work>>
  BY DEF LinkInv, LinkTypeOK, LoopFails, LoopStops
<1>3. RequestsStand'
  BY <1>1, <1>2 DEF LinkInv, RequestsStand, Via, LinkAt
<1>4. streaming' = Cardinality(Streams') /\ streaming' <= MaxStreams /\ streaming' \in Nat
  BY <1>2 DEF LinkInv, LinkTypeOK, PlacesAreExact, Streams
<1>5. work' \in [Handlers -> Work]
  BY <1>2 DEF LinkInv
<1> QED BY <1>1, <1>2, <1>3, <1>4, <1>5, SameCounts

\* Nobody is connected to a server that has just bound its addresses.
LEMMA LinksInitially == LinkInit => LinkInv
<1> SUFFICES ASSUME LinkInit PROVE LinkInv
  OBVIOUS
<1>1. NoLink \in Link /\ NoWork \in Work /\ NoLink.at = "none" /\ NoWork.at = "none"
  BY ConnectionsAssumption DEF NoLink, NoWork, Link, Work
<1>2. link \in [Clients -> Link] /\ work \in [Handlers -> Work]
  BY <1>1 DEF LinkInit
<1>3. \A t \in Transports : LinksVia(t) = {} /\ OverLimit(t) = {}
  BY <1>1 DEF LinkInit, LinksVia, OverLimit, LinkAt
<1>4. Streams = {}
  BY <1>1 DEF LinkInit, Streams
<1>5. PlacesAreExact
  BY <1>3, <1>4, FS_EmptySet, ConnectionsAssumption DEF LinkInit, PlacesAreExact
<1>6. LinkTypeOK
  BY <1>2 DEF LinkInit, LinkTypeOK, LinkAt, Link, Work
<1>7. RequestsStand
  BY <1>1 DEF LinkInit, RequestsStand
<1> QED BY <1>1, <1>2, <1>5, <1>6, <1>7 DEF LinkInit, LinkInv, LinkAt

\* LinkInv is an inductive invariant of the TLS server's connections.
THEOREM LinkInvariant == LinkSpec => []LinkInv
<1>1. LinkInv /\ Stopped => LinkInv'
  BY SameCounts DEF Stopped, LinkInv, LinkTypeOK, PlacesAreExact, LinkAt, RequestsStand, Via,
                    Streams
<1>2. LinkInv /\ UNCHANGED linkVars => LinkInv'
  <2> SUFFICES ASSUME LinkInv, UNCHANGED linkVars PROVE LinkInv'
    OBVIOUS
  <2>1. UNCHANGED <<up, stopping, opened, streaming, link, work>>
    BY DEF linkVars
  <2>2. RequestsStand' /\ Streams' = Streams
    BY <2>1 DEF LinkInv, RequestsStand, Via, LinkAt, Streams
  <2>3. /\ up \subseteq Loops /\ stopping \in BOOLEAN /\ link \in [Clients -> Link]
        /\ work \in [Handlers -> Work] /\ streaming \in Nat
        /\ streaming = Cardinality(Streams) /\ streaming <= MaxStreams
    BY DEF LinkInv, LinkTypeOK, PlacesAreExact
  <2> QED BY <2>1, <2>2, <2>3, SameCounts DEF LinkAt
<1>3. LinkInv /\ [LinkNext]_linkVars => LinkInv'
  BY <1>1, <1>2, LinkStepsKeep, WorkStepsKeep, LoopsKeep DEF LinkNext
<1> QED BY <1>3, LinksInitially, PTL DEF LinkSpec

\* Each counter of the TLS server is the number of those who hold a place, whatever way
\* connections, their requests and their streams came and ended, and neither limit is
\* passed (api.rs, run_h3_endpoint_loop, run_tcp_https_accept_loop and
\* ApiRealtimeStreamGuard's drop).
THEOREM PlacesStayExact == LinkSpec => []PlacesAreExact
<1>1. LinkInv => PlacesAreExact
  BY DEF LinkInv
<1> QED BY <1>1, LinkInvariant, PTL

-----------------------------------------------------------------------------
(* The life of the servers (ApiServer)                                      *)

Named == {"serving", "judging", "draining", "unnaming"}
Addressed == {"bound", "serving", "judging", "draining"}
ShellPlaces == {"rest", "next", "rejudging", "stalePid", "staleSocket", "spawning",
                "killing", "polling", "removingPid", "removingSocket"}

\* Processes, pid files and commands know the server they speak of.
KnownServers ==
  /\ \A p \in Servers : server[p].at # "unborn" => KindOf(p) \in Kinds
  /\ \A p \in Servers : server[p].at \in {"clearing", "unbinding"} => KindOf(p) = "unix"
  /\ \A k \in Kinds : pidOf[k] # NoServer => server[pidOf[k]].at # "unborn"
  /\ \A s \in Shells : shell[s].pid # NoServer => server[shell[s].pid].at # "unborn"

\* A command that removes files has seen its server gone.
ShellsOK ==
  /\ shell \in [Shells -> [todo : Seq(Tasks), at : ShellPlaces, pid : Servers \cup {NoServer}]]
  /\ \A s \in Shells : /\ shell[s].at # "rest" => shell[s].todo # <<>>
                       /\ shell[s].at \notin {"killing", "polling"} => ~Lives(shell[s].pid)

\* While no command met a server that comes or goes, there is one server of a kind, its
\* pid file names it from when it serves, and its address is its own from when it is bound.
OneServer ==
  /\ \A p, q \in Servers : Lives(p) /\ Lives(q) /\ KindOf(p) = KindOf(q) => p = q
  /\ \A p \in Servers : server[p].at \in Named => pidOf[KindOf(p)] = p
  /\ \A p \in Servers : server[p].at \in Addressed => addressOf[KindOf(p)] = p

ServerInv ==
  /\ ServerTypeOK /\ overlapped \in BOOLEAN
  /\ KnownServers /\ ShellsOK
  /\ ~overlapped => OneServer

\* The places of a process.
Stands == Coming \cup {"unborn", "serving", "judging", "draining", "unnaming", "unbinding", "gone"}
Process == [kind : Kinds \cup {"none"}, told : BOOLEAN, at : Stands]

\* What a step of a living process p must do to keep the invariant: it writes the files
\* of its own kind only, where by OneServer there is no other server.
LEMMA ProcessKeeps ==
  ASSUME ServerInv, NEW p \in Servers, Lives(p),
         server' \in [Servers -> Process],
         server'[p].kind = KindOf(p), server'[p].at # "unborn",
         \A q \in Servers \ {p} : server'[q] = server[q],
         server'[p].at \in {"clearing", "unbinding"} => KindOf(p) = "unix",
         {pidOf', addressOf'} \subseteq [Kinds -> Servers \cup {NoServer}],
         \A k \in Kinds : pidOf'[k] \in {pidOf[k], NoServer, p},
         \A k \in Kinds \ {KindOf(p)}, q \in Servers \ {p} :
            /\ pidOf[k] = q => pidOf'[k] = q
            /\ addressOf[k] = q => addressOf'[k] = q,
         ~overlapped =>
            /\ server'[p].at \in Named => pidOf'[KindOf(p)] = p
            /\ server'[p].at \in Addressed => addressOf'[KindOf(p)] = p,
         UNCHANGED <<shell, overlapped>>, setting' \in {"on", "off", "broken"}
  PROVE  ServerInv'
<1>1. \A q \in Servers \cup {NoServer} : Lives(q)' => Lives(q)
  BY DEF Lives
<1>2. \A q \in Servers : KindOf(q)' = KindOf(q)
  BY DEF KindOf
<1>3. ServerTypeOK'
  BY DEF ServerInv, ServerTypeOK, Process, Stands
<1>4. KnownServers'
  <2>1. \A q \in Servers : server'[q].at # "unborn" => KindOf(q)' \in Kinds
    BY <1>2 DEF ServerInv, KnownServers, Lives
  <2>2. \A q \in Servers : server'[q].at \in {"clearing", "unbinding"} => KindOf(q)' = "unix"
    BY <1>2 DEF ServerInv, KnownServers
  <2>3. \A q \in Servers : server[q].at # "unborn" => server'[q].at # "unborn"
    OBVIOUS
  <2>4. \A k \in Kinds : pidOf'[k] # NoServer => server'[pidOf'[k]].at # "unborn"
    BY <2>3 DEF ServerInv, ServerTypeOK, KnownServers
  <2>5. \A s \in Shells : shell'[s].pid # NoServer => server'[shell'[s].pid].at # "unborn"
    BY <2>3 DEF ServerInv, ServerTypeOK, KnownServers
  <2> QED BY <2>1, <2>2, <2>4, <2>5 DEF KnownServers
<1>5. ShellsOK'
  BY <1>1 DEF ServerInv, ShellsOK
<1>6. ASSUME ~overlapped PROVE OneServer'
  <2>1. OneServer
    BY <1>6 DEF ServerInv
  <2>2. \A q \in Servers \ {p} : Lives(q)' => KindOf(q) # KindOf(p) /\ KindOf(q) \in Kinds
    BY <1>1, <2>1 DEF OneServer, ServerInv, KnownServers, Lives
  <2>3. \A q, r \in Servers : Lives(q)' /\ Lives(r)' /\ KindOf(q)' = KindOf(r)' => q = r
    BY <1>1, <1>2, <2>1 DEF OneServer
  <2>4. \A q \in Servers \ {p} : server'[q].at \in Named => pidOf'[KindOf(q)'] = q
    BY <1>2, <2>1, <2>2 DEF OneServer, Named, Lives, Servers, NoServer
  <2>5. \A q \in Servers \ {p} : server'[q].at \in Addressed => addressOf'[KindOf(q)'] = q
    BY <1>2, <2>1, <2>2 DEF OneServer, Addressed, Lives, Servers, NoServer
  <2> QED BY <1>2, <1>6, <2>3, <2>4, <2>5 DEF OneServer
<1> QED BY <1>3, <1>4, <1>5, <1>6 DEF ServerInv

\* The steps of a server process: its start, its files, its look at the setting, its end.
LEMMA ProcessSteps ==
  ASSUME ServerInv, NEW p \in Servers, ServerSteps(p)
  PROVE  ServerInv'
<1> USE DEF NoServer
<1>0. /\ server \in [Servers -> Process] /\ NoServer \notin Servers /\ setting \in {"on", "off", "broken"}
      /\ {pidOf, addressOf} \subseteq [Kinds -> Servers \cup {NoServer}]
  BY DEF ServerInv, ServerTypeOK, Process, Stands, Servers
<1>1. ASSUME NEW from \in Stands \ {"unborn", "gone"}, NEW to \in Stands \ {"unborn"},
             Stand(p, from, to)
      PROVE  /\ Lives(p) /\ server[p].at = from /\ server'[p].at = to
             /\ server' \in [Servers -> Process] /\ server'[p].kind = KindOf(p)
             /\ \A q \in Servers \ {p} : server'[q] = server[q]
             /\ KindOf(p) \in Kinds
  BY <1>0, <1>1 DEF Stand, Process, Stands, Lives, KindOf, ServerInv, KnownServers
<1>2. ~overlapped => /\ server[p].at \in Named => pidOf[KindOf(p)] = p
                     /\ server[p].at \in Addressed => addressOf[KindOf(p)] = p
  BY DEF ServerInv, OneServer
<1>3. server[p].at \in {"clearing", "unbinding"} => KindOf(p) = "unix"
  BY DEF ServerInv, KnownServers
<1>4. CASE BeginsRun(p)
  <2> DEFINE to == IF setting # "on" THEN "gone" ELSE IF KindOf(p) = "unix" THEN "clearing" ELSE "binding"
  <2>1. Stand(p, "spawned", to) /\ to \in {"gone", "clearing", "binding"}
        /\ (to = "clearing" => KindOf(p) = "unix")
    BY <1>4 DEF BeginsRun
  <2> HIDE DEF to
  <2>2. to \in Stands \ {"unborn"} /\ to \notin Named /\ to \notin Addressed /\ to # "unbinding"
        /\ "spawned" \in Stands \ {"unborn", "gone"}
    BY <2>1 DEF Stands, Coming, Named, Addressed
  <2> QED BY <1>0, <1>1, <1>4, <2>1, <2>2, ProcessKeeps DEF BeginsRun, ByShells
<1> USE DEF Stands, Coming, Named, Addressed
<1>5. CASE ClearsSocket(p)
  <2>1. Stand(p, "clearing", "binding") /\ KindOf(p) = "unix"
    BY <1>3, <1>5 DEF ClearsSocket, Stand
  <2> QED BY <1>0, <1>1, <1>5, <2>1, ProcessKeeps DEF ClearsSocket, ByShells
<1>6. CASE BindsAddress(p)
  <2>1. CASE addressOf[KindOf(p)] = NoServer
    <3>1. Stand(p, "binding", "bound") /\ addressOf' = [addressOf EXCEPT ![KindOf(p)] = p]
      BY <1>6, <2>1 DEF BindsAddress
    <3> QED BY <1>0, <1>1, <1>6, <3>1, ProcessKeeps DEF BindsAddress, ByShells
  <2>2. CASE addressOf[KindOf(p)] # NoServer
    <3>1. Stand(p, "binding", "gone") /\ addressOf' = addressOf
      BY <1>6, <2>2 DEF BindsAddress
    <3> QED BY <1>0, <1>1, <1>6, <3>1, ProcessKeeps DEF BindsAddress, ByShells
  <2> QED BY <2>1, <2>2
<1>7. CASE NamesItself(p)
  <2>1. Stand(p, "bound", "serving") /\ pidOf' = [pidOf EXCEPT ![KindOf(p)] = p]
    BY <1>7 DEF NamesItself
  <2> QED BY <1>0, <1>1, <1>2, <1>7, <2>1, ProcessKeeps DEF NamesItself, ByShells
<1>8. CASE LooksUp(p)
  <2>1. Stand(p, "serving", "draining") \/ Stand(p, "serving", "judging")
    BY <1>8 DEF LooksUp
  <2> QED BY <1>0, <1>1, <1>2, <1>8, <2>1, ProcessKeeps DEF LooksUp, ByShells
<1>9. CASE JudgesSetting(p)
  <2>1. Stand(p, "judging", "draining") \/ Stand(p, "judging", "serving")
    BY <1>9 DEF JudgesSetting
  <2> QED BY <1>0, <1>1, <1>2, <1>9, <2>1, ProcessKeeps DEF JudgesSetting, ByShells
<1>10. CASE LoopsEnd(p)
  <2>1. Stand(p, "serving", "draining")
    BY <1>10 DEF LoopsEnd
  <2> QED BY <1>0, <1>1, <1>2, <1>10, <2>1, ProcessKeeps DEF LoopsEnd, ByShells
<1>11. CASE Drained(p)
  <2>1. Stand(p, "draining", "unnaming")
    BY <1>11 DEF Drained
  <2> QED BY <1>0, <1>1, <1>2, <1>11, <2>1, ProcessKeeps DEF Drained, ByShells
<1>12. CASE Unnames(p)
  <2>1. \/ Stand(p, "unnaming", "unbinding") /\ KindOf(p) = "unix"
        \/ Stand(p, "unnaming", "gone")
    BY <1>12 DEF Unnames
  <2> QED BY <1>0, <1>1, <1>2, <1>12, <2>1, ProcessKeeps DEF Unnames, ByShells
<1>13. CASE RemovesItsSocket(p)
  <2>1. Stand(p, "unbinding", "gone") /\ KindOf(p) = "unix"
    BY <1>3, <1>13 DEF RemovesItsSocket, Stand
  <2> QED BY <1>0, <1>1, <1>13, <2>1, ProcessKeeps DEF RemovesItsSocket, ByShells
<1>14. CASE ServerKilled(p)
  <2>1. /\ Lives(p) /\ server' \in [Servers -> Process] /\ server'[p].kind = KindOf(p)
        /\ server'[p].at = "gone" /\ \A q \in Servers \ {p} : server'[q] = server[q]
    BY <1>0, <1>14 DEF ServerKilled, Process, KindOf
  <2> QED BY <1>0, <1>14, <2>1, ProcessKeeps DEF ServerKilled
<1> QED BY <1>4, <1>5, <1>6, <1>7, <1>8, <1>9, <1>10, <1>11, <1>12, <1>13, <1>14 DEF ServerSteps

-----------------------------------------------------------------------------
\* A command between two of its steps.
ShellForm == [todo : Seq(Tasks), at : ShellPlaces, pid : Servers \cup {NoServer}]

\* What a command that starts and ends no process must do to keep the invariant: a file
\* that names a living server it removes only where that counts as an overlap.
LEMMA CommandKeeps ==
  ASSUME ServerInv, NEW s \in Shells,
         shell' \in [Shells -> ShellForm], \A t \in Shells \ {s} : shell'[t] = shell[t],
         shell'[s].at # "rest" => shell'[s].todo # <<>>,
         shell'[s].at \notin {"killing", "polling"} => ~Lives(shell'[s].pid),
         shell'[s].pid # NoServer => server[shell'[s].pid].at # "unborn",
         {pidOf', addressOf'} \subseteq [Kinds -> Servers \cup {NoServer}],
         \A k \in Kinds : pidOf'[k] \in {pidOf[k], NoServer},
         overlapped' \in BOOLEAN, overlapped => overlapped',
         ~overlapped' => \A k \in Kinds : /\ Lives(pidOf[k]) => pidOf'[k] = pidOf[k]
                                          /\ Lives(addressOf[k]) => addressOf'[k] = addressOf[k],
         UNCHANGED <<server, setting>>
  PROVE  ServerInv'
<1>1. \A p \in Servers \cup {NoServer} : Lives(p)' = Lives(p)
  BY DEF Lives
<1>2. \A p \in Servers : KindOf(p)' = KindOf(p)
  BY DEF KindOf
<1>3. ServerTypeOK'
  BY DEF ServerInv, ServerTypeOK, ShellForm, ShellsOK
<1>4. KnownServers'
  BY <1>2 DEF ServerInv, ServerTypeOK, KnownServers
<1>5. ShellsOK'
  BY <1>1 DEF ServerInv, ShellsOK, ShellForm
<1>6. ASSUME ~overlapped' PROVE OneServer'
  <2>1. OneServer
    BY <1>6 DEF ServerInv
  <2>2. \A p \in Servers : server[p].at \in Named \cup Addressed => Lives(p) /\ KindOf(p) \in Kinds
    BY DEF ServerInv, KnownServers, Lives, Named, Addressed, Servers, NoServer
  <2> QED BY <1>1, <1>2, <1>6, <2>1, <2>2 DEF OneServer
<1> QED BY <1>3, <1>4, <1>5, <1>6 DEF ServerInv

\* What SIGTERM tells a server changes nothing else about it.
LEMMA TellsKeeps ==
  ASSUME ServerInv, NEW s \in Shells, NEW p \in Servers, Lives(p),
         server' = [server EXCEPT ![p].told = TRUE],
         shell' \in [Shells -> ShellForm], \A t \in Shells \ {s} : shell'[t] = shell[t],
         shell'[s].at = "polling" /\ shell'[s].todo # <<>> /\ shell'[s].pid = p,
         UNCHANGED <<pidOf, addressOf, setting, overlapped>>
  PROVE  ServerInv'
<1> PICK sent \in BOOLEAN : sent = TRUE
  OBVIOUS
<1>1. /\ server' \in [Servers -> Process]
      /\ \A q \in Servers : server'[q].at = server[q].at /\ server'[q].kind = server[q].kind
  <2>1. server \in [Servers -> Process]
    BY DEF ServerInv, ServerTypeOK, Process, Stands
  <2>2. server' = [server EXCEPT ![p].told = sent]
    OBVIOUS
  <2> DEFINE before == server[p]
             after == [before EXCEPT !.told = sent]
  <2>3. before \in Process
    BY <2>1
  <2>4. server' = [server EXCEPT ![p] = after]
    BY <2>2
  <2> HIDE DEF before
  <2>5. after \in Process /\ after.at = before.at /\ after.kind = before.kind
    BY <2>3 DEF Process
  <2> HIDE DEF after
  <2>6. /\ server' \in [Servers -> Process] /\ server'[p] = after
        /\ \A q \in Servers \ {p} : server'[q] = server[q]
    BY <2>1, <2>4, <2>5
  <2> QED BY <2>5, <2>6 DEF before
<1>2. \A q \in Servers \cup {NoServer} : Lives(q)' = Lives(q)
  BY <1>1 DEF Lives
<1>3. \A q \in Servers : KindOf(q)' = KindOf(q)
  BY <1>1 DEF KindOf
<1>4. ServerTypeOK'
  BY <1>1 DEF ServerInv, ServerTypeOK, ShellForm, ShellsOK, Process, Stands
<1>5. KnownServers'
  BY <1>1, <1>3 DEF ServerInv, ServerTypeOK, KnownServers, Lives
<1>6. ShellsOK'
  BY <1>2 DEF ServerInv, ShellsOK, ShellForm
<1>7. ASSUME ~overlapped PROVE OneServer'
  BY <1>1, <1>2, <1>3, <1>7 DEF ServerInv, OneServer
<1> QED BY <1>4, <1>5, <1>6, <1>7 DEF ServerInv

\* A process that a command starts is the only one of its kind, or an overlap.
LEMMA SpawnKeeps ==
  ASSUME ServerInv, NEW s \in Shells, NEW p \in Servers, NEW k \in Kinds, server[p] = Unborn,
         server' = [server EXCEPT ![p] = [kind |-> k, at |-> "spawned", told |-> FALSE]],
         shell' \in [Shells -> ShellForm], \A t \in Shells \ {s} : shell'[t] = shell[t],
         shell'[s].at # "rest" => shell'[s].todo # <<>>, shell'[s].pid = NoServer,
         overlapped' = (overlapped \/ IsUnsettled(k) \/ Lives(pidOf[k])),
         UNCHANGED <<pidOf, addressOf, setting>>
  PROVE  ServerInv'
<1> DEFINE born == [kind |-> k, at |-> "spawned", told |-> FALSE]
<1>1. born \in Process /\ born.at = "spawned" /\ born.kind = k
  BY DEF Process, Stands, Coming
<1>2. server' = [server EXCEPT ![p] = born]
  OBVIOUS
<1> HIDE DEF born
<1>3. /\ server' \in [Servers -> Process]
      /\ \A q \in Servers \ {p} : server'[q] = server[q]
      /\ server'[p] = born
      /\ server[p].at = "unborn"
  BY <1>1, <1>2 DEF ServerInv, ServerTypeOK, Process, Stands, Unborn
<1>4. \A q \in Servers \cup {NoServer} : q # p => Lives(q)' = Lives(q)
  BY <1>3 DEF Lives
<1>5. ServerTypeOK'
  BY <1>3 DEF ServerInv, ServerTypeOK, ShellForm, ShellsOK, Process, Stands
<1>6. KnownServers'
  <2>1. \A q \in Servers : server[q].at # "unborn" => server'[q].at # "unborn"
    BY <1>3
  <2>2. \A q \in Servers : server'[q].at # "unborn" => KindOf(q)' \in Kinds
    BY <1>1, <1>3 DEF ServerInv, KnownServers, KindOf
  <2>3. \A q \in Servers : server'[q].at \in {"clearing", "unbinding"} => KindOf(q)' = "unix"
    BY <1>1, <1>3 DEF ServerInv, KnownServers, KindOf
  <2>4. \A j \in Kinds : pidOf'[j] # NoServer => server'[pidOf'[j]].at # "unborn"
    BY <2>1 DEF ServerInv, ServerTypeOK, KnownServers
  <2>5. \A t \in Shells : shell'[t].pid # NoServer => server'[shell'[t].pid].at # "unborn"
    BY <2>1 DEF ServerInv, ServerTypeOK, KnownServers
  <2> QED BY <2>2, <2>3, <2>4, <2>5 DEF KnownServers
<1>7. ShellsOK'
  <2>1. \A t \in Shells \ {s} : shell[t].pid # p
    BY <1>3 DEF ServerInv, KnownServers, NoServer, Servers
  <2>2. \A t \in Shells \ {s} : Lives(shell[t].pid)' => Lives(shell[t].pid)
    BY <1>4, <2>1 DEF ServerInv, ShellsOK
  <2>3. ~Lives(shell[s].pid)'
    BY DEF Lives
  <2> QED BY <2>2, <2>3 DEF ServerInv, ShellsOK, ShellForm
<1>8. ASSUME ~overlapped' PROVE OneServer'
  <2>1. OneServer /\ ~IsUnsettled(k) /\ ~Lives(pidOf[k])
    BY <1>8 DEF ServerInv
  <2>2. \A q \in Servers : KindOf(q) = k => ~Lives(q)
    <3>1. SUFFICES ASSUME NEW q \in Servers, KindOf(q) = k, Lives(q) PROVE FALSE
      OBVIOUS
    <3>2. server[q].at \notin Coming \cup {"unbinding"}
      BY <2>1, <3>1 DEF IsUnsettled, KindOf
    <3>3. server[q].at \in Named
      BY <3>1, <3>2 DEF Lives, ServerInv, ServerTypeOK, Named, Coming
    <3> QED BY <2>1, <3>1, <3>3 DEF OneServer
  <2>3. \A q \in Servers \ {p} : KindOf(q)' = KindOf(q) /\ Lives(q)' = Lives(q)
    BY <1>3, <1>4 DEF KindOf
  <2>4. KindOf(p)' = k
    BY <1>1, <1>3 DEF KindOf
  <2>5. \A q, r \in Servers : Lives(q)' /\ Lives(r)' /\ KindOf(q)' = KindOf(r)' => q = r
    BY <2>1, <2>2, <2>3, <2>4 DEF OneServer
  <2>6. server'[p].at \notin Named /\ server'[p].at \notin Addressed
    BY <1>1, <1>3 DEF Named, Addressed
  <2>7. \A q \in Servers \ {p} : /\ server'[q].at \in Named => pidOf'[KindOf(q)'] = q
                                 /\ server'[q].at \in Addressed => addressOf'[KindOf(q)'] = q
    BY <1>3, <2>1, <2>3 DEF OneServer
  <2> QED BY <2>5, <2>6, <2>7 DEF OneServer
<1>9. overlapped' \in BOOLEAN
  BY DEF ServerInv, Lives, IsUnsettled
<1> QED BY <1>5, <1>6, <1>7, <1>8, <1>9 DEF ServerInv

\* The steps of the commands: the pid file, the signal, the wait and the new process.
LEMMA CommandSteps ==
  ASSUME ServerInv, NEW s \in Shells, ShellSteps(s)
  PROVE  ServerInv'
<1> USE DEF NoServer
<1>0. /\ shell \in [Shells -> ShellForm] /\ NoServer \notin Servers
      /\ shell[s].at # "rest" => shell[s].todo # <<>>
      /\ shell[s].at \notin {"killing", "polling"} => ~Lives(shell[s].pid)
      /\ shell[s].pid # NoServer => server[shell[s].pid].at # "unborn"
      /\ {pidOf, addressOf} \subseteq [Kinds -> Servers \cup {NoServer}]
      /\ overlapped \in BOOLEAN /\ ~Lives(NoServer)
  BY DEF ServerInv, ServerTypeOK, ShellsOK, KnownServers, ShellForm, Servers, Lives
<1>1. ASSUME NEW place \in ShellPlaces \ {"rest"}, shell[s].at # "rest", ShellGoes(s, place)
      PROVE  /\ shell' \in [Shells -> ShellForm] /\ shell'[s].at = place
             /\ shell'[s].todo = shell[s].todo /\ shell'[s].pid = shell[s].pid
             /\ \A t \in Shells \ {s} : shell'[t] = shell[t]
  BY <1>0, <1>1 DEF ShellGoes, ShellForm
<1>2. ASSUME shell[s].at # "rest", TaskDone(s)
      PROVE  /\ shell' \in [Shells -> ShellForm] /\ shell'[s].pid = NoServer
             /\ shell'[s].at \in {"rest", "next"}
             /\ shell'[s].at # "rest" => shell'[s].todo # <<>>
             /\ \A t \in Shells \ {s} : shell'[t] = shell[t]
  <2> DEFINE todo == shell[s].todo
             after == IF Len(todo) = 1 THEN AtRest
                      ELSE [todo |-> Tail(todo), at |-> "next", pid |-> NoServer]
  <2>1. todo \in Seq(Tasks) /\ todo # <<>>
    BY <1>0, <1>2 DEF ShellForm
  <2> HIDE DEF todo
  <2>2. Len(todo) # 1 => Tail(todo) \in Seq(Tasks) /\ Tail(todo) # <<>>
    <3>1. Tail(todo) \in Seq(Tasks) /\ Len(Tail(todo)) = Len(todo) - 1 /\ Len(todo) \in Nat
      BY <2>1, HeadTailProperties, LenProperties
    <3>2. Len(<<>>) = 0
      BY Zenon, EmptySeq
    <3>3. ASSUME Tail(todo) = <<>> PROVE Len(Tail(todo)) = 0
      BY <3>2, <3>3, Zenon
    <3> QED BY <3>1, <3>3
  <2>3. <<>> \in Seq(Tasks)
    OBVIOUS
  <2>4. /\ after \in ShellForm /\ after.pid = NoServer /\ after.at \in {"rest", "next"}
        /\ after.at # "rest" => after.todo # <<>>
    BY <2>2, <2>3 DEF ShellForm, ShellPlaces, AtRest
  <2>5. shell' = [shell EXCEPT ![s] = after]
    BY <1>2 DEF TaskDone, todo
  <2> HIDE DEF after
  <2> QED BY <1>0, <2>4, <2>5
<1>3. shell[s].at # "rest" => Of(s) \in Kinds
  <2>1. ASSUME NEW todo \in Seq(Tasks), todo # <<>> PROVE Head(todo) \in Tasks
    BY <2>1, HeadTailProperties
  <2>2. shell[s].at # "rest" => Task(s) \in Tasks
    BY <1>0, <2>1 DEF ShellForm, Task
  <2> QED BY <2>2 DEF Of, Tasks
<1>4. ASSUME NEW todo \in Asked, AsksFor(s, todo) PROVE ServerInv'
  <2>1. todo \in Seq(Tasks) /\ todo # <<>>
    BY ServersAssumption
  <2>2. /\ shell' \in [Shells -> ShellForm]
        /\ shell'[s] = [todo |-> todo, at |-> "next", pid |-> NoServer]
        /\ \A t \in Shells \ {s} : shell'[t] = shell[t]
    BY <1>0, <1>4, <2>1 DEF AsksFor, ShellForm, ShellPlaces
  <2>3. UNCHANGED <<server, pidOf, addressOf, overlapped, setting>>
    BY <1>4 DEF AsksFor, ByServers
  <2> QED BY <1>0, <2>1, <2>2, <2>3, CommandKeeps
<1>5. ASSUME shell' \in [Shells -> ShellForm], \A t \in Shells \ {s} : shell'[t] = shell[t],
             shell'[s].at # "rest" => shell'[s].todo # <<>>,
             shell'[s].at \notin {"killing", "polling"} => ~Lives(shell'[s].pid),
             shell'[s].pid # NoServer => server[shell'[s].pid].at # "unborn",
             overlapped' \in BOOLEAN, overlapped => overlapped',
             UNCHANGED <<server, pidOf, addressOf, setting>>
      PROVE  ServerInv'
  BY <1>0, <1>5, CommandKeeps
<1>6. CASE StartJudges(s)
  <2>1. /\ shell[s].at = "next"
        /\ ShellGoes(s, "rejudging") \/ ShellGoes(s, "spawning") \/ TaskDone(s)
        /\ overlapped' \in BOOLEAN /\ (overlapped => overlapped')
        /\ UNCHANGED <<server, pidOf, addressOf, setting>>
    BY <1>0, <1>6 DEF StartJudges, ShellAt, ByServers, Lives, IsUnsettled
  <2>2. CASE TaskDone(s)
    BY <1>0, <1>2, <1>5, <2>1, <2>2
  <2>3. ASSUME NEW place \in {"rejudging", "spawning"}, ShellGoes(s, place) PROVE ServerInv'
    BY <1>0, <1>1, <1>5, <2>1, <2>3 DEF ShellPlaces
  <2> QED BY <2>1, <2>2, <2>3
<1>7. CASE Rejudges(s)
  <2>1. PICK place \in {"stalePid", "staleSocket"} : ShellGoes(s, place)
    BY <1>7 DEF Rejudges
  <2>2. /\ shell[s].at = "rejudging"
        /\ UNCHANGED <<server, pidOf, addressOf, setting, overlapped>>
    BY <1>7 DEF Rejudges, ShellAt, ByServers
  <2> QED BY <1>0, <1>1, <1>5, <2>1, <2>2 DEF ShellPlaces
<1>8. CASE RemovesPidFile(s)
  <2>1. /\ shell[s].at \in {"stalePid", "removingPid"} /\ ~Lives(shell[s].pid)
        /\ pidOf' = [pidOf EXCEPT ![Of(s)] = NoServer]
        /\ overlapped' = (overlapped \/ TakesFrom(s, pidOf[Of(s)]))
        /\ UNCHANGED <<server, addressOf, setting>>
    BY <1>0, <1>8 DEF RemovesPidFile, ByServers
  <2>2. PICK place \in {"staleSocket", "removingSocket", "done"} :
          IF place = "done" THEN TaskDone(s) ELSE ShellGoes(s, place)
    BY <1>8 DEF RemovesPidFile
  <2>3. /\ shell' \in [Shells -> ShellForm] /\ \A t \in Shells \ {s} : shell'[t] = shell[t]
        /\ shell'[s].at # "rest" => shell'[s].todo # <<>>
        /\ shell'[s].pid \in {NoServer, shell[s].pid}
    <3>1. CASE place = "done"
      BY <1>2, <2>1, <2>2, <3>1
    <3>2. CASE place # "done"
      BY <1>0, <1>1, <2>1, <2>2, <3>2 DEF ShellPlaces
    <3> QED BY <3>1, <3>2
  <2>4. overlapped' \in BOOLEAN /\ (overlapped => overlapped')
    BY <1>0, <2>1 DEF TakesFrom, Lives
  <2>5. ~overlapped' => ~Lives(pidOf[Of(s)])
    BY <2>1 DEF TakesFrom
  <2>6. /\ {pidOf', addressOf'} \subseteq [Kinds -> Servers \cup {NoServer}]
        /\ \A k \in Kinds : pidOf'[k] \in {pidOf[k], NoServer}
        /\ ~overlapped' => \A k \in Kinds : /\ Lives(pidOf[k]) => pidOf'[k] = pidOf[k]
                                            /\ Lives(addressOf[k]) => addressOf'[k] = addressOf[k]
    BY <1>0, <1>3, <2>1, <2>5
  <2> QED BY <1>0, <2>1, <2>3, <2>4, <2>6, CommandKeeps
<1>9. CASE RemovesSocketFile(s)
  <2>1. /\ shell[s].at \in {"staleSocket", "removingSocket"} /\ ~Lives(shell[s].pid)
        /\ addressOf' = [addressOf EXCEPT !["unix"] = NoServer]
        /\ overlapped' = (overlapped \/ TakesFrom(s, addressOf["unix"]))
        /\ UNCHANGED <<server, pidOf, setting>>
    BY <1>0, <1>9 DEF RemovesSocketFile, ByServers
  <2>2. TaskDone(s) \/ ShellGoes(s, "spawning")
    BY <1>9 DEF RemovesSocketFile
  <2>3. /\ shell' \in [Shells -> ShellForm] /\ \A t \in Shells \ {s} : shell'[t] = shell[t]
        /\ shell'[s].at # "rest" => shell'[s].todo # <<>>
        /\ shell'[s].pid \in {NoServer, shell[s].pid}
    <3>1. CASE TaskDone(s)
      BY <1>2, <2>1, <3>1
    <3>2. CASE ShellGoes(s, "spawning")
      BY <1>0, <1>1, <2>1, <3>2 DEF ShellPlaces
    <3> QED BY <2>2, <3>1, <3>2
  <2>4. overlapped' \in BOOLEAN /\ (overlapped => overlapped')
    BY <1>0, <2>1 DEF TakesFrom, Lives
  <2>5. ~overlapped' => ~Lives(addressOf["unix"])
    BY <2>1 DEF TakesFrom
  <2>6. /\ {pidOf', addressOf'} \subseteq [Kinds -> Servers \cup {NoServer}]
        /\ \A k \in Kinds : pidOf'[k] \in {pidOf[k], NoServer}
        /\ ~overlapped' => \A k \in Kinds : /\ Lives(pidOf[k]) => pidOf'[k] = pidOf[k]
                                            /\ Lives(addressOf[k]) => addressOf'[k] = addressOf[k]
    BY <1>0, <2>1, <2>5
  <2> QED BY <1>0, <2>1, <2>3, <2>4, <2>6, CommandKeeps
<1>10. CASE SpawnsServer(s)
  <2>1. PICK p \in Servers :
          /\ server[p] = Unborn
          /\ server' = [server EXCEPT ![p] = [kind |-> Of(s), at |-> "spawned", told |-> FALSE]]
    BY <1>10 DEF SpawnsServer
  <2>2. /\ shell[s].at = "spawning" /\ TaskDone(s)
        /\ overlapped' = (overlapped \/ IsUnsettled(Of(s)) \/ Lives(pidOf[Of(s)]))
        /\ UNCHANGED <<pidOf, addressOf, setting>>
    BY <1>10 DEF SpawnsServer, ShellAt, ByServers
  <2>3. Of(s) \in Kinds
    BY <1>3, <2>2
  <2> QED BY <1>2, <2>1, <2>2, <2>3, SpawnKeeps
<1>11. CASE StopJudges(s)
  <2> DEFINE pid == pidOf[Of(s)]
  <2>1. shell[s].at = "next" /\ UNCHANGED <<server, pidOf, addressOf, setting, overlapped>>
    BY <1>11 DEF StopJudges, ShellAt, ByServers
  <2>2. pid \in Servers \cup {NoServer} /\ (pid # NoServer => server[pid].at # "unborn")
    BY <1>0, <1>3, <2>1 DEF ServerInv, KnownServers
  <2>3. \/ TaskDone(s)
        \/ \E place \in {"killing", "removingPid", "removingSocket"} :
             /\ place # "killing" => ~Lives(pid)
             /\ shell' = [shell EXCEPT ![s].at = place, ![s].pid = pid]
    BY <1>0, <1>11 DEF StopJudges
  <2> HIDE DEF pid
  <2>4. CASE TaskDone(s)
    BY <1>0, <1>2, <1>5, <2>1, <2>4
  <2>5. ASSUME NEW place \in {"killing", "removingPid", "removingSocket"},
               place # "killing" => ~Lives(pid),
               shell' = [shell EXCEPT ![s].at = place, ![s].pid = pid]
        PROVE  ServerInv'
    <3>1. /\ shell' \in [Shells -> ShellForm] /\ \A t \in Shells \ {s} : shell'[t] = shell[t]
          /\ shell'[s].at = place /\ shell'[s].pid = pid /\ shell'[s].todo = shell[s].todo
      BY <1>0, <2>2, <2>5 DEF ShellForm, ShellPlaces
    <3> QED BY <1>0, <1>5, <2>1, <2>2, <2>5, <3>1
  <2> QED BY <2>3, <2>4, <2>5
<1>12. CASE Terminates(s)
  <2>1. shell[s].at = "killing" /\ UNCHANGED <<pidOf, addressOf, setting, overlapped>>
    BY <1>12 DEF Terminates, ShellAt, ByServers
  <2>2. CASE Lives(shell[s].pid)
    <3>1. shell[s].pid \in Servers
      BY <1>0, <2>2 DEF ShellForm
    <3>2. server' = [server EXCEPT ![shell[s].pid].told = TRUE] /\ ShellGoes(s, "polling")
      BY <1>12, <2>2 DEF Terminates
    <3> QED BY <1>0, <1>1, <2>1, <2>2, <3>1, <3>2, TellsKeeps DEF ShellPlaces
  <2>3. CASE ~Lives(shell[s].pid)
    <3>1. TaskDone(s) /\ UNCHANGED server
      BY <1>12, <2>3 DEF Terminates
    <3> QED BY <1>0, <1>2, <1>5, <2>1, <3>1
  <2> QED BY <2>2, <2>3
<1>13. CASE SeesItGone(s)
  <2>1. /\ shell[s].at = "polling" /\ ~Lives(shell[s].pid) /\ ShellGoes(s, "removingPid")
        /\ UNCHANGED <<server, pidOf, addressOf, setting, overlapped>>
    BY <1>13 DEF SeesItGone, ShellAt, ByServers
  <2> QED BY <1>0, <1>1, <1>5, <2>1 DEF ShellPlaces
<1>14. CASE StopsWaiting(s)
  <2>1. /\ shell[s].at = "polling" /\ TaskDone(s)
        /\ UNCHANGED <<server, pidOf, addressOf, setting, overlapped>>
    BY <1>14 DEF StopsWaiting, ShellAt, ByServers
  <2> QED BY <1>0, <1>2, <1>5, <2>1
<1> QED BY <1>4, <1>6, <1>7, <1>8, <1>9, <1>10, <1>11, <1>12, <1>13, <1>14 DEF ShellSteps

\* Before the first command there are no servers.
LEMMA NoServersInitially == ServerInit => ServerInv
<1> SUFFICES ASSUME ServerInit PROVE ServerInv
  OBVIOUS
<1>1. /\ server = [p \in Servers |-> Unborn] /\ Unborn.at = "unborn" /\ Unborn \in Process
      /\ \A p \in Servers : server[p].at = "unborn"
  BY DEF ServerInit, Unborn, Process, Stands
<1>2. \A p \in Servers \cup {NoServer} : ~Lives(p)
  BY <1>1 DEF Lives
<1>3. AtRest \in ShellForm /\ AtRest.at = "rest" /\ AtRest.pid = NoServer
  BY DEF AtRest, ShellForm, ShellPlaces
<1>4. ServerTypeOK
  BY <1>1, <1>3 DEF ServerInit, ServerTypeOK, Process, Stands
<1>5. KnownServers /\ ShellsOK
  BY <1>1, <1>2, <1>3 DEF ServerInit, KnownServers, ShellsOK, ShellForm
<1>6. OneServer
  BY <1>1, <1>2 DEF OneServer, Named, Addressed
<1> QED BY <1>4, <1>5, <1>6 DEF ServerInv, ServerInit

\* ServerInv is an inductive invariant of servers and commands.
THEOREM ServerInvariant == ServerSpec => []ServerInv
<1>1. ASSUME ServerInv, NEW to \in {"on", "off", "broken"}, EditsSetting(to) PROVE ServerInv'
  BY <1>1 DEF EditsSetting, ServerInv, ServerTypeOK, KnownServers, ShellsOK, OneServer, KindOf, Lives
<1>2. ServerInv /\ UNCHANGED serverVars => ServerInv'
  BY DEF serverVars, ServerInv, ServerTypeOK, KnownServers, ShellsOK, OneServer, KindOf, Lives
<1>3. ServerInv /\ [ServerNext]_serverVars => ServerInv'
  BY <1>1, <1>2, ProcessSteps, CommandSteps DEF ServerNext
<1> QED BY <1>3, NoServersInitially, PTL DEF ServerSpec

\* A server that serves is the one that its pid file names and its address leads to,
\* through kills, stops that gave up waiting, edits of the configuration and commands at
\* once, until a command meets a server that comes or goes (api.rs, cmd_start, cmd_stop,
\* cmd_run, cmd_ssl_run).
THEOREM ServersStayFound == ServerSpec => []ServersAreFound
<1>1. ServerInv => ServersAreFound
  BY DEF ServerInv, OneServer, ServersAreFound, Named, Addressed
<1> QED BY <1>1, ServerInvariant, PTL

\* The processes, their files and the commands keep their types.
THEOREM ServerTypeCorrect == ServerSpec => []ServerTypeOK
<1>1. ServerInv => ServerTypeOK
  BY DEF ServerInv
<1> QED BY <1>1, ServerInvariant, PTL

\* The connections, their requests and the counters keep their types.
THEOREM LinkTypeCorrect == LinkSpec => []LinkTypeOK
<1>1. LinkInv => LinkTypeOK
  BY DEF LinkInv
<1> QED BY <1>1, LinkInvariant, PTL

-----------------------------------------------------------------------------
(* The parts together (MCTradingApi)                                        *)

\* A behaviour of the whole is a behaviour of every part: the part that steps takes its own
\* steps and the others stutter. What is proved of a part so holds of the whole.
THEOREM PartsKeepTheirSpecs ==
  Spec => /\ SyncSpec /\ ExitSpec /\ WashSpec
          /\ DaySpec /\ MatchingSpec /\ TaxSpec
          /\ ApiSpec /\ ServerSpec /\ LinkSpec
<1>1. Spec => SyncSpec
  <2>1. PartInit => SyncInit
    BY DEF PartInit
  <2>2. [PartNext]_allVars => [SyncNext]_syncVars
    BY DEF PartNext, allVars, KeepsSync
  <2> QED BY <2>1, <2>2, PTL DEF Spec, SyncSpec
<1>2. Spec => ExitSpec
  <2>1. PartInit => ExitInit
    BY DEF PartInit
  <2>2. [PartNext]_allVars => [ExitNext]_exitVars
    BY DEF PartNext, allVars, KeepsExit
  <2> QED BY <2>1, <2>2, PTL DEF Spec, ExitSpec
<1>3. Spec => WashSpec
  <2>1. PartInit => WashInit
    BY DEF PartInit
  <2>2. [PartNext]_allVars => [WashNext]_washVars
    BY DEF PartNext, allVars, KeepsWash
  <2> QED BY <2>1, <2>2, PTL DEF Spec, WashSpec
<1>4. Spec => DaySpec
  <2>1. PartInit => DayInit
    BY DEF PartInit
  <2>2. [PartNext]_allVars => [DayNext]_dayVars
    BY DEF PartNext, allVars, KeepsDays
  <2> QED BY <2>1, <2>2, PTL DEF Spec, DaySpec
<1>5. Spec => MatchingSpec
  <2>1. PartInit => MatchingInit
    BY DEF PartInit
  <2>2. [PartNext]_allVars => [Traded]_trades
    BY DEF PartNext, allVars, KeepsMatching
  <2> QED BY <2>1, <2>2, PTL DEF Spec, MatchingSpec
<1>6. Spec => TaxSpec
  <2>1. PartInit => TaxInit
    BY DEF PartInit
  <2>2. [PartNext]_allVars => [TaxNext]_taxVars
    BY DEF PartNext, allVars, KeepsTax
  <2> QED BY <2>1, <2>2, PTL DEF Spec, TaxSpec
<1>7. Spec => ApiSpec
  <2>1. PartInit => ApiInit
    BY DEF PartInit
  <2>2. [PartNext]_allVars => [ApiNext]_apiVars
    BY DEF PartNext, allVars, KeepsApi
  <2> QED BY <2>1, <2>2, PTL DEF Spec, ApiSpec
<1>8. Spec => ServerSpec
  <2>1. PartInit => ServerInit
    BY DEF PartInit
  <2>2. [PartNext]_allVars => [ServerNext]_serverVars
    BY DEF PartNext, allVars, KeepsServers
  <2> QED BY <2>1, <2>2, PTL DEF Spec, ServerSpec
<1>9. Spec => LinkSpec
  <2>1. PartInit => LinkInit
    BY DEF PartInit
  <2>2. [PartNext]_allVars => [LinkNext]_linkVars
    BY DEF PartNext, allVars, KeepsLinks
  <2> QED BY <2>1, <2>2, PTL DEF Spec, LinkSpec
<1> QED BY <1>1, <1>2, <1>3, <1>4, <1>5, <1>6, <1>7, <1>8, <1>9

\* The state of every part keeps the forms that the code's structures and tables give it, for
\* any values of the constants (TypesOK of the run trading_api).
THEOREM TypesStayCorrect == Spec => []TypesOK
<1>1. Spec => []SyncTypeOK
  <2>1. Spec => SyncSpec
    BY PartsKeepTheirSpecs
  <2> QED BY <2>1, SyncTypeCorrect, PTL
<1>2. Spec => []ExitTypeOK
  <2>1. Spec => ExitSpec
    BY PartsKeepTheirSpecs
  <2> QED BY <2>1, ExitTypeCorrect, PTL
<1>3. Spec => []WashTypeOK
  <2>1. Spec => WashSpec
    BY PartsKeepTheirSpecs
  <2> QED BY <2>1, WashTypeCorrect, PTL
<1>4. Spec => []DayTypeOK
  <2>1. Spec => DaySpec
    BY PartsKeepTheirSpecs
  <2> QED BY <2>1, DayTypeCorrect, PTL
<1>5. Spec => []MatchingTypeOK
  <2>1. Spec => MatchingSpec
    BY PartsKeepTheirSpecs
  <2> QED BY <2>1, MatchingTypeCorrect, PTL
<1>6. Spec => []TaxTypeOK
  <2>1. Spec => TaxSpec
    BY PartsKeepTheirSpecs
  <2> QED BY <2>1, YearTypeCorrect, PTL
<1>7. Spec => []ApiTypeOK
  <2>1. Spec => ApiSpec
    BY PartsKeepTheirSpecs
  <2> QED BY <2>1, ApiTypeCorrect, PTL
<1>8. Spec => []ServerTypeOK
  <2>1. Spec => ServerSpec
    BY PartsKeepTheirSpecs
  <2> QED BY <2>1, ServerTypeCorrect, PTL
<1>9. Spec => []LinkTypeOK
  <2>1. Spec => LinkSpec
    BY PartsKeepTheirSpecs
  <2> QED BY <2>1, LinkTypeCorrect, PTL
<1>10. ASSUME SyncTypeOK, ExitTypeOK, WashTypeOK, DayTypeOK, MatchingTypeOK, TaxTypeOK,
              ApiTypeOK, ServerTypeOK, LinkTypeOK
       PROVE  TypesOK
  BY <1>10 DEF TypesOK
<1> QED BY <1>1, <1>2, <1>3, <1>4, <1>5, <1>6, <1>7, <1>8, <1>9, <1>10, PTL
=============================================================================
