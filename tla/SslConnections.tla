---------------------------- MODULE SslConnections ----------------------------
(* Connections of the TLS API server (src/api.rs): the accept loops, one for *)
(* each bound address of HTTP/3 over UDP and of HTTPS over TCP, the counter  *)
(* of each transport, the tasks of the connections and of their requests,    *)
(* and the places of the realtime streams.  The loops run at once and share  *)
(* the counters.  An HTTPS connection has one request and lasts as long as   *)
(* it; an HTTP/3 connection has a task for each of its requests, of which    *)
(* many are under way at once and outlive it.  What a command request does   *)
(* is in module ApiRequests; here the task is not dropped when its client    *)
(* leaves.  A panic of a task, which gives nothing back, is left out.        *)
EXTENDS Naturals, FiniteSets

CONSTANTS Clients,     \* connections that may be open at once
          Handlers,    \* requests that may be under way at once
          Stacks,      \* address families that are enabled
          MaxOpen,     \* DEF_SSL_TCP/UDP_MAX_ACTIVE_CONNECTIONS
          MaxStreams,  \* DEF_REALTIME_MAX_ACTIVE_STREAMS
          MaxBeats     \* events of a stream until it is closed

ASSUME ConnectionsAssumption ==
  /\ IsFiniteSet(Clients) /\ IsFiniteSet(Handlers)
  /\ {MaxOpen, MaxStreams, MaxBeats} \subseteq Nat \ {0}

Transports == {"udp", "tcp"}
Loops == Transports \X Stacks

VARIABLES up,        \* the accept loops that run
          stopping,  \* TERMINATE, or the server was disabled
          opened,    \* API_SSL_TCP_ACTIVE, API_SSL_UDP_ACTIVE
          streaming, \* realtime_active_streams
          link,      \* each connection: its loop and where it stands
          work       \* each request: its connection, where it stands, a stream's beats

linkVars == <<up, stopping, opened, streaming, link, work>>

NoLink == [at |-> "none", loop |-> <<"none", "none">>]
NoWork == [of |-> "none", at |-> "none", beats |-> 0]
Via(c) == link[c].loop[1]
LinkAt(c) == link[c].at
LinkGoes(c, place) == link' = [link EXCEPT ![c].at = place]
HasRequest(c) == \E r \in Handlers : work[r].at # "none" /\ work[r].of = c
WorkGoes(r, c, place) == work' = [work EXCEPT ![r] = [of |-> c, at |-> place, beats |-> 0]]

(* The addresses that could be bound: without any for UDP the server ends,  *)
(* without any for TCP it goes on.                                          *)
LinkInit ==
  /\ up \in {loops \in SUBSET Loops : \E s \in Stacks : <<"udp", s>> \in loops}
  /\ stopping = FALSE
  /\ opened = [t \in Transports |-> 0]
  /\ streaming = 0
  /\ link = [c \in Clients |-> NoLink]
  /\ work = [r \in Handlers |-> NoWork]

-----------------------------------------------------------------------------
(* The accept loops                                                         *)

Refusing(loop) == \E d \in Clients : link[d].loop = loop /\ LinkAt(d) = "overLimit"

\* The counter is raised before it is compared, and a task goes on with the connection
\* while its loop accepts the next one.  Its name is free when the last
\* request of the connection that had it has ended.
AcceptsLink(c, loop) ==
  /\ loop \in up /\ ~Refusing(loop)
  /\ LinkAt(c) = "none" /\ ~HasRequest(c)
  /\ opened' = [opened EXCEPT ![loop[1]] = @ + 1]
  /\ link' = [link EXCEPT ![c] =
       [at |-> IF opened'[loop[1]] > MaxOpen THEN "overLimit" ELSE "handshake", loop |-> loop]]
  /\ UNCHANGED <<up, stopping, streaming, work>>

RefusesLink(c) ==
  /\ LinkAt(c) = "overLimit"
  /\ opened' = [opened EXCEPT ![Via(c)] = @ - 1]
  /\ link' = [link EXCEPT ![c] = NoLink]
  /\ UNCHANGED <<up, stopping, streaming, work>>

\* The task of the connection begins with the handshake, which may fail.
Handshakes(c) ==
  /\ LinkAt(c) = "handshake"
  /\ \E place \in {"open", "ending"} : LinkGoes(c, place)
  /\ UNCHANGED <<up, stopping, opened, streaming, work>>

\* An error of accept() ends the loop of a TCP address; the server goes on.
LoopFails(loop) ==
  /\ loop \in up /\ loop[1] = "tcp"
  /\ up' = up \ {loop}
  /\ UNCHANGED <<stopping, opened, streaming, link, work>>

Stopped ==
  /\ ~stopping
  /\ stopping' = TRUE
  /\ UNCHANGED <<up, opened, streaming, link, work>>

\* Each loop sees it by itself.  The connections over UDP are closed.
LoopStops(loop) ==
  /\ stopping /\ loop \in up /\ ~Refusing(loop)
  /\ up' = up \ {loop}
  /\ link' = [c \in Clients |->
       IF loop[1] = "udp" /\ link[c].loop = loop /\ LinkAt(c) \in {"handshake", "open"}
       THEN [link[c] EXCEPT !.at = "ending"] ELSE link[c]]
  /\ UNCHANGED <<stopping, opened, streaming, work>>

-----------------------------------------------------------------------------
(* Requests                                                                 *)

\* A connection over TCP has one request.
TakesRequest(c) == LinkAt(c) = "open" /\ (Via(c) = "tcp" => ~HasRequest(c))

\* Over TCP the connection ends with its request.
AfterRequest(c) == LinkGoes(c, IF Via(c) = "tcp" THEN "ending" ELSE LinkAt(c))

\* An answer that needs no place: a login page, a file, a refusal for want of
\* credentials, of a place in the rate window or in the body's limit.
AnswersAtOnce(c) ==
  /\ TakesRequest(c) /\ AfterRequest(c)
  /\ UNCHANGED <<up, stopping, opened, streaming, work>>

AsksCommand(c, r) ==
  /\ TakesRequest(c) /\ work[r] = NoWork
  /\ WorkGoes(r, c, "asking")
  /\ UNCHANGED <<up, stopping, opened, streaming, link>>

\* handle_remote_api_request() ends; its client may have left.
CommandAnswered(r) ==
  /\ work[r].at = "asking"
  /\ work' = [work EXCEPT ![r] = NoWork]
  /\ AfterRequest(work[r].of)
  /\ UNCHANGED <<up, stopping, opened, streaming>>

\* GET /events/stream, by ApiRealtimeStreamGuard::try_new().
AsksStream(c, r) ==
  /\ TakesRequest(c) /\ work[r] = NoWork
  /\ IF streaming < MaxStreams
     THEN streaming' = streaming + 1 /\ WorkGoes(r, c, "streaming") /\ UNCHANGED link
     ELSE AfterRequest(c) /\ UNCHANGED <<streaming, work>>
  /\ UNCHANGED <<up, stopping, opened>>

\* An event is sent every fifteen seconds; a client that has left is noticed by it.
Beats(r) ==
  /\ work[r].at = "streaming"
  /\ work[r].beats < MaxBeats /\ LinkAt(work[r].of) = "open"
  /\ work' = [work EXCEPT ![r].beats = @ + 1]
  /\ UNCHANGED <<up, stopping, opened, streaming, link>>

\* The last event, the server's end, or a write that fails: the guard is dropped.
StreamEnds(r) ==
  /\ work[r].at = "streaming"
  /\ stopping \/ work[r].beats = MaxBeats \/ LinkAt(work[r].of) # "open"
  /\ work' = [work EXCEPT ![r] = NoWork]
  /\ streaming' = streaming - 1
  /\ AfterRequest(work[r].of)
  /\ UNCHANGED <<up, stopping, opened>>

-----------------------------------------------------------------------------
(* The end of a connection                                                  *)

\* A client leaves: over UDP the task of the connection ends, those of its requests
\* go on; over TCP it is noticed when something is written.
ClientGoes(c) ==
  /\ LinkAt(c) = "open"
  /\ LinkGoes(c, IF Via(c) = "udp" \/ ~HasRequest(c) THEN "ending" ELSE "left")
  /\ UNCHANGED <<up, stopping, opened, streaming, work>>

\* Mutant of LinkEnds: the counter is lowered only where no request is left.
LinkEndsWithRequest(c) ==
  /\ LinkAt(c) = "ending"
  /\ opened' = IF HasRequest(c) THEN opened ELSE [opened EXCEPT ![Via(c)] = @ - 1]
  /\ link' = [link EXCEPT ![c] = NoLink]
  /\ UNCHANGED <<up, stopping, streaming, work>>

\* However the connection's task ended, its place is given back.
LinkEnds(c) ==
  /\ LinkAt(c) = "ending"
  /\ opened' = [opened EXCEPT ![Via(c)] = @ - 1]
  /\ link' = [link EXCEPT ![c] = NoLink]
  /\ UNCHANGED <<up, stopping, streaming, work>>

LinkSteps(c) ==
  \/ \E loop \in Loops : AcceptsLink(c, loop)
  \/ RefusesLink(c) \/ Handshakes(c)
  \/ AnswersAtOnce(c)
  \/ \E r \in Handlers : AsksCommand(c, r) \/ AsksStream(c, r)
  \/ ClientGoes(c) \/ LinkEnds(c)

WorkSteps(r) == CommandAnswered(r) \/ Beats(r) \/ StreamEnds(r)

LinkNext ==
  \/ \E c \in Clients : LinkSteps(c)
  \/ \E r \in Handlers : WorkSteps(r)
  \/ \E loop \in Loops : LoopFails(loop) \/ LoopStops(loop)
  \/ Stopped

LinkSpec == LinkInit /\ [][LinkNext]_linkVars

-----------------------------------------------------------------------------
LinkTypeOK ==
  /\ up \subseteq Loops /\ stopping \in BOOLEAN
  /\ opened \in [Transports -> Nat] /\ streaming \in Nat
  /\ \A c \in Clients :
       LinkAt(c) \in {"none", "handshake", "overLimit", "open", "left", "ending"}
  /\ work \in [Handlers -> [of : Clients \cup {"none"}, at : {"none", "asking", "streaming"},
                            beats : 0 .. MaxBeats]]

LinksVia(t) == {c \in Clients : LinkAt(c) # "none" /\ Via(c) = t}
OverLimit(t) == {c \in LinksVia(t) : LinkAt(c) = "overLimit"}
Streams == {r \in Handlers : work[r].at = "streaming"}

\* Each counter is the number of those who hold a place, whatever way a connection,
\* its requests and its streams came and ended, and in whatever order: no place is
\* lost or given back twice.  Neither limit is passed by those who are served
\* (api.rs, run_h3_endpoint_loop, run_tcp_https_accept_loop, ApiRealtimeStreamGuard).
PlacesAreExact ==
  /\ \A t \in Transports :
       /\ opened[t] = Cardinality(LinksVia(t))
       /\ Cardinality(LinksVia(t) \ OverLimit(t)) <= MaxOpen
  /\ streaming = Cardinality(Streams) /\ streaming <= MaxStreams
=============================================================================
