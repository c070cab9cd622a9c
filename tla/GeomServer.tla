----------------------------- MODULE GeomServer ------------------------------
(***************************************************************************)
(* The geometry server (src/server/geom_server.cpp): one loop that reads a *)
(* frame, dispatches it against the session's bodies and writes a reply,   *)
(* with a client that may send further calls before it reads the replies.  *)
(* Bodies are named as in Session; what a body is made of belongs to other *)
(* modules.                                                                *)
(***************************************************************************)
EXTENDS JsonRpc, Streams, FiniteSets

CONSTANTS
  Framing,      \* jsonrpc::Framing of the transport
  Calls,        \* the calls the client may make
  MaxRequests,  \* bound: frames the client sends
  PipeSize,     \* replies the output pipe holds while nobody reads, 0 when
                \* one reply is larger than the pipe
  Notify        \* calls the client may also send without an id

ASSUME FramingAssumption == Framing \in Framings
ASSUME CallsAssumption ==
  /\ Notify \subseteq Calls
  /\ \A c \in Calls : c.method = "eval" => c.built \in Nat
ASSUME MaxRequestsAssumption == MaxRequests \in Nat
ASSUME PipeSizeAssumption == PipeSize \in Nat

VARIABLES
  bodies,    \* bodies_
  next_id,   \* next_id_
  status,    \* "running", what Server::run() returned, or "Killed" by SIGPIPE
  input,     \* frames on their way to the server
  closed,    \* has the client closed its end?
  output,    \* replies on their way to the client, the last perhaps still
             \* being written
  reading,   \* is the client's reading end open?
  awaiting,  \* the client: well-formed requests sent and not answered, in order
  known,     \* the client: the session as the replies tell it
  reply,     \* the client: the last reply
  sent       \* frames sent so far

server == <<bodies, next_id, status>>
client == <<awaiting, known, reply, sent>>
vars == <<bodies, next_id, status, input, closed, output, reading,
          awaiting, known, reply, sent>>

AllRequests == [n : 1..MaxRequests, id : 0..MaxRequests, call : Calls]

BrokenFrame(kind) == [kind |-> kind, msg |-> [n |-> 0]]
Frames == {[kind |-> "message", msg |-> r] : r \in AllRequests}
          \cup {BrokenFrame(k) : k \in BadKinds(Framing)}

NoBodies == [i \in {} |-> <<0, 0>>]

Init ==
  /\ bodies = NoBodies
  /\ next_id = 1
  /\ status = "running"
  /\ input = <<>>
  /\ closed = FALSE
  /\ output = <<>>
  /\ reading = TRUE
  /\ awaiting = <<>>
  /\ known = NoBodies
  /\ reply = [id |-> 0, error |-> "none", bodies |-> <<>>, count |-> 0]
  /\ sent = 0

------------------------------------------------------------------------------
(* The server *)

\* unordered_map::emplace: an entry already there keeps its value.
Emplace(map, id, body) ==
  [i \in DOMAIN map \cup {id} |-> IF i \in DOMAIN map THEN map[i] ELSE body]

\* Server::add and the primitives, count times in a row from map and next.
AddAll(map, next, n, count) ==
  LET ids == next .. next + count - 1
  IN  [i \in DOMAIN map \cup ids |->
         IF i \in DOMAIN map THEN map[i] ELSE <<n, i - next + 1>>]

\* Is the server out of its last flush()?  A reply that no longer fits in the
\* pipe keeps it there until the client has read enough.
Writable == Len(output) <= PipeSize

\* Writing to a pipe whose reading end is closed: SIGPIPE, for which no entry
\* point installs a handler, or where it is ignored a failed stream.
WriteToClosed == status' \in {status, "Killed"}

\* write_message(): its Status is ignored, so a failed write loses the reply.
Write(r, err, ids, count) ==
  \/ /\ reading
     /\ output' = Append(output, [id |-> r.id, error |-> err,
                                  bodies |-> ids, count |-> count])
     /\ UNCHANGED status
  \/ /\ ~reading
     /\ WriteToClosed
     /\ UNCHANGED output

\* Mutant of Error: a refused call is not answered.
ErrorUnanswered(r, err) == UNCHANGED <<bodies, next_id, status, output>>

Result(r) == Write(r, "none", <<>>, 0)
Error(r, err) == Write(r, err, <<>>, 0) /\ UNCHANGED <<bodies, next_id>>

\* gmk.version, gmk.lang.parse and gmk.session.info
Info(r) ==
  /\ r.call.method = "info"
  /\ Write(r, "none", <<>>, Cardinality(DOMAIN bodies))
  /\ UNCHANGED <<bodies, next_id>>

\* Mutants of Delete: a missing body counts as deleted, and the id of a
\* deleted body is handed out again.
DeleteIdempotent(r) ==
  /\ r.call.method = "delete"
  /\ bodies' = [i \in DOMAIN bodies \ {r.call.id} |-> bodies[i]]
  /\ Result(r)
  /\ UNCHANGED next_id

DeleteRecyclesId(r) ==
  /\ r.call.method = "delete"
  /\ r.call.id \in DOMAIN bodies
  /\ bodies' = [i \in DOMAIN bodies \ {r.call.id} |-> bodies[i]]
  /\ next_id' = r.call.id
  /\ Result(r)

Delete(r) ==
  /\ r.call.method = "delete"
  /\ \/ /\ r.call.id \notin DOMAIN bodies
        /\ Error(r, "InvalidParams")
     \/ /\ r.call.id \in DOMAIN bodies
        /\ bodies' = [i \in DOMAIN bodies \ {r.call.id} |-> bodies[i]]
        /\ Result(r)
        /\ UNCHANGED next_id

\* Mutant of Clear: the bodies stay.
ClearCounterOnly(r) ==
  /\ r.call.method = "clear"
  /\ next_id' = 1
  /\ Result(r)
  /\ UNCHANGED bodies

Clear(r) ==
  /\ r.call.method = "clear"
  /\ bodies' = NoBodies
  /\ next_id' = 1
  /\ Result(r)

\* Mutant of Eval: clear resets the counter and forgets the bodies.
EvalKeepsBodies(r) ==
  LET next == IF r.call.clear THEN 1 ELSE next_id
  IN  /\ r.call.method = "eval"
      /\ bodies' = AddAll(bodies, next, r.n, r.call.built)
      /\ next_id' = next + r.call.built
      /\ Write(r, "none", [k \in 1..r.call.built |-> next + k - 1], 0)

\* gmk.lang.eval: clear first, then one Server::add per primitive that could be
\* built; syntax errors and failed statements are diagnostics, never an error.
Eval(r) ==
  LET base == IF r.call.clear THEN NoBodies ELSE bodies
      next == IF r.call.clear THEN 1 ELSE next_id
  IN  /\ r.call.method = "eval"
      /\ bodies' = AddAll(base, next, r.n, r.call.built)
      /\ next_id' = next + r.call.built
      /\ Write(r, "none", [k \in 1..r.call.built |-> next + k - 1], 0)

\* Does the primitive's handler get past its checks?  box must have a centre,
\* box, sphere and cylinder refuse one that is not three lengths, cone and
\* torus build at whatever was read; make_* refuses degenerate sizes.
Buildable(c) ==
  /\ c.size = "good"
  /\ c.place \in CASE c.shape = "box" -> {"good"}
                   [] c.shape \in {"sphere", "cylinder"} -> {"good", "absent"}
                   [] OTHER -> {"good", "absent", "bad"}

Primitive(r) ==
  /\ r.call.method = "primitive"
  /\ \/ /\ ~Buildable(r.call)
        /\ Error(r, "InvalidParams")
     \/ /\ Buildable(r.call)
        /\ bodies' = Emplace(bodies, next_id, <<r.n, 1>>)
        /\ next_id' = next_id + 1
        /\ Write(r, "none", <<next_id>>, 0)

\* gmk.body.bbox, gmk.body.validate and gmk.tessellate
Query(r) ==
  /\ r.call.method = "query"
  /\ \/ r.call.id \notin DOMAIN bodies /\ Error(r, "InvalidParams")
     \/ /\ r.call.id \in DOMAIN bodies
        /\ Result(r)
        /\ UNCHANGED <<bodies, next_id>>

Unknown(r) == r.call.method = "unknown" /\ Error(r, "MethodNotFound")

\* dispatch_request(): a value with no "method" string, any value that is not
\* an object included
NoMethod(r) == r.call.method = "none" /\ Error(r, "InvalidRequest")

Dispatch(r) ==
  \/ Info(r)
  \/ Delete(r)
  \/ Clear(r)
  \/ Eval(r)
  \/ Primitive(r)
  \/ Query(r)
  \/ Unknown(r)
  \/ NoMethod(r)

\* Mutant of Serve: a frame is served when the next one has begun to arrive.
ServeReadsAhead ==
  /\ status = "running" /\ Writable
  /\ Len(input) > 1 \/ closed
  /\ ReadStatus(Framing, input) = "Ok"
  /\ Dispatch(Head(input).msg)
  /\ input' = Tail(input)
  /\ UNCHANGED <<closed, reading, client>>

\* One round of Server::run()'s loop, up to the flush() of its reply.
Serve ==
  /\ status = "running" /\ Writable
  /\ ~Blocks(input, closed)
  /\ ReadStatus(Framing, input) = "Ok"
  /\ Dispatch(Head(input).msg)
  /\ input' = Tail(input)
  /\ UNCHANGED <<closed, reading, client>>

\* Mutants of Stop: the end of file is tried again, or reported as Io.
StopOnParseOnly ==
  /\ status = "running" /\ Writable
  /\ ~Blocks(input, closed)
  /\ ReadStatus(Framing, input) = "Parse"
  /\ status' = "Parse"
  /\ UNCHANGED <<bodies, next_id, input, closed, output, reading, client>>

StopReportsIo ==
  /\ status = "running" /\ Writable
  /\ ~Blocks(input, closed)
  /\ ReadStatus(Framing, input) # "Ok"
  /\ status' = ReadStatus(Framing, input)
  /\ UNCHANGED <<bodies, next_id, input, closed, output, reading, client>>

\* A failed read ends the loop, without a reply.
Stop ==
  /\ status = "running" /\ Writable
  /\ ~Blocks(input, closed)
  /\ ReadStatus(Framing, input) # "Ok"
  /\ status' = IF ReadStatus(Framing, input) = "Io" THEN "Ok"
               ELSE ReadStatus(Framing, input)
  /\ UNCHANGED <<bodies, next_id, input, closed, output, reading, client>>

------------------------------------------------------------------------------
(* The client *)

Requests ==
  {[n |-> sent + 1, id |-> sent + 1, call |-> c] : c \in Calls} \cup
  {[n |-> sent + 1, id |-> 0, call |-> c] : c \in Notify}

Send(r) ==
  /\ input' = Append(input, [kind |-> "message", msg |-> r])
  /\ awaiting' = Append(awaiting, r)
  /\ UNCHANGED <<known, reply>>

SendBad(kind) ==
  /\ input' = Append(input, BrokenFrame(kind))
  /\ UNCHANGED <<awaiting, known, reply>>

ClientSends ==
  /\ ~closed
  /\ sent < MaxRequests
  /\ (\E r \in Requests : Send(r)) \/ (\E k \in BadKinds(Framing) : SendBad(k))
  /\ sent' = sent + 1
  /\ UNCHANGED <<server, closed, output, reading>>

ClientCloses ==
  /\ ~closed
  /\ closed' = TRUE
  /\ UNCHANGED <<server, input, output, reading, client>>

\* The client closes its reading end, perhaps with the server in flush().
ClientStopsReading ==
  /\ reading
  /\ reading' = FALSE
  /\ output' = <<>>
  /\ IF status = "running" /\ ~Writable THEN WriteToClosed ELSE UNCHANGED status
  /\ UNCHANGED <<bodies, next_id, input, closed, client>>

\* What the client concludes from the reply to its oldest open request.
Learn(r, a) ==
  IF a.error # "none" THEN known
  ELSE CASE r.call.method = "delete" ->
              [i \in DOMAIN known \ {r.call.id} |-> known[i]]
         [] r.call.method = "clear" -> NoBodies
         [] r.call.method \in {"primitive", "eval"} ->
              LET base == IF r.call.method = "eval" /\ r.call.clear
                          THEN NoBodies ELSE known
                  ids == {a.bodies[k] : k \in DOMAIN a.bodies}
              IN  [i \in DOMAIN base \cup ids |->
                     IF i \in ids
                     THEN <<r.n, CHOOSE k \in DOMAIN a.bodies : a.bodies[k] = i>>
                     ELSE base[i]]
         [] OTHER -> known

ClientReceives ==
  /\ output # <<>>
  /\ awaiting # <<>>
  /\ reply' = Head(output)
  /\ known' = Learn(Head(awaiting), Head(output))
  /\ output' = Tail(output)
  /\ awaiting' = Tail(awaiting)
  /\ UNCHANGED <<server, input, closed, reading, sent>>

\* run() has returned, or the process is gone, and the client has nothing more to do.
Done ==
  /\ status # "running"
  /\ closed
  /\ output = <<>>
  /\ UNCHANGED vars

Next ==
  \/ Serve
  \/ Stop
  \/ ClientSends
  \/ ClientCloses
  \/ ClientStopsReading
  \/ ClientReceives
  \/ Done

\* The server's thread has nothing else to do than this loop, so it takes a
\* round whenever neither its read nor its last write blocks.
ServerFairness == WF_vars(Serve) /\ WF_vars(Stop)

\* Assumed of the client: it reads the replies that arrive until it closes its
\* reading end.  One that keeps it open and never reads leaves the server in
\* flush() for ever.
ClientReads == WF_vars(ClientReceives)

Fairness == ServerFairness /\ ClientReads

Spec == Init /\ [][Next]_vars /\ Fairness

------------------------------------------------------------------------------
(* Properties *)

\* The types of the server's fields, of the frames under way and of what run()
\* returns; nothing is queued for a client that stopped reading.
TypeOK ==
  /\ DOMAIN bodies \subseteq Nat
  /\ \A i \in DOMAIN bodies : bodies[i] \in Nat \X Nat
  /\ next_id \in Nat
  /\ status \in {"running", "Ok", "Parse", "Killed"}
  /\ status = "Killed" => ~reading
  /\ closed \in BOOLEAN
  /\ reading \in BOOLEAN
  /\ ~reading => output = <<>>
  /\ input \in Seq(Frames)
  /\ awaiting \in Seq(AllRequests)
  /\ sent \in 0..MaxRequests

\* Every id in the map was handed out by the counter, which is ahead of them
\* all and never 0: emplace() always inserts, and no reply names a body that
\* was not stored.  Resetting one of the two without the other breaks it.
IdsFresh ==
  /\ next_id >= 1
  /\ DOMAIN bodies \subseteq 1 .. next_id - 1

\* Is the frame about to be served a call that empties the session?
ClearsNext ==
  LET c == Head(input).msg.call
  IN  c.method = "clear" \/ (c.method = "eval" /\ c.clear)

\* lang/eval.hpp:44 "assign it a stable id": between two clears an id names one
\* body for ever.  An id handed out earlier still names its body or nothing.
StableIds ==
  [][\/ /\ next_id' >= next_id
        /\ \A i \in DOMAIN bodies' :
             i < next_id => i \in DOMAIN bodies /\ bodies'[i] = bodies[i]
     \/ ClearsNext]_<<bodies, next_id>>

Messages(frames) == Pick(frames, {i \in DOMAIN frames : frames[i].kind = "message"})

\* One reply per well-formed frame, in the order of the frames and with their
\* ids: what the client waits for is on its way back or still to be read.
RepliesConserved ==
  reading =>
    [i \in DOMAIN awaiting |-> awaiting[i].id] =
    [i \in DOMAIN output |-> output[i].id] \o
    [i \in DOMAIN Messages(input) |-> Messages(input)[i].msg.id]

\* A client that has read every reply knows the session exactly, although it
\* only ever saw replies and sent calls ahead of them.
QuiescentMirror == reading /\ output = <<>> => known = bodies

\* Can the server read its way to frame n?
Due(n) ==
  \E i \in DOMAIN input :
    /\ input[i].msg.n = n
    /\ \A j \in 1..i : input[j].kind = "message"

\* Every call that no broken frame precedes is served, unless the client closed
\* its reading end and SIGPIPE ended the process first.
EveryCallServed ==
  \A n \in 1..MaxRequests : Due(n) ~> (~Due(n) \/ status = "Killed")

\* run() returns once the peer has closed its sending end, if the peer reads what
\* it is sent or closes its reading end too; the process is killed only then.
ReturnsAfterClose ==
  closed ~> status \in {"Ok", "Parse"} \/ (status = "Killed" /\ ~reading)

\* What the client has been told behaves as one atomic session.
Seen == INSTANCE Session WITH
  Requests <- AllRequests,
  pending <- awaiting,
  session <- known,
  reply <- reply

\* Pipelined calls take effect one at a time and in order, and every reply is
\* true of the session at that point.
RefinesSession == Seen!Spec

\* geom_server.hpp:31 "Errors are returned via JSON-RPC's error mechanism": the
\* server gives up on a connection only when there is nothing left to read.
ErrorsReturned == status \in {"running", "Killed"} \/ input = <<>>
==============================================================================
