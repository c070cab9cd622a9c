--------------------------- MODULE GeomServerProofs ---------------------------
(***************************************************************************)
(* The id discipline of the geometry server, for every set of calls, both  *)
(* framings and any number of requests: the map of bodies and the counter  *)
(* never disagree, whatever a client sends and however it pipelines.       *)
(***************************************************************************)
EXTENDS GeomServer, StreamProofs

\* The types and the freshness of the ids are inductive together: the counter
\* stays ahead because built is a number, and that is a fact about frames.
IInv == TypeOK /\ IdsFresh

USE CallsAssumption, MaxRequestsAssumption

\* The server starts with no body and with 1 as the next id.
LEMMA InitIInv == Init => IInv
<1> SUFFICES ASSUME Init PROVE IInv
  OBVIOUS
<1>1. DOMAIN bodies = {}
  BY DEF Init, NoBodies
<1>2. TypeOK
  <2>1. DOMAIN bodies \subseteq Nat /\ \A i \in DOMAIN bodies : bodies[i] \in Nat \X Nat
    BY <1>1
  <2>2. /\ next_id = 1 /\ status = "running" /\ closed = FALSE /\ reading = TRUE
        /\ output = <<>> /\ input = <<>> /\ awaiting = <<>> /\ sent = 0
    BY DEF Init
  <2>3. <<>> \in Seq(Frames) /\ <<>> \in Seq(AllRequests)
    OBVIOUS
  <2>4. next_id \in Nat /\ sent \in 0..MaxRequests
    BY <2>2
  <2>5. status # "Killed"
    BY <2>2
  <2>6. QED BY <2>1, <2>2, <2>3, <2>4, <2>5, Zenon DEF TypeOK
<1>3. IdsFresh
  BY <1>1 DEF Init, IdsFresh
<1>4. QED BY <1>2, <1>3 DEF IInv

\* A frame that carries a message carries one of the requests.
LEMMA MessageIsRequest ==
  ASSUME NEW f \in Frames, f.kind = "message"
  PROVE  f.msg \in AllRequests
BY DEF Frames, BrokenFrame, BadKinds

\* The frame a successful read takes is the first one, and it is a request.
LEMMA ReadTakesRequest ==
  ASSUME TypeOK, ReadStatus(Framing, input) = "Ok"
  PROVE  /\ Head(input).msg \in AllRequests
         /\ Tail(input) \in Seq(Frames)
<1>1. input # <<>> /\ Head(input).kind = "message"
  BY DEF ReadStatus
<1>2. input \in Seq(Frames)
  BY DEF TypeOK
<1>3. Head(input) \in Frames /\ Tail(input) \in Seq(Frames)
  BY <1>1, <1>2
<1>4. QED BY <1>1, <1>3, MessageIsRequest

\* What a write, or none, does to the output and to the process.
Written ==
  /\ ~reading => output' = output
  /\ status' \in {status, "Killed"}
  /\ reading => status' = status

\* What one handler does to the map and the counter of Server.
HandlerOK ==
  /\ \A i \in DOMAIN bodies' : i \in 1 .. next_id' - 1
  /\ \A i \in DOMAIN bodies' : bodies'[i] \in Nat \X Nat
  /\ next_id' \in Nat /\ next_id' >= 1
  /\ Written

\* StableIds for the step of one handler.
HandlerStable(r) ==
  \/ r.call.method = "clear"
  \/ r.call.method = "eval" /\ r.call.clear
  \/ /\ next_id' >= next_id
     /\ \A i \in DOMAIN bodies' :
          i < next_id => i \in DOMAIN bodies /\ bodies'[i] = bodies[i]

\* What IInv says of the map and the counter.
LEMMA Ids ==
  ASSUME IInv
  PROVE  /\ \A i \in DOMAIN bodies : i \in 1 .. next_id - 1
         /\ \A i \in DOMAIN bodies : bodies[i] \in Nat \X Nat
         /\ next_id \in Nat /\ next_id >= 1
BY DEF IInv, TypeOK, IdsFresh

\* A reply that is not written leaves the stream as it is, and only then may the
\* process end.
LEMMA WriteOutput ==
  ASSUME NEW r, NEW err, NEW ids, NEW count, Write(r, err, ids, count)
  PROVE  Written
BY DEF Write, WriteToClosed, Written

\* Refusals and queries leave the map and the counter alone.
LEMMA QuietHandler ==
  ASSUME IInv, NEW r, UNCHANGED <<bodies, next_id>>, Written
  PROVE  HandlerOK /\ HandlerStable(r)
<1>1. bodies' = bodies /\ next_id' = next_id
  OBVIOUS
<1>2. HandlerOK
  BY <1>1, Ids DEF HandlerOK
<1>3. HandlerStable(r)
  BY <1>1, Ids DEF HandlerStable
<1>4. QED BY <1>2, <1>3

\* add() count times in a row: the new ids follow the counter, and emplace()
\* never finds one of them taken.
LEMMA AddAllFresh ==
  ASSUME NEW map, NEW next \in Nat, NEW n \in Nat, NEW count \in Nat, next >= 1,
         \A i \in DOMAIN map : i \in 1 .. next - 1,
         \A i \in DOMAIN map : map[i] \in Nat \X Nat,
         NEW new, new = AddAll(map, next, n, count)
  PROVE  /\ \A i \in DOMAIN new : i \in 1 .. next + count - 1
         /\ \A i \in DOMAIN new : new[i] \in Nat \X Nat
         /\ \A i \in DOMAIN new : i < next => i \in DOMAIN map /\ new[i] = map[i]
<1>1. DOMAIN new = DOMAIN map \cup (next .. next + count - 1)
  BY DEF AddAll
<1>2. \A i \in DOMAIN new :
        new[i] = IF i \in DOMAIN map THEN map[i] ELSE <<n, i - next + 1>>
  BY <1>1 DEF AddAll
<1>3. ASSUME NEW i \in DOMAIN new
      PROVE  /\ i \in 1 .. next + count - 1
             /\ new[i] \in Nat \X Nat
             /\ i < next => i \in DOMAIN map /\ new[i] = map[i]
  <2>1. CASE i \in DOMAIN map
    BY <2>1, <1>2
  <2>2. CASE i \notin DOMAIN map
    <3>1. i \in next .. next + count - 1
      BY <2>2, <1>1
    <3>2. new[i] = <<n, i - next + 1>>
      BY <2>2, <1>2
    <3>3. i - next + 1 \in Nat
      BY <3>1
    <3>4. QED BY <3>1, <3>2, <3>3
  <2>3. QED BY <2>1, <2>2
<1>4. QED BY <1>3

\* gmk.body.delete
LEMMA DeleteStep ==
  ASSUME IInv, NEW r \in AllRequests, Delete(r)
  PROVE  HandlerOK /\ HandlerStable(r)
<1>1. CASE Error(r, "InvalidParams")
  BY <1>1, QuietHandler, WriteOutput DEF Error
<1>2. CASE /\ bodies' = [i \in DOMAIN bodies \ {r.call.id} |-> bodies[i]]
           /\ Result(r)
           /\ UNCHANGED next_id
  <2>1. DOMAIN bodies' \subseteq DOMAIN bodies
    BY <1>2
  <2>2. \A i \in DOMAIN bodies' : bodies'[i] = bodies[i]
    BY <1>2
  <2>3. Written
    BY <1>2, WriteOutput DEF Result
  <2>4. next_id' = next_id
    BY <1>2
  <2>5. HandlerOK
    BY <2>1, <2>2, <2>3, <2>4, Ids DEF HandlerOK
  <2>6. HandlerStable(r)
    BY <2>1, <2>2, <2>4, Ids DEF HandlerStable
  <2>7. QED BY <2>5, <2>6
<1>3. QED BY <1>1, <1>2 DEF Delete

\* gmk.session.clear
LEMMA ClearHandlerStep ==
  ASSUME IInv, NEW r, Clear(r)
  PROVE  HandlerOK /\ HandlerStable(r)
<1>1. DOMAIN bodies' = {} /\ next_id' = 1
  BY DEF Clear, NoBodies
<1>2. Written
  BY WriteOutput DEF Clear, Result
<1>3. HandlerOK
  BY <1>1, <1>2 DEF HandlerOK
<1>4. QED BY <1>3 DEF HandlerStable, Clear

\* gmk.lang.eval, with or without its clear
LEMMA EvalStep ==
  ASSUME IInv, NEW r \in AllRequests, Eval(r)
  PROVE  HandlerOK /\ HandlerStable(r)
<1>1. r.call \in Calls /\ r.n \in Nat
  BY DEF AllRequests
<1>2. r.call.built \in Nat /\ r.call.method = "eval"
  BY <1>1 DEF Eval
<1>3. Written
  BY WriteOutput DEF Eval
<1>4. CASE r.call.clear
  <2>1. bodies' = AddAll(NoBodies, 1, r.n, r.call.built)
        /\ next_id' = 1 + r.call.built
    BY <1>4 DEF Eval
  <2>2. DOMAIN NoBodies = {}
    BY DEF NoBodies
  <2>3. /\ \A i \in DOMAIN bodies' : i \in 1 .. 1 + r.call.built - 1
        /\ \A i \in DOMAIN bodies' : bodies'[i] \in Nat \X Nat
    <3>1. PICK one \in Nat : one = 1
      OBVIOUS
    <3>2. PICK none : none = NoBodies
      OBVIOUS
    <3>3. /\ \A i \in DOMAIN none : i \in 1 .. one - 1
          /\ \A i \in DOMAIN none : none[i] \in Nat \X Nat
          /\ one >= 1
      BY <2>2, <3>1, <3>2
    <3>4. PICK n \in Nat, built \in Nat : n = r.n /\ built = r.call.built
      BY <1>1, <1>2
    <3>5. PICK new : new = AddAll(none, one, n, built)
      OBVIOUS
    <3>6. /\ \A i \in DOMAIN new : i \in 1 .. one + built - 1
          /\ \A i \in DOMAIN new : new[i] \in Nat \X Nat
      BY ONLY <3>3, <3>5, AddAllFresh, one \in Nat, n \in Nat, built \in Nat
    <3>7. new = bodies'
      BY <2>1, <3>1, <3>2, <3>4, <3>5
    <3>8. QED BY <3>1, <3>4, <3>6, <3>7
  <2>4. HandlerOK
    BY <2>1, <2>3, <1>2, <1>3 DEF HandlerOK
  <2>5. QED BY <2>4, <1>2, <1>4 DEF HandlerStable
<1>5. CASE ~r.call.clear
  <2>1. bodies' = AddAll(bodies, next_id, r.n, r.call.built)
        /\ next_id' = next_id + r.call.built
    BY <1>5 DEF Eval
  <2>2. /\ \A i \in DOMAIN bodies' : i \in 1 .. next_id + r.call.built - 1
        /\ \A i \in DOMAIN bodies' : bodies'[i] \in Nat \X Nat
        /\ \A i \in DOMAIN bodies' :
             i < next_id => i \in DOMAIN bodies /\ bodies'[i] = bodies[i]
    <3>1. PICK base : base = bodies
      OBVIOUS
    <3>2. PICK n \in Nat, built \in Nat, next \in Nat :
            n = r.n /\ built = r.call.built /\ next = next_id
      BY <1>1, <1>2, Ids
    <3>3. /\ \A i \in DOMAIN base : i \in 1 .. next - 1
          /\ \A i \in DOMAIN base : base[i] \in Nat \X Nat
          /\ next >= 1
      BY <3>1, <3>2, Ids
    <3>4. PICK new : new = AddAll(base, next, n, built)
      OBVIOUS
    <3>5. /\ \A i \in DOMAIN new : i \in 1 .. next + built - 1
          /\ \A i \in DOMAIN new : new[i] \in Nat \X Nat
          /\ \A i \in DOMAIN new : i < next => i \in DOMAIN base /\ new[i] = base[i]
      BY ONLY <3>3, <3>4, AddAllFresh, n \in Nat, built \in Nat, next \in Nat
    <3>6. new = bodies'
      BY <2>1, <3>1, <3>2, <3>4
    <3>7. QED BY <3>1, <3>2, <3>5, <3>6
  <2>3. HandlerOK
    BY <2>1, <2>2, <1>2, <1>3, Ids DEF HandlerOK
  <2>4. HandlerStable(r)
    BY <2>1, <2>2, <1>2, Ids DEF HandlerStable
  <2>5. QED BY <2>3, <2>4
<1>6. QED BY <1>4, <1>5

\* The five primitives: at most one body, under the next id.
LEMMA PrimitiveStep ==
  ASSUME IInv, NEW r \in AllRequests, Primitive(r)
  PROVE  HandlerOK /\ HandlerStable(r)
<1>1. CASE Error(r, "InvalidParams")
  BY <1>1, QuietHandler, WriteOutput DEF Error
<1>2. CASE /\ bodies' = Emplace(bodies, next_id, <<r.n, 1>>)
           /\ next_id' = next_id + 1
           /\ Write(r, "none", <<next_id>>, 0)
  <2>1. DOMAIN bodies' = DOMAIN bodies \cup {next_id}
    BY <1>2 DEF Emplace
  <2>2. \A i \in DOMAIN bodies' :
          bodies'[i] = IF i \in DOMAIN bodies THEN bodies[i] ELSE <<r.n, 1>>
    BY <1>2, <2>1 DEF Emplace
  <2>3. Written
    BY <1>2, WriteOutput
  <2>4. r.n \in Nat
    BY DEF AllRequests
  <2>5. HandlerOK
    BY <1>2, <2>1, <2>2, <2>3, <2>4, Ids DEF HandlerOK
  <2>6. HandlerStable(r)
    BY <1>2, <2>1, <2>2, Ids DEF HandlerStable
  <2>7. QED BY <2>5, <2>6
<1>3. QED BY <1>1, <1>2 DEF Primitive

\* Whatever the first frame calls.
LEMMA DispatchStep ==
  ASSUME IInv, NEW r \in AllRequests, Dispatch(r)
  PROVE  HandlerOK /\ HandlerStable(r)
<1>1. CASE Info(r) \/ Query(r) \/ Unknown(r) \/ NoMethod(r)
  <2>1. UNCHANGED <<bodies, next_id>> /\ Written
    BY <1>1, WriteOutput DEF Info, Query, Unknown, NoMethod, Error, Result
  <2>2. QED BY <2>1, QuietHandler
<1>2. CASE Delete(r)
  BY <1>2, DeleteStep
<1>3. CASE Clear(r)
  BY <1>3, ClearHandlerStep
<1>4. CASE Eval(r)
  BY <1>4, EvalStep
<1>5. CASE Primitive(r)
  BY <1>5, PrimitiveStep
<1>6. QED BY <1>1, <1>2, <1>3, <1>4, <1>5 DEF Dispatch

\* One round of Server::run().
LEMMA ServeStep ==
  ASSUME IInv, Serve
  PROVE  IInv' /\ HandlerStable(Head(input).msg)
<1>1. /\ Head(input).msg \in AllRequests
      /\ Tail(input) \in Seq(Frames)
  BY ReadTakesRequest DEF Serve, IInv
<1>2. HandlerOK /\ HandlerStable(Head(input).msg)
  BY <1>1, DispatchStep DEF Serve
<1>3. IdsFresh'
  BY <1>2 DEF HandlerOK, IdsFresh
<1>4. input' \in Seq(Frames) /\ UNCHANGED <<closed, reading, awaiting, sent>>
  BY <1>1 DEF Serve, client
<1>5. TypeOK'
  <2>1. /\ status' \in {"running", "Ok", "Parse", "Killed"}
        /\ status' = "Killed" => ~reading'
        /\ ~reading' => output' = <<>>
    BY <1>2, <1>4 DEF HandlerOK, Written, TypeOK, IInv, Serve
  <2>2. QED BY <1>2, <1>4, <2>1 DEF HandlerOK, TypeOK, IInv
<1>6. QED BY <1>2, <1>3, <1>5 DEF IInv

\* A frame the client appends is one of Frames.
LEMMA SendStep ==
  ASSUME IInv, ClientSends
  PROVE  IInv'
<1>1. sent' = sent + 1 /\ sent' \in 0..MaxRequests
  BY DEF ClientSends, IInv, TypeOK
<1>2. UNCHANGED <<bodies, next_id, status, closed, output, reading>>
  BY DEF ClientSends, server
<1>3. input' \in Seq(Frames) /\ awaiting' \in Seq(AllRequests)
  <2>1. ASSUME NEW r \in Requests, Send(r)
        PROVE  input' \in Seq(Frames) /\ awaiting' \in Seq(AllRequests)
    <3>1. r \in AllRequests
      BY <1>1 DEF Requests, AllRequests, IInv, TypeOK
    <3>2. [kind |-> "message", msg |-> r] \in Frames
      BY <3>1 DEF Frames
    <3>3. QED BY <2>1, <3>1, <3>2 DEF Send, IInv, TypeOK
  <2>2. ASSUME NEW k \in BadKinds(Framing), SendBad(k)
        PROVE  input' \in Seq(Frames) /\ awaiting' \in Seq(AllRequests)
    <3>1. BrokenFrame(k) \in Frames
      BY DEF Frames
    <3>2. QED BY <2>2, <3>1 DEF SendBad, IInv, TypeOK
  <2>3. QED BY <2>1, <2>2 DEF ClientSends
<1>4. IdsFresh'
  BY <1>2 DEF IInv, IdsFresh
<1>5. TypeOK'
  BY <1>1, <1>2, <1>3 DEF IInv, TypeOK
<1>6. QED BY <1>4, <1>5 DEF IInv

\* The steps that touch neither the map nor the counter.
LEMMA OtherStep ==
  ASSUME IInv,
         Stop \/ ClientCloses \/ ClientStopsReading \/ ClientReceives \/ UNCHANGED vars
  PROVE  IInv' /\ UNCHANGED <<bodies, next_id>>
<1>1. CASE Stop
  <2>1. status' \in {"Ok", "Parse"}
    BY <1>1 DEF Stop, ReadStatus
  <2>2. UNCHANGED <<bodies, next_id, input, closed, output, reading, awaiting, sent>>
    BY <1>1 DEF Stop, client
  <2>3. QED BY <2>1, <2>2 DEF IInv, TypeOK, IdsFresh
<1>2. CASE ClientCloses
  BY <1>2 DEF ClientCloses, server, client, IInv, TypeOK, IdsFresh
<1>3. CASE ClientStopsReading
  <2>1. status' \in {status, "Killed"}
    BY <1>3 DEF ClientStopsReading, WriteToClosed
  <2>2. /\ UNCHANGED <<bodies, next_id, input, closed, awaiting, sent>>
        /\ ~reading' /\ reading' \in BOOLEAN /\ output' = <<>>
    BY <1>3 DEF ClientStopsReading, client
  <2>3. QED BY <2>1, <2>2 DEF IInv, TypeOK, IdsFresh
<1>4. CASE ClientReceives
  <2>1. awaiting' \in Seq(AllRequests)
    BY <1>4 DEF ClientReceives, IInv, TypeOK
  <2>2. UNCHANGED <<bodies, next_id, status, input, closed, reading, sent>>
    BY <1>4 DEF ClientReceives, server
  <2>3. reading
    BY <1>4 DEF ClientReceives, IInv, TypeOK
  <2>4. QED BY <2>1, <2>2, <2>3 DEF IInv, TypeOK, IdsFresh
<1>5. CASE UNCHANGED vars
  BY <1>5 DEF vars, IInv, TypeOK, IdsFresh
<1>6. QED BY <1>1, <1>2, <1>3, <1>4, <1>5

\* Every step of the server and of its client.
LEMMA NextIInv == IInv /\ [Next]_vars => IInv'
<1> SUFFICES ASSUME IInv, [Next]_vars PROVE IInv'
  OBVIOUS
<1>1. CASE Serve
  BY <1>1, ServeStep
<1>2. CASE ClientSends
  BY <1>2, SendStep
<1>3. CASE Stop \/ ClientCloses \/ ClientStopsReading \/ ClientReceives \/ UNCHANGED vars
  BY <1>3, OtherStep
<1>4. QED BY <1>1, <1>2, <1>3 DEF Next, Done

\* Type correctness and the id discipline of Server::add, handle and run: every
\* id in bodies_ is behind the counter and none is 0, for any client.
THEOREM ServerInvariant == Spec => [](TypeOK /\ IdsFresh)
<1>1. Init => IInv
  BY InitIInv
<1>2. IInv /\ [Next]_vars => IInv'
  BY NextIInv
<1>3. IInv => TypeOK /\ IdsFresh
  BY DEF IInv
<1>4. QED BY <1>1, <1>2, <1>3, PTL DEF Spec

\* lang/eval.hpp:44: between two clears an id names one body for ever, since no
\* handler stores a body under an id handed out earlier.
THEOREM IdsAreStable == Spec => StableIds
<1>1. IInv /\ [Next]_vars =>
        [\/ /\ next_id' >= next_id
            /\ \A i \in DOMAIN bodies' :
                 i < next_id => i \in DOMAIN bodies /\ bodies'[i] = bodies[i]
         \/ ClearsNext]_<<bodies, next_id>>
  <2> SUFFICES ASSUME IInv, [Next]_vars
               PROVE  [\/ /\ next_id' >= next_id
                          /\ \A i \in DOMAIN bodies' :
                               i < next_id => i \in DOMAIN bodies
                                              /\ bodies'[i] = bodies[i]
                       \/ ClearsNext]_<<bodies, next_id>>
    OBVIOUS
  <2>1. CASE Serve
    BY <2>1, ServeStep DEF HandlerStable, ClearsNext
  <2>2. CASE ClientSends
    BY <2>2 DEF ClientSends, server
  <2>3. CASE Stop \/ ClientCloses \/ ClientStopsReading \/ ClientReceives
             \/ UNCHANGED vars
    BY <2>3, OtherStep
  <2>4. QED BY <2>1, <2>2, <2>3 DEF Next, Done
<1>2. QED BY <1>1, InitIInv, NextIInv, PTL DEF Spec, StableIds

------------------------------------------------------------------------------
(* Replies and the session they tell.                                      *)
(*                                                                         *)
(* While the client reads, what it awaits splits into the calls answered   *)
(* on their way back and the calls still to be read, and the replies under *)
(* way lead step by step from the session the client knows to the          *)
(* server's: a chain of sessions h, one between two replies.               *)

Answer == [id : 0..MaxRequests,
           error : {"none", "InvalidParams", "MethodNotFound", "InvalidRequest"},
           bodies : Seq(Nat), count : Nat]

\* The calls carried by a stream of frames
CallsOf(ms) == [i \in DOMAIN ms |-> ms[i].msg]
Carried(frames) == CallsOf(Messages(frames))

\* The replies to the calls q lead from session s to session t, along h.
Chain(h, q, replies, s, t) ==
  /\ Len(q) = Len(replies)
  /\ h[1] = s
  /\ h[Len(replies) + 1] = t
  /\ \A k \in 1..Len(replies) : Seen!Answered(h[k], q[k], replies[k], h[k + 1])

Mirrored ==
  reading => \E h, q : /\ q \in Seq(AllRequests)
                       /\ Chain(h, q, output, known, bodies)
                       /\ awaiting = q \o Carried(input)

RInv == IInv /\ output \in Seq(Answer) /\ Mirrored

\* The calls of a stream that is made longer at either end
LEMMA CallsOfGrow ==
  ASSUME NEW S, NEW ms \in Seq(S), NEW f \in S
  PROVE  /\ CallsOf(Append(ms, f)) = Append(CallsOf(ms), f.msg)
         /\ CallsOf(<<f>> \o ms) = <<f.msg>> \o CallsOf(ms)
<1>1. /\ Len(Append(ms, f)) = Len(ms) + 1 /\ Len(ms) \in Nat
      /\ DOMAIN Append(ms, f) = 1..Len(ms) + 1 /\ DOMAIN ms = 1..Len(ms)
      /\ Append(ms, f)[Len(ms) + 1] = f
      /\ \A i \in 1..Len(ms) : Append(ms, f)[i] = ms[i]
  OBVIOUS
<1>2. CallsOf(Append(ms, f)) = Append(CallsOf(ms), f.msg)
  BY <1>1 DEF CallsOf
<1>3. /\ Len(<<f>> \o ms) = Len(ms) + 1 /\ (<<f>> \o ms)[1] = f
      /\ DOMAIN (<<f>> \o ms) = 1..Len(ms) + 1
      /\ \A i \in 2..Len(ms) + 1 : (<<f>> \o ms)[i] = ms[i - 1]
  OBVIOUS
<1>4. CallsOf(<<f>> \o ms) = <<f.msg>> \o CallsOf(ms)
  BY <1>1, <1>3 DEF CallsOf
<1> QED BY <1>2, <1>4

\* The messages of a stream are frames, and carry calls.
LEMMA CarriedType ==
  ASSUME NEW frames \in Seq(Frames)
  PROVE  Messages(frames) \in Seq(Frames) /\ Carried(frames) \in Seq(AllRequests)
<1> DEFINE I == {i \in DOMAIN frames : frames[i].kind = "message"}
           R == {frames[i] : i \in 1..Len(frames) \cap I}
           ms == Pick(frames, I)
<1>1. ms \in Seq(R)
  <2> HIDE DEF I
  <2> QED BY PickSound
<1>2. \A f \in R : f \in Frames /\ f.kind = "message"
  BY ElementOfSeq
<1>3. ms \in Seq(Frames)
  <2> HIDE DEF ms, R
  <2> QED BY <1>1, <1>2, SeqMonotonic
<1>4. Len(ms) \in Nat /\ DOMAIN ms = 1..Len(ms)
  <2> HIDE DEF ms
  <2> QED BY <1>3
<1>5. \A i \in 1..Len(ms) : ms[i].msg \in AllRequests
  <2>1. \A i \in 1..Len(ms) : ms[i] \in R
    <3> HIDE DEF ms, R
    <3> QED BY <1>1, ElementOfSeq
  <2> HIDE DEF ms, R
  <2> QED BY <2>1, <1>2, MessageIsRequest
<1>6. CallsOf(ms) \in Seq(AllRequests)
  <2> HIDE DEF ms
  <2> QED BY <1>4, <1>5 DEF CallsOf
<1> QED BY <1>3, <1>6 DEF Carried, Messages

\* A frame the client sends is carried last, when it is a message.
LEMMA CarriedAppend ==
  ASSUME NEW frames \in Seq(Frames), NEW f \in Frames
  PROVE  Carried(Append(frames, f)) =
           IF f.kind = "message" THEN Append(Carried(frames), f.msg) ELSE Carried(frames)
<1> DEFINE new == Append(frames, f)
           I == {i \in DOMAIN frames : frames[i].kind = "message"}
           J == {i \in DOMAIN new : new[i].kind = "message"}
<1>1. /\ Len(new) = Len(frames) + 1 /\ new[Len(frames) + 1] = f
      /\ \A i \in 1..Len(frames) : new[i] = frames[i]
      /\ DOMAIN new = 1..Len(frames) + 1 /\ DOMAIN frames = 1..Len(frames)
      /\ Len(frames) \in Nat
  OBVIOUS
<1>2. Agree(I, J, Len(frames))
  BY <1>1 DEF Agree
<1>3. Len(frames) + 1 \in J <=> f.kind = "message"
  BY <1>1
<1>4. Pick(Append(frames, f), J) =
        IF Len(frames) + 1 \in J THEN Append(Pick(frames, I), f) ELSE Pick(frames, I)
  <2> HIDE DEF I, J, new
  <2> QED BY <1>2, PickAppend
<1>5. Messages(frames) = Pick(frames, I) /\ Messages(new) = Pick(new, J)
  BY DEF Messages
<1>6. CallsOf(Append(Messages(frames), f)) = Append(CallsOf(Messages(frames)), f.msg)
  BY CarriedType, CallsOfGrow
<1> HIDE DEF I, J
<1> QED BY <1>3, <1>4, <1>5, <1>6 DEF Carried

\* The frame the server reads was carried first.
LEMMA CarriedTail ==
  ASSUME NEW frames \in Seq(Frames), frames # <<>>, Head(frames).kind = "message"
  PROVE  Carried(frames) = <<Head(frames).msg>> \o Carried(Tail(frames))
<1> DEFINE rest == Tail(frames)
           I == {i \in DOMAIN frames : frames[i].kind = "message"}
           J == {i \in DOMAIN rest : rest[i].kind = "message"}
<1>1. /\ rest \in Seq(Frames) /\ Len(rest) = Len(frames) - 1 /\ Len(frames) \in Nat \ {0}
      /\ \A i \in 1..Len(rest) : rest[i] = frames[i + 1]
      /\ DOMAIN rest = 1..Len(rest) /\ DOMAIN frames = 1..Len(frames)
      /\ Head(frames) = frames[1] /\ Head(frames) \in Frames
  OBVIOUS
<1>2. Follows(J, I, Len(frames) - 1)
  BY <1>1 DEF Follows
<1>3. 1 \in I
  BY <1>1
<1>4. Pick(frames, I) = IF 1 \in I THEN <<Head(frames)>> \o Pick(Tail(frames), J)
                                   ELSE Pick(Tail(frames), J)
  <2> HIDE DEF I, J, rest
  <2> QED BY <1>2, PickTail
<1>5. Messages(frames) = Pick(frames, I) /\ Messages(rest) = Pick(rest, J)
  BY DEF Messages
<1>6. Messages(rest) \in Seq(Frames)
  <2> HIDE DEF rest
  <2> QED BY <1>1, CarriedType
<1>7. CallsOf(<<Head(frames)>> \o Messages(rest)) =
        <<Head(frames).msg>> \o CallsOf(Messages(rest))
  <2> HIDE DEF rest
  <2> QED BY <1>1, <1>6, CallsOfGrow
<1> HIDE DEF I, J
<1> QED BY <1>3, <1>4, <1>5, <1>7 DEF Carried

\* A reply written makes the chain longer at the server's end.
LEMMA ChainGrows ==
  ASSUME NEW replies \in Seq(Answer), NEW a \in Answer,
         NEW q \in Seq(AllRequests), NEW r \in AllRequests,
         NEW h, NEW s, NEW t, NEW u,
         Chain(h, q, replies, s, t), Seen!Answered(t, r, a, u)
  PROVE  \E g : Chain(g, Append(q, r), Append(replies, a), s, u)
<1> DEFINE n == Len(replies)
           g == [i \in 1..n + 2 |-> IF i = n + 2 THEN u ELSE h[i]]
           new == Append(replies, a)
           p == Append(q, r)
<1>1. /\ n \in Nat /\ Len(q) = n /\ Len(new) = n + 1 /\ Len(p) = n + 1
      /\ new[n + 1] = a /\ p[n + 1] = r
      /\ \A k \in 1..n : new[k] = replies[k] /\ p[k] = q[k]
  BY DEF Chain
<1>2. \A i \in 1..n + 1 : g[i] = h[i]
  BY <1>1
<1>3. g[n + 2] = u /\ n + 2 = (n + 1) + 1
  BY <1>1
<1>4. /\ h[1] = s /\ h[n + 1] = t
      /\ \A k \in 1..n : Seen!Answered(h[k], q[k], replies[k], h[k + 1])
  BY DEF Chain
<1> HIDE DEF n, g, new, p
<1>5. ASSUME NEW k \in 1..Len(new)
      PROVE  Seen!Answered(g[k], p[k], new[k], g[k + 1])
  <2>1. CASE k = n + 1
    BY <1>1, <1>2, <1>3, <1>4, <2>1
  <2>2. CASE k \in 1..n
    <3>1. k \in 1..n + 1 /\ k + 1 \in 1..n + 1
      BY <1>1, <2>2
    <3> QED BY <1>1, <1>2, <1>4, <2>2, <3>1
  <2> QED BY <1>1, <2>1, <2>2
<1>6. g[1] = s /\ g[Len(new) + 1] = u
  BY <1>1, <1>2, <1>3, <1>4
<1>7. Chain(g, p, new, s, u)
  BY <1>1, <1>5, <1>6 DEF Chain
<1> QED BY <1>7 DEF p, new

\* A reply read makes it shorter at the client's.
LEMMA ChainShrinks ==
  ASSUME NEW replies \in Seq(Answer), replies # <<>>,
         NEW q \in Seq(AllRequests), NEW h, NEW s, NEW t,
         Chain(h, q, replies, s, t)
  PROVE  /\ q # <<>>
         /\ Seen!Answered(s, Head(q), Head(replies), h[2])
         /\ \E g : Chain(g, Tail(q), Tail(replies), h[2], t)
<1> DEFINE n == Len(replies)
           g == [i \in 1..n |-> h[i + 1]]
           new == Tail(replies)
           p == Tail(q)
<1>1. /\ n \in Nat \ {0} /\ Len(q) = n /\ Len(new) = n - 1 /\ Len(p) = n - 1
      /\ Head(replies) = replies[1] /\ Head(q) = q[1] /\ q # <<>>
      /\ \A k \in 1..n - 1 : new[k] = replies[k + 1] /\ p[k] = q[k + 1]
  <2>1. n \in Nat \ {0} /\ Len(q) = n
    BY DEF Chain
  <2> QED BY <2>1
<1>2. \A i \in 1..n : g[i] = h[i + 1]
  OBVIOUS
<1>3. /\ h[1] = s /\ h[n + 1] = t
      /\ \A k \in 1..n : Seen!Answered(h[k], q[k], replies[k], h[k + 1])
  BY DEF Chain
<1> HIDE DEF n, g, new, p
<1>4. ASSUME NEW k \in 1..Len(new)
      PROVE  Seen!Answered(g[k], p[k], new[k], g[k + 1])
  <2>1. k \in 1..n - 1 /\ k \in 1..n /\ k + 1 \in 1..n
    BY <1>1
  <2> QED BY <1>1, <1>2, <1>3, <2>1
<1>5. g[1] = h[2] /\ g[Len(new) + 1] = t
  BY <1>1, <1>2, <1>3
<1>6. Chain(g, p, new, h[2], t)
  BY <1>1, <1>4, <1>5 DEF Chain
<1>7. Seen!Answered(s, Head(q), Head(replies), h[2])
  <2>1. 1 \in 1..n
    BY <1>1
  <2> QED BY <1>1, <1>3, <2>1
<1> QED BY <1>1, <1>6, <1>7 DEF p, new

------------------------------------------------------------------------------
(* What a handler replies *)

\* A reply is written, and it is true of the step the handler makes.
HandlerAnswers(r) ==
  \E a \in Answer : /\ output' = IF reading THEN Append(output, a) ELSE output
                    /\ Seen!Answered(bodies, r, a, bodies')

\* What Write writes
LEMMA WriteAnswers ==
  ASSUME NEW r \in AllRequests, NEW err, NEW ids, NEW count, Write(r, err, ids, count),
         NEW a, a = [id |-> r.id, error |-> err, bodies |-> ids, count |-> count],
         err \in {"none", "InvalidParams", "MethodNotFound", "InvalidRequest"},
         ids \in Seq(Nat), count \in Nat,
         Seen!Effect(bodies, r, a, bodies'), Seen!Refused(bodies, r, a)
  PROVE  HandlerAnswers(r)
<1>1. a \in Answer /\ a.id = r.id
  BY DEF AllRequests, Answer
<1>2. output' = IF reading THEN Append(output, a) ELSE output
  BY DEF Write
<1> QED BY <1>1, <1>2 DEF HandlerAnswers, Seen!Answered

\* An error reply: nothing has changed, and a call on a body was refused for
\* want of it.
LEMMA ErrorAnswers ==
  ASSUME NEW r \in AllRequests, NEW err,
         err \in {"InvalidParams", "MethodNotFound", "InvalidRequest"}, Error(r, err),
         r.call.method \in {"query", "delete"} => r.call.id \notin DOMAIN bodies
  PROVE  HandlerAnswers(r)
<1> DEFINE a == [id |-> r.id, error |-> err, bodies |-> <<>>, count |-> 0]
<1>1. a.error # "none" /\ bodies' = bodies
  BY DEF Error
<1>2. Seen!Effect(bodies, r, a, bodies')
  BY <1>1 DEF Seen!Effect
<1>3. Seen!Refused(bodies, r, a)
  BY <1>1 DEF Seen!Refused
<1>4. Write(r, err, <<>>, 0) /\ <<>> \in Seq(Nat) /\ 0 \in Nat
  BY DEF Error
<1> QED BY <1>2, <1>3, <1>4, WriteAnswers

\* gmk.session.info counts the bodies, of which there are finitely many.
LEMMA InfoAnswers ==
  ASSUME IInv, NEW r \in AllRequests, Info(r)
  PROVE  HandlerAnswers(r)
<1> DEFINE n == Cardinality(DOMAIN bodies)
           a == [id |-> r.id, error |-> "none", bodies |-> <<>>, count |-> n]
<1>1. n \in Nat
  <2>1. DOMAIN bodies \subseteq 1..next_id - 1 /\ IsFiniteSet(1..next_id - 1)
    BY Ids, FS_Interval
  <2> QED BY <2>1, FS_Subset, FS_CardinalityType
<1>2. a.error = "none" /\ a.count = n /\ bodies' = bodies /\ r.call.method = "info"
  BY DEF Info
<1>3. Seen!Effect(bodies, r, a, bodies')
  <2>1. n = Seen!Cardinality(DOMAIN bodies)
    BY DEF Cardinality, Seen!Cardinality
  <2> HIDE DEF a, n
  <2> QED BY <1>2, <2>1 DEF Seen!Effect
<1>4. Seen!Refused(bodies, r, a)
  BY <1>2 DEF Seen!Refused
<1>5. Write(r, "none", <<>>, n) /\ <<>> \in Seq(Nat)
  BY DEF Info
<1> HIDE DEF n
<1> QED BY <1>1, <1>3, <1>4, <1>5, WriteAnswers

\* gmk.body.bbox, gmk.body.validate and gmk.tessellate
LEMMA QueryAnswers ==
  ASSUME NEW r \in AllRequests, Query(r)
  PROVE  HandlerAnswers(r)
<1>1. CASE r.call.id \notin DOMAIN bodies /\ Error(r, "InvalidParams")
  BY <1>1, ErrorAnswers
<1>2. CASE r.call.id \in DOMAIN bodies /\ Result(r) /\ UNCHANGED <<bodies, next_id>>
  <2> DEFINE a == [id |-> r.id, error |-> "none", bodies |-> <<>>, count |-> 0]
  <2>1. a.error = "none" /\ r.call.method = "query" /\ bodies' = bodies
    BY <1>2 DEF Query
  <2>2. Seen!Effect(bodies, r, a, bodies') /\ Seen!Refused(bodies, r, a)
    <3> HIDE DEF a
    <3> QED BY <1>2, <2>1 DEF Seen!Effect, Seen!Refused
  <2>3. Write(r, "none", <<>>, 0) /\ <<>> \in Seq(Nat) /\ 0 \in Nat
    BY <1>2 DEF Result
  <2> QED BY <2>2, <2>3, WriteAnswers
<1> QED BY <1>1, <1>2 DEF Query

\* gmk.body.delete
LEMMA DeleteAnswers ==
  ASSUME NEW r \in AllRequests, Delete(r)
  PROVE  HandlerAnswers(r)
<1>1. CASE r.call.id \notin DOMAIN bodies /\ Error(r, "InvalidParams")
  BY <1>1, ErrorAnswers
<1>2. CASE /\ r.call.id \in DOMAIN bodies
           /\ bodies' = [i \in DOMAIN bodies \ {r.call.id} |-> bodies[i]]
           /\ Result(r)
  <2> DEFINE a == [id |-> r.id, error |-> "none", bodies |-> <<>>, count |-> 0]
  <2>1. a.error = "none" /\ r.call.method = "delete"
    BY DEF Delete
  <2>2. Seen!Effect(bodies, r, a, bodies') /\ Seen!Refused(bodies, r, a)
    <3> HIDE DEF a
    <3> QED BY <1>2, <2>1 DEF Seen!Effect, Seen!Refused
  <2>3. Write(r, "none", <<>>, 0) /\ <<>> \in Seq(Nat) /\ 0 \in Nat
    BY <1>2 DEF Result
  <2> QED BY <2>2, <2>3, WriteAnswers
<1> QED BY <1>1, <1>2 DEF Delete

\* gmk.session.clear
LEMMA ClearAnswers ==
  ASSUME NEW r \in AllRequests, Clear(r)
  PROVE  HandlerAnswers(r)
<1> DEFINE a == [id |-> r.id, error |-> "none", bodies |-> <<>>, count |-> 0]
<1>1. a.error = "none" /\ r.call.method = "clear" /\ bodies' = [i \in {} |-> <<0, 0>>]
  BY DEF Clear, NoBodies
<1>2. Seen!Effect(bodies, r, a, bodies') /\ Seen!Refused(bodies, r, a)
  <2> HIDE DEF a
  <2> QED BY <1>1 DEF Seen!Effect, Seen!Refused
<1>3. Write(r, "none", <<>>, 0) /\ <<>> \in Seq(Nat) /\ 0 \in Nat
  BY DEF Clear, Result
<1> QED BY <1>2, <1>3, WriteAnswers

\* The ids listed by an evaluation, and by a primitive that is one
IdsFrom(next, count) == [k \in 1..count |-> next + k - 1]

\* The bodies stored one after the other join the others under the ids listed.
LEMMA AddAllJoins ==
  ASSUME NEW base, NEW next \in Nat, NEW count \in Nat, NEW r, next >= 1,
         \A i \in DOMAIN base : i \in 1..next - 1
  PROVE  /\ IdsFrom(next, count) \in Seq(Nat)
         /\ Len(IdsFrom(next, count)) = count
         /\ Seen!FreshFor(base, IdsFrom(next, count))
         /\ AddAll(base, next, r.n, count) = Seen!Joined(base, r, IdsFrom(next, count))
<1> DEFINE ids == IdsFrom(next, count)
<1>1. /\ DOMAIN ids = 1..count /\ \A k \in 1..count : ids[k] = next + k - 1
      /\ ids \in Seq(Nat) /\ Len(ids) = count
  BY DEF IdsFrom
<1> HIDE DEF ids
<1>2. Seen!FreshFor(base, ids)
  BY <1>1 DEF Seen!FreshFor
<1>3. {ids[k] : k \in DOMAIN ids} = next..next + count - 1
  <2>1. ASSUME NEW i \in next..next + count - 1 PROVE i \in {ids[k] : k \in DOMAIN ids}
    <3>1. i - next + 1 \in 1..count
      OBVIOUS
    <3>2. ids[i - next + 1] = i
      BY <1>1, <3>1
    <3> QED BY <1>1, <3>1, <3>2
  <2>2. ASSUME NEW k \in DOMAIN ids PROVE ids[k] \in next..next + count - 1
    BY <1>1
  <2> QED BY <2>1, <2>2
<1>4. ASSUME NEW i \in next..next + count - 1
      PROVE  i - next + 1 = CHOOSE k \in DOMAIN ids : ids[k] = i
  <2>1. i - next + 1 \in DOMAIN ids /\ ids[i - next + 1] = i
    BY <1>1
  <2>2. \A k \in DOMAIN ids : ids[k] = i => k = i - next + 1
    BY <1>1
  <2> DEFINE j == CHOOSE k \in DOMAIN ids : ids[k] = i
  <2>3. j \in DOMAIN ids /\ ids[j] = i
    BY <2>1
  <2> HIDE DEF j
  <2>4. j = i - next + 1
    BY <2>2, <2>3
  <2> QED BY <2>4 DEF j
<1>5. AddAll(base, next, r.n, count) = Seen!Joined(base, r, ids)
  <2> DEFINE D == DOMAIN base \cup (next..next + count - 1)
             one(i) == IF i \in DOMAIN base THEN base[i] ELSE <<r.n, i - next + 1>>
             two(i) == IF i \in DOMAIN base THEN base[i]
                       ELSE <<r.n, CHOOSE k \in DOMAIN ids : ids[k] = i>>
  <2>1. \A i \in D : one(i) = two(i)
    BY <1>4
  <2>2. AddAll(base, next, r.n, count) = [i \in D |-> one(i)]
    BY DEF AddAll
  <2>3. Seen!Joined(base, r, ids) = [i \in D |-> two(i)]
    BY <1>3 DEF Seen!Joined
  <2> HIDE DEF D, one, two
  <2> QED BY <2>1, <2>2, <2>3
<1> QED BY <1>1, <1>2, <1>5 DEF ids

\* gmk.lang.eval
LEMMA EvalAnswers ==
  ASSUME IInv, NEW r \in AllRequests, Eval(r)
  PROVE  HandlerAnswers(r)
<1>1. r.call.built \in Nat /\ r.call.method = "eval"
  BY DEF AllRequests, Eval
<1>2. PICK base : base = IF r.call.clear THEN NoBodies ELSE bodies
  OBVIOUS
<1>3. PICK next : next = IF r.call.clear THEN 1 ELSE next_id
  OBVIOUS
<1>4. PICK count : count = r.call.built
  OBVIOUS
<1>5. /\ next \in Nat /\ next >= 1 /\ count \in Nat
      /\ \A i \in DOMAIN base : i \in 1..next - 1
  BY <1>1, <1>2, <1>3, <1>4, Ids DEF NoBodies
<1>6. PICK ids : ids = IdsFrom(next, count)
  OBVIOUS
<1>7. /\ ids \in Seq(Nat) /\ Len(ids) = count
      /\ Seen!FreshFor(base, ids)
      /\ AddAll(base, next, r.n, count) = Seen!Joined(base, r, ids)
  BY <1>5, <1>6, AddAllJoins
<1>8. bodies' = AddAll(base, next, r.n, count) /\ Write(r, "none", ids, 0)
  BY <1>2, <1>3, <1>4, <1>6 DEF Eval, IdsFrom
<1> DEFINE a == [id |-> r.id, error |-> "none", bodies |-> ids, count |-> 0]
<1>9. a.error = "none" /\ a.bodies = ids
  OBVIOUS
<1>10. Seen!Effect(bodies, r, a, bodies') /\ Seen!Refused(bodies, r, a)
  <2>1. base = IF r.call.clear THEN [i \in {} |-> <<0, 0>>] ELSE bodies
    BY <1>2 DEF NoBodies
  <2>2. Len(a.bodies) = r.call.built /\ Seen!FreshFor(base, a.bodies)
        /\ bodies' = Seen!Joined(base, r, a.bodies)
    BY <1>4, <1>7, <1>8, <1>9
  <2> HIDE DEF a
  <2> QED BY <1>1, <1>9, <2>1, <2>2 DEF Seen!Effect, Seen!Refused
<1> QED BY <1>7, <1>8, <1>10, WriteAnswers

\* The five primitives: refused, or one body under the next id
LEMMA PrimitiveAnswers ==
  ASSUME IInv, NEW r \in AllRequests, Primitive(r)
  PROVE  HandlerAnswers(r)
<1>0. r.call.method = "primitive"
  BY DEF Primitive
<1>1. CASE Error(r, "InvalidParams")
  BY <1>0, <1>1, ErrorAnswers
<1>2. CASE /\ bodies' = Emplace(bodies, next_id, <<r.n, 1>>)
           /\ Write(r, "none", <<next_id>>, 0)
  <2>1. PICK base : base = bodies
    OBVIOUS
  <2>2. PICK next \in Nat : next = next_id /\ next >= 1
    BY Ids
  <2>3. PICK one \in Nat : one = 1
    OBVIOUS
  <2>4. PICK ids : ids = IdsFrom(next, one)
    OBVIOUS
  <2>5. ids = <<next>>
    BY <2>3, <2>4 DEF IdsFrom
  <2>6. \A i \in DOMAIN base : i \in 1..next - 1
    BY <2>1, <2>2, Ids
  <2>7. /\ ids \in Seq(Nat) /\ Len(ids) = one
        /\ Seen!FreshFor(base, ids)
        /\ AddAll(base, next, r.n, one) = Seen!Joined(base, r, ids)
    BY <2>2, <2>4, <2>6, AddAllJoins
  <2>8. AddAll(base, next, r.n, one) = Emplace(base, next, <<r.n, 1>>)
    <3>1. next..next + one - 1 = {next} /\ next - next + 1 = 1
      BY <2>3
    <3> QED BY <3>1 DEF AddAll, Emplace
  <2> DEFINE a == [id |-> r.id, error |-> "none", bodies |-> ids, count |-> 0]
  <2>9. a.error = "none" /\ a.bodies = ids
    OBVIOUS
  <2>10. Seen!Effect(bodies, r, a, bodies') /\ Seen!Refused(bodies, r, a)
    <3>1. Len(a.bodies) = 1 /\ Seen!FreshFor(bodies, a.bodies)
          /\ bodies' = Seen!Joined(bodies, r, a.bodies)
      BY <1>2, <2>1, <2>2, <2>3, <2>7, <2>8, <2>9
    <3> HIDE DEF a
    <3> QED BY <1>0, <2>9, <3>1 DEF Seen!Effect, Seen!Refused
  <2>11. Write(r, "none", ids, 0)
    BY <1>2, <2>2, <2>5
  <2> QED BY <2>7, <2>10, <2>11, WriteAnswers
<1> QED BY <1>1, <1>2 DEF Primitive

\* Whatever the first frame calls
LEMMA DispatchAnswers ==
  ASSUME IInv, NEW r \in AllRequests, Dispatch(r)
  PROVE  HandlerAnswers(r)
<1>1. CASE Unknown(r)
  BY <1>1, ErrorAnswers DEF Unknown
<1>2. CASE NoMethod(r)
  BY <1>2, ErrorAnswers DEF NoMethod
<1> QED BY <1>1, <1>2, InfoAnswers, QueryAnswers, DeleteAnswers, ClearAnswers,
           EvalAnswers, PrimitiveAnswers DEF Dispatch

\* The client concludes from a reply what the call has done to the session.
LEMMA LearnsTrue ==
  ASSUME NEW r, NEW a, NEW t, Seen!Answered(known, r, a, t)
  PROVE  Learn(r, a) = t
<1>1. CASE a.error # "none"
  BY <1>1 DEF Learn, Seen!Answered, Seen!Effect
<1>2. CASE a.error = "none" /\ r.call.method \in {"info", "query"}
  <2>1. t = known
    BY <1>2 DEF Seen!Answered, Seen!Effect
  <2>2. Learn(r, a) = known
    BY <1>2 DEF Learn
  <2> QED BY <2>1, <2>2
<1>3. CASE a.error = "none" /\ r.call.method = "delete"
  <2>1. t = [i \in DOMAIN known \ {r.call.id} |-> known[i]]
    BY <1>3 DEF Seen!Answered, Seen!Effect
  <2>2. Learn(r, a) = [i \in DOMAIN known \ {r.call.id} |-> known[i]]
    BY <1>3 DEF Learn
  <2> QED BY <2>1, <2>2
<1>4. CASE a.error = "none" /\ r.call.method = "clear"
  <2>1. t = NoBodies
    BY <1>4 DEF Seen!Answered, Seen!Effect, NoBodies
  <2>2. Learn(r, a) = NoBodies
    BY <1>4 DEF Learn
  <2> QED BY <2>1, <2>2
<1>5. CASE a.error = "none" /\ r.call.method \in {"primitive", "eval"}
  <2>1. PICK base : base = IF r.call.method = "eval" /\ r.call.clear
                           THEN NoBodies ELSE known
    OBVIOUS
  <2>2. Seen!FreshFor(base, a.bodies) /\ t = Seen!Joined(base, r, a.bodies)
    BY <1>5, <2>1 DEF Seen!Answered, Seen!Effect, NoBodies
  <2> DEFINE ids == {a.bodies[k] : k \in DOMAIN a.bodies}
             D == DOMAIN base \cup ids
             place(i) == <<r.n, CHOOSE k \in DOMAIN a.bodies : a.bodies[k] = i>>
             one(i) == IF i \in ids THEN place(i) ELSE base[i]
             two(i) == IF i \in DOMAIN base THEN base[i] ELSE place(i)
  <2>3. Learn(r, a) = [i \in D |-> one(i)]
    BY <1>5, <2>1 DEF Learn
  <2>4. t = [i \in D |-> two(i)]
    BY <2>2 DEF Seen!Joined
  <2>5. \A i \in ids : i \notin DOMAIN base
    BY <2>2 DEF Seen!FreshFor
  <2>6. \A i \in D : one(i) = two(i)
    <3> HIDE DEF ids, place
    <3> QED BY <2>5
  <2> HIDE DEF D, one, two
  <2> QED BY <2>3, <2>4, <2>6
<1>6. a.error = "none" => r.call.method \in {"info", "query", "delete", "clear",
                                            "primitive", "eval"}
  BY DEF Seen!Answered, Seen!Effect
<1> QED BY <1>1, <1>2, <1>3, <1>4, <1>5, <1>6

------------------------------------------------------------------------------
(* The invariant of the replies *)

\* The server starts with no reply under way and no call sent.
LEMMA InitRInv == Init => RInv
<1> SUFFICES ASSUME Init PROVE RInv
  OBVIOUS
<1>1. output = <<>> /\ input = <<>> /\ awaiting = <<>> /\ known = bodies
  BY DEF Init
<1>2. Carried(<<>>) = <<>>
  <2>1. Messages(<<>>) = <<>>
    BY PickEmpty DEF Messages
  <2> QED BY <2>1 DEF Carried, CallsOf
<1>3. Mirrored
  <2> DEFINE h == [i \in 1..1 |-> known]
  <2>1. Chain(h, <<>>, output, known, bodies)
    BY <1>1 DEF Chain
  <2>2. awaiting = <<>> \o Carried(input) /\ <<>> \in Seq(AllRequests)
    BY <1>1, <1>2
  <2> HIDE DEF h
  <2> QED BY <2>1, <2>2 DEF Mirrored
<1>4. output \in Seq(Answer)
  BY <1>1
<1> QED BY <1>3, <1>4, InitIInv DEF RInv

\* The call moves from the input to the calls answered, the reply to the chain.
LEMMA ServeMirrors == ASSUME RInv, Serve PROVE output' \in Seq(Answer) /\ Mirrored'
<1>1. /\ input \in Seq(Frames) /\ input # <<>> /\ Head(input).kind = "message"
      /\ Head(input).msg \in AllRequests
  <2>1. input # <<>> /\ Head(input).kind = "message"
    BY DEF Serve, ReadStatus
  <2> QED BY <2>1, ReadTakesRequest DEF RInv, IInv, TypeOK, Serve
<1>2. PICK r \in AllRequests : r = Head(input).msg
  BY <1>1
<1>3. HandlerAnswers(r)
  BY <1>2, DispatchAnswers DEF Serve, RInv
<1>4. PICK a \in Answer : /\ output' = IF reading THEN Append(output, a) ELSE output
                          /\ Seen!Answered(bodies, r, a, bodies')
  BY <1>3 DEF HandlerAnswers
<1>5. input' = Tail(input) /\ UNCHANGED <<reading, awaiting, known>>
  BY DEF Serve, client
<1>6. output' \in Seq(Answer)
  BY <1>4 DEF RInv
<1>7. Mirrored'
  <2> SUFFICES ASSUME reading
               PROVE  \E h, q : /\ q \in Seq(AllRequests)
                                /\ Chain(h, q, output', known, bodies')
                                /\ awaiting = q \o Carried(Tail(input))
    BY <1>5 DEF Mirrored
  <2>1. PICK h, q : /\ q \in Seq(AllRequests)
                    /\ Chain(h, q, output, known, bodies)
                    /\ awaiting = q \o Carried(input)
    BY DEF RInv, Mirrored
  <2>2. PICK replies \in Seq(Answer) : replies = output
    BY DEF RInv
  <2>3. PICK s, t, u : s = known /\ t = bodies /\ u = bodies'
    OBVIOUS
  <2>4. Chain(h, q, replies, s, t) /\ Seen!Answered(t, r, a, u)
    BY <1>4, <2>1, <2>2, <2>3
  <2>5. \E g : Chain(g, Append(q, r), Append(replies, a), s, u)
    <3>1. q \in Seq(AllRequests)
      BY <2>1
    <3> QED BY ONLY <2>4, <3>1, ChainGrows, a \in Answer, r \in AllRequests,
                    replies \in Seq(Answer)
  <2>6. PICK g : Chain(g, Append(q, r), output', known, bodies')
    BY <1>4, <2>2, <2>3, <2>5
  <2>7. awaiting = Append(q, r) \o Carried(Tail(input))
    <3>1. Carried(input) = <<r>> \o Carried(Tail(input))
      BY <1>1, <1>2, CarriedTail
    <3>2. PICK c \in Seq(AllRequests) : c = Carried(Tail(input))
      <4>1. Tail(input) \in Seq(Frames)
        BY <1>1
      <4> QED BY <4>1, CarriedType
    <3>3. q \o (<<r>> \o c) = Append(q, r) \o c
      <4>1. q \in Seq(AllRequests)
        BY <2>1
      <4> QED BY ONLY <4>1, r \in AllRequests, c \in Seq(AllRequests)
    <3> QED BY <2>1, <3>1, <3>2, <3>3
  <2>8. Append(q, r) \in Seq(AllRequests)
    BY <2>1
  <2> QED BY <2>6, <2>7, <2>8
<1> QED BY <1>6, <1>7

\* A call sent is awaited last and carried last; a broken frame is neither.
LEMMA SendMirrors == ASSUME RInv, ClientSends PROVE output' \in Seq(Answer) /\ Mirrored'
<1>1. UNCHANGED <<bodies, output, reading, known>> /\ input \in Seq(Frames)
  BY DEF ClientSends, server, Send, SendBad, RInv, IInv, TypeOK
<1>2. output' \in Seq(Answer)
  BY <1>1 DEF RInv
<1>3. Mirrored'
  <2> SUFFICES ASSUME reading
               PROVE  \E h, q : /\ q \in Seq(AllRequests)
                                /\ Chain(h, q, output, known, bodies)
                                /\ awaiting' = q \o Carried(input')
    BY <1>1 DEF Mirrored
  <2>1. PICK h, q : /\ q \in Seq(AllRequests)
                    /\ Chain(h, q, output, known, bodies)
                    /\ awaiting = q \o Carried(input)
    BY DEF RInv, Mirrored
  <2>2. ASSUME NEW r \in Requests, Send(r) PROVE awaiting' = q \o Carried(input')
    <3>1. r \in AllRequests
      BY DEF Requests, AllRequests, RInv, IInv, TypeOK, ClientSends
    <3>2. PICK f \in Frames : f = [kind |-> "message", msg |-> r]
      BY <3>1 DEF Frames
    <3>3. Carried(Append(input, f)) = Append(Carried(input), r)
      <4>1. f.kind = "message" /\ f.msg = r
        BY <3>2
      <4> QED BY <1>1, <4>1, CarriedAppend
    <3>4. PICK c \in Seq(AllRequests) : c = Carried(input)
      BY <1>1, CarriedType
    <3>5. Append(q \o c, r) = q \o Append(c, r)
      <4>1. q \in Seq(AllRequests)
        BY <2>1
      <4> QED BY ONLY <3>1, <4>1, c \in Seq(AllRequests)
    <3>6. awaiting' = Append(awaiting, r) /\ input' = Append(input, f)
      BY <2>2, <3>2 DEF Send
    <3> QED BY <2>1, <3>3, <3>4, <3>5, <3>6
  <2>3. ASSUME NEW k \in BadKinds(Framing), SendBad(k)
        PROVE  awaiting' = q \o Carried(input')
    <3>1. PICK f \in Frames : f = BrokenFrame(k)
      BY DEF Frames
    <3>2. f.kind # "message"
      BY <3>1 DEF BrokenFrame, BadKinds
    <3>3. Carried(Append(input, f)) = Carried(input)
      BY <1>1, <3>2, CarriedAppend
    <3>4. awaiting' = awaiting /\ input' = Append(input, f)
      BY <2>3, <3>1 DEF SendBad
    <3> QED BY <2>1, <3>3, <3>4
  <2> QED BY <2>1, <2>2, <2>3 DEF ClientSends
<1> QED BY <1>2, <1>3

\* The oldest reply under way is true of the oldest call and the session the
\* client knows, and the client knows the next one afterwards.
LEMMA ReceiveMirrors ==
  ASSUME RInv, ClientReceives
  PROVE  /\ output' \in Seq(Answer) /\ Mirrored'
         /\ Seen!Answered(known, Head(awaiting), Head(output), known')
<1>1. /\ output # <<>> /\ output' = Tail(output) /\ awaiting' = Tail(awaiting)
      /\ known' = Learn(Head(awaiting), Head(output))
      /\ UNCHANGED <<bodies, input, reading>>
  BY DEF ClientReceives, server
<1>2. output \in Seq(Answer) /\ input \in Seq(Frames) /\ reading
  BY <1>1 DEF RInv, IInv, TypeOK
<1>3. PICK h, q : /\ q \in Seq(AllRequests)
                  /\ Chain(h, q, output, known, bodies)
                  /\ awaiting = q \o Carried(input)
  BY <1>2 DEF RInv, Mirrored
<1>4. /\ q # <<>>
      /\ Seen!Answered(known, Head(q), Head(output), h[2])
      /\ \E g : Chain(g, Tail(q), Tail(output), h[2], bodies)
  BY <1>1, <1>2, <1>3, ChainShrinks
<1>5. Head(awaiting) = Head(q) /\ Tail(awaiting) = Tail(q) \o Carried(input)
  <2>1. PICK c \in Seq(AllRequests) : c = Carried(input)
    BY <1>2, CarriedType
  <2>2. Head(q \o c) = Head(q) /\ Tail(q \o c) = Tail(q) \o c
    <3>1. q \in Seq(AllRequests) /\ q # <<>>
      BY <1>3, <1>4
    <3> QED BY ONLY <3>1, c \in Seq(AllRequests)
  <2> QED BY <1>3, <2>1, <2>2
<1>6. known' = h[2]
  BY <1>1, <1>4, <1>5, LearnsTrue
<1>7. Mirrored'
  <2>1. PICK g : Chain(g, Tail(q), Tail(output), h[2], bodies)
    BY <1>4
  <2>2. Tail(q) \in Seq(AllRequests)
    BY <1>3, <1>4
  <2>3. Chain(g, Tail(q), output', known', bodies')
    BY <1>1, <1>6, <2>1
  <2>4. awaiting' = Tail(q) \o Carried(input')
    BY <1>1, <1>5
  <2>5. \E h2, q2 : /\ q2 \in Seq(AllRequests)
                    /\ Chain(h2, q2, output', known', bodies')
                    /\ awaiting' = q2 \o Carried(input')
    BY <2>2, <2>3, <2>4
  <2> QED BY <2>5 DEF Mirrored
<1>8. output' \in Seq(Answer)
  BY <1>1, <1>2
<1> QED BY <1>4, <1>5, <1>6, <1>7, <1>8

\* Every step of the server and of its client
LEMMA NextRInv == RInv /\ [Next]_vars => RInv'
<1> SUFFICES ASSUME RInv, [Next]_vars PROVE RInv'
  OBVIOUS
<1>1. IInv'
  BY NextIInv DEF RInv
<1>2. CASE Serve
  BY <1>1, <1>2, ServeMirrors DEF RInv
<1>3. CASE ClientSends
  BY <1>1, <1>3, SendMirrors DEF RInv
<1>4. CASE ClientReceives
  BY <1>1, <1>4, ReceiveMirrors DEF RInv
<1>5. CASE ClientStopsReading
  <2>1. reading' = FALSE /\ output' = <<>>
    BY <1>5 DEF ClientStopsReading
  <2> QED BY <1>1, <2>1 DEF RInv, Mirrored
<1>6. CASE Stop \/ ClientCloses \/ UNCHANGED vars
  <2>1. UNCHANGED <<bodies, input, output, reading, awaiting, known>>
    BY <1>6 DEF Stop, ClientCloses, server, client, vars
  <2>2. output' \in Seq(Answer) /\ Mirrored'
    BY <2>1 DEF RInv, Mirrored
  <2> QED BY <1>1, <2>2 DEF RInv
<1> QED BY <1>2, <1>3, <1>4, <1>5, <1>6 DEF Next, Done

\* The invariant holds in every reachable state.
LEMMA Replies == Spec => []RInv
BY InitRInv, NextRInv, PTL DEF Spec

\* The types of the server's fields, of the frames and of what run() returns
THEOREM ServerTypes == Spec => []TypeOK
<1>1. IInv => TypeOK
  BY DEF IInv
<1> QED BY <1>1, InitIInv, NextIInv, PTL DEF Spec

\* One reply per well-formed frame, in the order of the frames and with their
\* ids, however far the client runs ahead of the replies.
THEOREM RepliesAreConserved == Spec => []RepliesConserved
<1>1. RInv => RepliesConserved
  <2> SUFFICES ASSUME RInv, reading
               PROVE  [i \in DOMAIN awaiting |-> awaiting[i].id] =
                      [i \in DOMAIN output |-> output[i].id] \o
                      [i \in DOMAIN Messages(input) |-> Messages(input)[i].msg.id]
    BY DEF RepliesConserved
  <2>1. PICK h, q : /\ q \in Seq(AllRequests)
                    /\ Chain(h, q, output, known, bodies)
                    /\ awaiting = q \o Carried(input)
    BY DEF RInv, Mirrored
  <2>2. output \in Seq(Answer) /\ input \in Seq(Frames)
    BY DEF RInv, IInv, TypeOK
  <2>3. PICK c \in Seq(AllRequests) : c = Carried(input)
    BY <2>2, CarriedType
  <2>4. PICK ms \in Seq(Frames) : ms = Messages(input)
    BY <2>2, CarriedType
  <2>5. PICK replies \in Seq(Answer) : replies = output
    BY <2>2
  <2>6. Len(q) = Len(replies) /\ \A k \in 1..Len(replies) : replies[k].id = q[k].id
    BY <2>1, <2>5 DEF Chain, Seen!Answered
  <2>7. c = [i \in DOMAIN ms |-> ms[i].msg]
    BY <2>3, <2>4 DEF Carried, CallsOf
  <2> DEFINE a == [i \in DOMAIN replies |-> replies[i].id]
             b == [i \in DOMAIN ms |-> ms[i].msg.id]
             n == Len(replies)
             m == Len(ms)
  <2>8. /\ n \in Nat /\ m \in Nat /\ Len(q) = n /\ Len(c) = m
        /\ DOMAIN replies = 1..n /\ DOMAIN ms = 1..m
        /\ DOMAIN (q \o c) = 1..n + m
        /\ \A i \in 1..n : (q \o c)[i] = q[i]
        /\ \A i \in n + 1..n + m : (q \o c)[i] = c[i - n]
    <3>1. Len(c) = m
      BY <2>7
    <3>2. q \in Seq(AllRequests) /\ Len(q) = n
      BY <2>1, <2>6
    <3>3. n \in Nat /\ m \in Nat /\ DOMAIN replies = 1..n /\ DOMAIN ms = 1..m
      OBVIOUS
    <3> HIDE DEF n, m
    <3> QED BY ONLY <3>1, <3>2, <3>3, c \in Seq(AllRequests)
  <2>9. /\ Len(a) = n /\ Len(b) = m
        /\ \A i \in 1..n : a[i] = replies[i].id
        /\ \A i \in 1..m : b[i] = ms[i].msg.id
        /\ a \o b = [i \in 1..n + m |-> IF i <= n THEN a[i] ELSE b[i - n]]
    BY <2>8
  <2>10. \A i \in 1..m : b[i] = c[i].id
    BY <2>7, <2>8, <2>9
  <2> HIDE DEF a, b, n, m
  <2>11. [i \in DOMAIN (q \o c) |-> (q \o c)[i].id] = a \o b
    <3>1. \A i \in 1..n + m : (q \o c)[i].id = IF i <= n THEN a[i] ELSE b[i - n]
      <4> SUFFICES ASSUME NEW i \in 1..n + m
                   PROVE  (q \o c)[i].id = IF i <= n THEN a[i] ELSE b[i - n]
        OBVIOUS
      <4>1. CASE i <= n
        <5>1. i \in 1..n
          BY <2>8, <4>1
        <5> QED BY <2>6, <2>8, <2>9, <4>1, <5>1 DEF n
      <4>2. CASE ~(i <= n)
        <5>1. i \in n + 1..n + m /\ i - n \in 1..m
          BY <2>8, <4>2
        <5> QED BY <2>8, <2>10, <4>2, <5>1
      <4> QED BY <4>1, <4>2
    <3> QED BY <2>8, <2>9, <3>1
  <2>12. awaiting = q \o c
    BY <2>1, <2>3
  <2> QED BY <2>4, <2>5, <2>11, <2>12 DEF a, b
<1> QED BY <1>1, Replies, PTL

\* A client that has read every reply knows the session exactly.
THEOREM MirrorIsExact == Spec => []QuiescentMirror
<1>1. RInv => QuiescentMirror
  <2> SUFFICES ASSUME RInv, reading, output = <<>> PROVE known = bodies
    BY DEF QuiescentMirror
  <2>1. PICK h, q : Chain(h, q, output, known, bodies)
    BY DEF RInv, Mirrored
  <2> QED BY <2>1 DEF Chain
<1> QED BY <1>1, Replies, PTL

\* The initial states are those of an atomic session.
LEMMA SessionInit == Init => Seen!Init
BY DEF Init, Seen!Init, NoBodies

\* Sending a call is submitting it and receiving a reply is the call's atomic
\* effect; nothing the server does is visible.
LEMMA SessionStep == RInv /\ [Next]_vars => [Seen!Next]_(Seen!vars)
<1> SUFFICES ASSUME RInv, [Next]_vars PROVE Seen!Next \/ UNCHANGED Seen!vars
  OBVIOUS
<1>1. CASE ClientReceives
  <2>1. Seen!Answered(known, Head(awaiting), Head(output), known')
    BY <1>1, ReceiveMirrors
  <2>2. awaiting # <<>> /\ awaiting' = Tail(awaiting) /\ reply' = Head(output)
    BY <1>1 DEF ClientReceives
  <2> QED BY <2>1, <2>2 DEF Seen!Next, Seen!Answer
<1>2. CASE ClientSends
  <2>1. ASSUME NEW r \in Requests, Send(r) PROVE Seen!Next
    <3>1. r \in AllRequests
      BY <1>2 DEF Requests, AllRequests, RInv, IInv, TypeOK, ClientSends
    <3>2. Seen!Submit(r)
      BY <2>1 DEF Send, Seen!Submit
    <3> QED BY <3>1, <3>2 DEF Seen!Next
  <2>2. ASSUME NEW k \in BadKinds(Framing), SendBad(k) PROVE UNCHANGED Seen!vars
    BY <2>2 DEF SendBad, Seen!vars
  <2> QED BY <1>2, <2>1, <2>2 DEF ClientSends
<1>3. CASE Serve \/ Stop \/ ClientCloses \/ ClientStopsReading \/ UNCHANGED vars
  BY <1>3 DEF Serve, Stop, ClientCloses, ClientStopsReading, client, vars, Seen!vars
<1> QED BY <1>1, <1>2, <1>3 DEF Next, Done

\* Pipelined calls take effect one at a time and in order, and every reply is
\* true of the session at that point: the geometry server implements Session.
THEOREM ServerImplementsSession == Spec => RefinesSession
BY SessionInit, SessionStep, Replies, PTL DEF Spec, RefinesSession, Seen!Spec
==============================================================================
