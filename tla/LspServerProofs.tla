--------------------------- MODULE LspServerProofs ----------------------------
(***************************************************************************)
(* The language server, for any documents and texts and any number of      *)
(* frames, with an editor that never waits: the documents it keeps are the *)
(* editor's but for the frames still to be read, each request gets one     *)
(* response and a true one, and the last diagnostics are those of the text *)
(* shown.                                                                  *)
(*                                                                         *)
(* The argument follows the frames still to be read.  To each place in the *)
(* input belong the documents as they will be there and the responses due  *)
(* from there on; the first place is the server, the last one the editor.  *)
(***************************************************************************)
EXTENDS LspServer, StreamProofs

USE MaxSentAssumption

Document == [text : Texts, version : 1..MaxSent]
DocMaps == UNION {[D -> Document] : D \in SUBSET Uris}

Methods == DOMAIN Fixed \cup Unheeded \cup
           {"didOpen", "didChange", "didClose", "hover", "exit", "none"}
AnyMessage == [n : 1..MaxSent, method : Methods, uri : Uris \cup {"none"},
               text : Texts \cup {"none"}, version : 1..MaxSent]

\* The messages the editor sends: one about a document names it, and a didOpen
\* brings the text.
Messages == {m \in AnyMessage :
  /\ m.method \in {"didOpen", "didChange", "didClose", "hover"} => m.uri \in Uris
  /\ m.method = "didOpen" => m.text \in Texts}
InFrames == [kind : {"message"} \cup BadKinds("headers"), msg : Messages]

Values == Texts \cup {"capabilities", "null", "MethodNotFound"}
Response == [id : 1..MaxSent, value : Values]
OutFrames == [kind : {"response"}, id : 1..MaxSent, value : Values] \cup
             [kind : {"diagnostics"}, uri : Uris, doc : Document]

\* The response on its way to the editor, as it expects it
ToldBy(answers) ==
  [i \in 1..Len(answers) |-> [id |-> answers[i].id, value |-> answers[i].value]]
Told(frames) == ToldBy(Pick(frames, {i \in DOMAIN frames : IsAnswer(frames[i])}))

\* What a request should be answered when the documents are map
AnswerTo(map, m) ==
  [id |-> m.n,
   value |-> IF m.method = "hover"
             THEN IF m.uri \in DOMAIN map THEN map[m.uri].text ELSE "null"
             ELSE Fixed[m.method]]

\* A place in the input: the documents there and the responses due from there on
Places == [docs : DocMaps, due : Seq(Response)]

\* Frame f between the places a and b
Link(a, f, b) ==
  /\ b.docs = Apply(a.docs, f)
  /\ IsMessage(f) /\ f.msg.method = "didChange" => f.msg.uri \in DOMAIN a.docs
  /\ a.due = IF IsRequest(f) THEN <<AnswerTo(a.docs, f.msg)>> \o b.due ELSE b.due

\* Places c lead from the documents d over the frames to the documents o.
Path(c, d, frames, o) ==
  /\ c \in Seq(Places)
  /\ Len(c) = Len(frames) + 1
  /\ c[1].docs = d
  /\ c[Len(c)].docs = o
  /\ c[Len(c)].due = <<>>
  /\ \A k \in 1..Len(frames) : Link(c[k], frames[k], c[k + 1])

IsDiagnostics(g, u) == g.kind = "diagnostics" /\ g.uri = u

\* The last frame about document u carries doc, and when there is none the
\* editor shows doc.
Fresh(frames, seen, u, doc) ==
  \/ \E k \in 1..Len(frames) :
       /\ IsDiagnostics(frames[k], u) /\ frames[k].doc = doc
       /\ \A j \in k + 1..Len(frames) : ~IsDiagnostics(frames[j], u)
  \/ /\ \A j \in 1..Len(frames) : ~IsDiagnostics(frames[j], u)
     /\ u \in DOMAIN seen /\ seen[u] = doc

Typed ==
  /\ docs \in DocMaps /\ open \in DocMaps /\ shown \in DocMaps
  /\ status \in {"running", "Ok", "Parse", "Killed"}
  /\ status = "Killed" => ~reading
  /\ sent \in 0..MaxSent
  /\ input \in Seq(InFrames)
  /\ output \in Seq(OutFrames)
  /\ awaiting \in Seq(Response)
  /\ ~reading => output = <<>>
  /\ reading \in BOOLEAN

Conserved == \E c : /\ Path(c, docs, input, open)
                    /\ reading => awaiting = Told(output) \o c[1].due

AllFresh == reading => \A u \in DOMAIN docs : Fresh(output, shown, u, docs[u])

IInv == Typed /\ Conserved /\ AllFresh
------------------------------------------------------------------------------
(* Maps of documents *)

\* A map of open documents is a function from some of the addresses.
LEMMA MapsAreFunctions ==
  ASSUME NEW map \in DocMaps
  PROVE  /\ DOMAIN map \subseteq Uris
         /\ \A u \in DOMAIN map : map[u] \in Document
         /\ map = [u \in DOMAIN map |-> map[u]]
BY DEF DocMaps

\* docs_[uri] = ... gives one address a document and leaves the others.
LEMMA WithMap ==
  ASSUME NEW map \in DocMaps, NEW u \in Uris, NEW doc \in Document
  PROVE  /\ With(map, u, doc) \in DocMaps
         /\ DOMAIN With(map, u, doc) = DOMAIN map \cup {u}
         /\ \A v \in DOMAIN map \cup {u} :
              With(map, u, doc)[v] = IF v = u THEN doc ELSE map[v]
<1>1. DOMAIN map \cup {u} \in SUBSET Uris
  BY MapsAreFunctions
<1>2. With(map, u, doc) \in [DOMAIN map \cup {u} -> Document]
  BY MapsAreFunctions DEF With
<1>3. With(map, u, doc) \in DocMaps
  BY <1>1, <1>2 DEF DocMaps
<1> QED BY <1>3 DEF With

\* docs_.erase(uri) leaves all documents but one.
LEMMA WithoutMap ==
  ASSUME NEW map \in DocMaps, NEW u
  PROVE  /\ Without(map, u) \in DocMaps
         /\ DOMAIN Without(map, u) = DOMAIN map \ {u}
         /\ \A v \in DOMAIN map \ {u} : Without(map, u)[v] = map[v]
<1>1. DOMAIN map \ {u} \in SUBSET Uris
  BY MapsAreFunctions
<1>2. Without(map, u) \in [DOMAIN map \ {u} -> Document]
  BY MapsAreFunctions DEF Without, Restrict
<1>3. Without(map, u) \in DocMaps
  BY <1>1, <1>2 DEF DocMaps
<1> QED BY <1>3 DEF Without, Restrict

\* An edited document is one.
LEMMA ChangedDocument ==
  ASSUME NEW doc \in Document, NEW m \in AnyMessage
  PROVE  Changed(doc, m) \in Document
BY DEF Document, Changed, Doc, AnyMessage

\* A response appended to two streams of them
LEMMA AppendResponse ==
  \A x, y \in Seq(Response), z \in Response : Append(x \o y, z) = x \o Append(y, z)
<1> SUFFICES ASSUME NEW x \in Seq(Response), NEW y \in Seq(Response), NEW z \in Response
             PROVE  Append(x \o y, z) = x \o Append(y, z)
  OBVIOUS
<1> QED OBVIOUS

\* A frame takes a map of documents to a map of documents.
LEMMA ApplyMap ==
  ASSUME NEW map \in DocMaps, NEW f \in InFrames,
         IsMessage(f) /\ f.msg.method = "didChange" => f.msg.uri \in DOMAIN map
  PROVE  Apply(map, f) \in DocMaps
<1> DEFINE m == f.msg
<1>1. m \in Messages /\ m \in AnyMessage
  BY DEF InFrames, Messages
<1>2. CASE ~IsMessage(f)
  BY <1>2 DEF Apply
<1>3. CASE IsMessage(f) /\ m.method = "didOpen"
  <2>1. m.uri \in Uris /\ Doc(m.text, m.version) \in Document
    BY <1>1, <1>3 DEF Messages, AnyMessage, Doc, Document
  <2>2. With(map, m.uri, Doc(m.text, m.version)) \in DocMaps
    BY <2>1, WithMap
  <2> QED BY <1>3, <2>2 DEF Apply
<1>4. CASE IsMessage(f) /\ m.method = "didChange"
  <2>1. m.uri \in Uris /\ m.uri \in DOMAIN map
    BY <1>1, <1>4 DEF Messages
  <2>2. Changed(map[m.uri], m) \in Document
    BY <2>1, <1>1, MapsAreFunctions, ChangedDocument
  <2>3. With(map, m.uri, Changed(map[m.uri], m)) \in DocMaps
    BY <2>1, <2>2, WithMap
  <2> QED BY <1>4, <2>3 DEF Apply
<1>5. CASE IsMessage(f) /\ m.method = "didClose"
  BY <1>5, WithoutMap DEF Apply
<1>6. CASE IsMessage(f) /\ m.method \notin {"didOpen", "didChange", "didClose"}
  BY <1>6 DEF Apply
<1> QED BY <1>2, <1>3, <1>4, <1>5, <1>6

------------------------------------------------------------------------------
(* Responses on their way *)

Reply(g) == [id |-> g.id, value |-> g.value]

\* The part of an answer that the editor is told is a response.
LEMMA ReplyIsResponse ==
  ASSUME NEW g \in OutFrames, IsAnswer(g)
  PROVE  Reply(g) \in Response
BY DEF OutFrames, IsAnswer, Reply, Response

\* What frames tell grows at either end with them.
LEMMA ToldByGrows ==
  ASSUME NEW R, NEW a \in Seq(R), NEW g \in R
  PROVE  /\ ToldBy(Append(a, g)) = Append(ToldBy(a), Reply(g))
         /\ ToldBy(<<g>> \o a) = <<Reply(g)>> \o ToldBy(a)
<1>1. Append(a, g) \in Seq(R) /\ Len(Append(a, g)) = Len(a) + 1 /\ Len(a) \in Nat
  OBVIOUS
<1>2. ToldBy(Append(a, g)) = Append(ToldBy(a), Reply(g))
  BY <1>1 DEF ToldBy, Reply
<1>3. /\ Len(<<g>> \o a) = Len(a) + 1 /\ (<<g>> \o a)[1] = g
      /\ \A i \in 2..Len(a) + 1 : (<<g>> \o a)[i] = a[i - 1]
  OBVIOUS
<1>4. ToldBy(<<g>> \o a) = <<Reply(g)>> \o ToldBy(a)
  BY <1>1, <1>3 DEF ToldBy, Reply
<1> QED BY <1>2, <1>4

\* What the output tells is a sequence of responses.
LEMMA ToldType ==
  ASSUME NEW out \in Seq(OutFrames)
  PROVE  Told(out) \in Seq(Response)
<1> DEFINE I == {i \in DOMAIN out : IsAnswer(out[i])}
           a == Pick(out, I)
<1>1. a \in Seq({out[i] : i \in 1..Len(out) \cap I})
  <2> HIDE DEF I
  <2> QED BY PickSound
<1>2. \A g \in {out[i] : i \in 1..Len(out) \cap I} : g \in OutFrames /\ IsAnswer(g)
  OBVIOUS
<1>3. \A i \in 1..Len(a) : Reply(a[i]) \in Response
  <2> HIDE DEF I, a
  <2>1. \A i \in 1..Len(a) : a[i] \in OutFrames /\ IsAnswer(a[i])
    BY <1>1, <1>2, ElementOfSeq
  <2> QED BY <2>1, ReplyIsResponse
<1>4. Len(a) \in Nat
  <2> HIDE DEF I, a
  <2> QED BY <1>1
<1>5. ToldBy(a) = [i \in 1..Len(a) |-> Reply(a[i])]
  BY DEF ToldBy, Reply
<1>6. ToldBy(a) \in Seq(Response)
  <2> HIDE DEF a
  <2> QED BY <1>3, <1>4, <1>5
<1> QED BY <1>6 DEF Told

\* An empty output tells nothing.
LEMMA ToldEmpty == Told(<<>>) = <<>>
BY PickEmpty DEF Told, ToldBy

\* A frame the server writes is told last.
LEMMA ToldAppend ==
  ASSUME NEW out \in Seq(OutFrames), NEW g \in OutFrames
  PROVE  Told(Append(out, g)) =
           IF IsAnswer(g) THEN Append(Told(out), Reply(g)) ELSE Told(out)
<1> DEFINE new == Append(out, g)
           I == {i \in DOMAIN out : IsAnswer(out[i])}
           J == {i \in DOMAIN new : IsAnswer(new[i])}
<1>1. /\ new \in Seq(OutFrames) /\ Len(new) = Len(out) + 1 /\ new[Len(out) + 1] = g
      /\ \A i \in 1..Len(out) : new[i] = out[i]
      /\ DOMAIN new = 1..Len(out) + 1 /\ DOMAIN out = 1..Len(out) /\ Len(out) \in Nat
  OBVIOUS
<1>2. Agree(I, J, Len(out))
  BY <1>1 DEF Agree
<1>3. Len(out) + 1 \in J <=> IsAnswer(g)
  BY <1>1
<1>4. Pick(Append(out, g), J) =
        IF Len(out) + 1 \in J THEN Append(Pick(out, I), g) ELSE Pick(out, I)
  <2> HIDE DEF I, J, new
  <2> QED BY <1>2, PickAppend
<1>5. Pick(out, I) \in Seq({out[i] : i \in 1..Len(out) \cap I})
  <2> HIDE DEF I
  <2> QED BY PickSound
<1>6. Pick(out, I) \in Seq(OutFrames)
  <2>1. {out[i] : i \in 1..Len(out) \cap I} \subseteq OutFrames
    BY <1>1, ElementOfSeq
  <2> HIDE DEF I
  <2> QED BY <1>5, <2>1, SeqMonotonic
<1>7. ToldBy(Append(Pick(out, I), g)) = Append(ToldBy(Pick(out, I)), Reply(g))
  <2> HIDE DEF I
  <2> QED BY <1>6, ToldByGrows
<1>8. Told(out) = ToldBy(Pick(out, I)) /\ Told(new) = ToldBy(Pick(new, J))
  BY DEF Told
<1> HIDE DEF I, J
<1> QED BY <1>3, <1>4, <1>7, <1>8

\* A frame the editor receives was told first.
LEMMA ToldTail ==
  ASSUME NEW out \in Seq(OutFrames), out # <<>>
  PROVE  Told(out) = IF IsAnswer(Head(out)) THEN <<Reply(Head(out))>> \o Told(Tail(out))
                                           ELSE Told(Tail(out))
<1> DEFINE rest == Tail(out)
           I == {i \in DOMAIN out : IsAnswer(out[i])}
           J == {i \in DOMAIN rest : IsAnswer(rest[i])}
<1>1. /\ rest \in Seq(OutFrames) /\ Len(rest) = Len(out) - 1 /\ Len(out) \in Nat \ {0}
      /\ \A i \in 1..Len(rest) : rest[i] = out[i + 1]
      /\ DOMAIN rest = 1..Len(rest) /\ DOMAIN out = 1..Len(out)
      /\ Head(out) = out[1] /\ Head(out) \in OutFrames
  OBVIOUS
<1>2. Follows(J, I, Len(out) - 1)
  BY <1>1 DEF Follows
<1>3. 1 \in I <=> IsAnswer(Head(out))
  BY <1>1
<1>4. Pick(out, I) = IF 1 \in I THEN <<Head(out)>> \o Pick(Tail(out), J) ELSE Pick(Tail(out), J)
  <2> HIDE DEF I, J, rest
  <2> QED BY <1>2, PickTail
<1>5. Pick(rest, J) \in Seq({rest[i] : i \in 1..Len(rest) \cap J})
  <2> HIDE DEF J, rest
  <2> QED BY <1>1, PickSound
<1>6. Pick(rest, J) \in Seq(OutFrames)
  <2>1. {rest[i] : i \in 1..Len(rest) \cap J} \subseteq OutFrames
    <3> HIDE DEF rest
    <3> QED BY <1>1, ElementOfSeq
  <2> HIDE DEF J, rest
  <2> QED BY <1>5, <2>1, SeqMonotonic
<1>7. ToldBy(<<Head(out)>> \o Pick(rest, J)) = <<Reply(Head(out))>> \o ToldBy(Pick(rest, J))
  <2> HIDE DEF J, rest
  <2> QED BY <1>1, <1>6, ToldByGrows
<1>8. Told(out) = ToldBy(Pick(out, I)) /\ Told(rest) = ToldBy(Pick(rest, J))
  BY DEF Told
<1> HIDE DEF I, J
<1> QED BY <1>3, <1>4, <1>7, <1>8

------------------------------------------------------------------------------
(* Diagnostics on their way *)

\* Diagnostics stay fresh when a frame is written that is not about the
\* document, and become so when it is the document's own.
LEMMA FreshWritten ==
  ASSUME NEW out \in Seq(OutFrames), NEW g \in OutFrames, NEW seen, NEW u, NEW doc,
         \/ IsDiagnostics(g, u) /\ g.doc = doc
         \/ ~IsDiagnostics(g, u) /\ Fresh(out, seen, u, doc)
  PROVE  Fresh(Append(out, g), seen, u, doc)
<1> DEFINE new == Append(out, g)
           n == Len(out)
<1>1. /\ n \in Nat /\ Len(new) = n + 1 /\ new[n + 1] = g
      /\ \A i \in 1..n : new[i] = out[i]
  OBVIOUS
<1> HIDE DEF new, n
<1>2. CASE IsDiagnostics(g, u) /\ g.doc = doc
  <2>1. /\ n + 1 \in 1..Len(new) /\ IsDiagnostics(new[n + 1], u) /\ new[n + 1].doc = doc
        /\ \A j \in (n + 1) + 1..Len(new) : ~IsDiagnostics(new[j], u)
    BY <1>1, <1>2
  <2> QED BY <2>1 DEF Fresh, new
<1>3. CASE ~IsDiagnostics(g, u) /\ Fresh(out, seen, u, doc)
  <2>1. \A j \in 1..Len(new) : j \in 1..n \/ j = n + 1
    BY <1>1
  <2>2. CASE \E k \in 1..n : /\ IsDiagnostics(out[k], u) /\ out[k].doc = doc
                             /\ \A j \in k + 1..n : ~IsDiagnostics(out[j], u)
    <3>1. PICK k \in 1..n : /\ IsDiagnostics(out[k], u) /\ out[k].doc = doc
                            /\ \A j \in k + 1..n : ~IsDiagnostics(out[j], u)
      BY <2>2
    <3>2. k \in 1..Len(new) /\ IsDiagnostics(new[k], u) /\ new[k].doc = doc
      BY <1>1, <3>1
    <3>3. ASSUME NEW j \in k + 1..Len(new) PROVE ~IsDiagnostics(new[j], u)
      BY <1>1, <1>3, <3>1
    <3> QED BY <3>2, <3>3 DEF Fresh, new
  <2>3. CASE /\ \A j \in 1..n : ~IsDiagnostics(out[j], u)
             /\ u \in DOMAIN seen /\ seen[u] = doc
    <3>1. \A j \in 1..Len(new) : ~IsDiagnostics(new[j], u)
      BY <1>1, <1>3, <2>1, <2>3
    <3> QED BY <2>3, <3>1 DEF Fresh, new
  <2> QED BY <1>3, <2>2, <2>3 DEF Fresh, n
<1> QED BY <1>2, <1>3 DEF new

\* Diagnostics stay fresh when the editor takes in a frame and notes it.
LEMMA FreshReceived ==
  ASSUME NEW out \in Seq(OutFrames), out # <<>>, NEW seen, NEW seen2, NEW u, NEW doc,
         Fresh(out, seen, u, doc),
         IF IsDiagnostics(Head(out), u)
         THEN u \in DOMAIN seen2 /\ seen2[u] = Head(out).doc
         ELSE u \in DOMAIN seen => u \in DOMAIN seen2 /\ seen2[u] = seen[u]
  PROVE  Fresh(Tail(out), seen2, u, doc)
<1> DEFINE new == Tail(out)
           n == Len(out)
<1>1. /\ n \in Nat \ {0} /\ Len(new) = n - 1 /\ Head(out) = out[1]
      /\ \A i \in 1..n - 1 : new[i] = out[i + 1]
  OBVIOUS
<1> HIDE DEF new, n
<1>2. CASE \E k \in 1..n : /\ IsDiagnostics(out[k], u) /\ out[k].doc = doc
                           /\ \A j \in k + 1..n : ~IsDiagnostics(out[j], u)
  <2>1. PICK k \in 1..n : /\ IsDiagnostics(out[k], u) /\ out[k].doc = doc
                          /\ \A j \in k + 1..n : ~IsDiagnostics(out[j], u)
    BY <1>2
  <2>2. CASE k = 1
    <3>1. u \in DOMAIN seen2 /\ seen2[u] = doc
      BY <1>1, <2>1, <2>2
    <3>2. ASSUME NEW j \in 1..Len(new) PROVE ~IsDiagnostics(new[j], u)
      BY <1>1, <2>1, <2>2
    <3> QED BY <3>1, <3>2 DEF Fresh, new
  <2>3. CASE k # 1
    <3> DEFINE i == k - 1
    <3>1. i \in 1..n - 1 /\ i \in Nat /\ i + 1 = k
      BY <1>1, <2>1, <2>3
    <3>2. IsDiagnostics(new[i], u) /\ new[i].doc = doc
      BY <1>1, <2>1, <3>1
    <3>3. ASSUME NEW j \in i + 1..Len(new) PROVE ~IsDiagnostics(new[j], u)
      BY <1>1, <2>1, <3>1
    <3> QED BY <1>1, <3>1, <3>2, <3>3 DEF Fresh, new
  <2> QED BY <2>2, <2>3
<1>3. CASE /\ \A j \in 1..n : ~IsDiagnostics(out[j], u)
           /\ u \in DOMAIN seen /\ seen[u] = doc
  <2>1. u \in DOMAIN seen2 /\ seen2[u] = doc
    BY <1>1, <1>3
  <2>2. ASSUME NEW j \in 1..Len(new) PROVE ~IsDiagnostics(new[j], u)
    BY <1>1, <1>3
  <2> QED BY <2>1, <2>2 DEF Fresh, new
<1> QED BY <1>2, <1>3 DEF Fresh, n

------------------------------------------------------------------------------
(* Frames still to be read *)

\* What a request is due is a response.
LEMMA AnswerIsResponse ==
  ASSUME NEW map \in DocMaps, NEW f \in InFrames, IsRequest(f)
  PROVE  AnswerTo(map, f.msg) \in Response
<1>1. f.msg \in AnyMessage
  BY DEF InFrames, Messages
<1>2. f.msg.n \in 1..MaxSent
  BY <1>1 DEF AnyMessage
<1>3. CASE f.msg.method = "hover"
  BY <1>2, <1>3, MapsAreFunctions DEF AnswerTo, Response, Values, Document
<1>4. CASE f.msg.method # "hover"
  BY <1>2, <1>4 DEF IsRequest, AnswerTo, Response, Values, Fixed
<1> QED BY <1>3, <1>4

\* The server reads a frame: the rest of the path is left.
LEMMA PathRead ==
  ASSUME NEW frames \in Seq(InFrames), frames # <<>>, NEW d, NEW o, NEW c,
         Path(c, d, frames, o)
  PROVE  /\ Path(Tail(c), Apply(d, Head(frames)), Tail(frames), o)
         /\ Link(c[1], Head(frames), Tail(c)[1])
         /\ Tail(c)[1] \in Places /\ c[1] \in Places /\ c[1].docs = d
<1> DEFINE n == Len(frames)
           e == Tail(c)
           rest == Tail(frames)
<1>1. /\ c \in Seq(Places) /\ Len(c) = n + 1 /\ c[1].docs = d
      /\ c[n + 1].docs = o /\ c[n + 1].due = <<>>
      /\ \A k \in 1..n : Link(c[k], frames[k], c[k + 1])
  BY DEF Path
<1>2. /\ n \in Nat \ {0} /\ rest \in Seq(InFrames) /\ Len(rest) = n - 1
      /\ Head(frames) = frames[1] /\ \A k \in 1..n - 1 : rest[k] = frames[k + 1]
  OBVIOUS
<1>3. /\ e \in Seq(Places) /\ Len(e) = n
      /\ \A k \in 1..n : e[k] = c[k + 1]
  BY <1>1, <1>2
<1> HIDE DEF n, e, rest
<1>4. Link(c[1], Head(frames), e[1])
  BY <1>1, <1>2, <1>3
<1>5. e[1].docs = Apply(d, Head(frames))
  BY <1>1, <1>4 DEF Link
<1>6. ASSUME NEW k \in 1..n - 1 PROVE Link(e[k], rest[k], e[k + 1])
  <2>1. k \in 1..n /\ k + 1 \in 1..n
    BY <1>2
  <2> QED BY <2>1, <1>1, <1>2, <1>3
<1>7. Len(e) = Len(rest) + 1 /\ e[Len(e)].docs = o /\ e[Len(e)].due = <<>>
  BY <1>1, <1>2, <1>3
<1>8. Path(e, Apply(d, Head(frames)), rest, o)
  BY <1>2, <1>3, <1>5, <1>6, <1>7 DEF Path
<1>9. e[1] \in Places /\ c[1] \in Places
  BY <1>1, <1>2, <1>3, ElementOfSeq
<1> QED BY <1>1, <1>4, <1>8, <1>9 DEF e, rest

\* The editor sends a frame: each place has its response due, if there is one.
LEMMA PathSend ==
  ASSUME NEW frames \in Seq(InFrames), NEW f \in InFrames, NEW d, NEW o \in DocMaps,
         NEW c, Path(c, d, frames, o),
         IsMessage(f) /\ f.msg.method = "didChange" => f.msg.uri \in DOMAIN o
  PROVE  \E e : /\ Path(e, d, Append(frames, f), Apply(o, f))
                /\ e[1].due = IF IsRequest(f) THEN Append(c[1].due, AnswerTo(o, f.msg))
                                             ELSE c[1].due
<1> DEFINE n == Len(frames)
           new == Append(frames, f)
           Add(due) == IF IsRequest(f) THEN Append(due, AnswerTo(o, f.msg)) ELSE due
           last == [docs |-> Apply(o, f), due |-> <<>>]
           e == [k \in 1..n + 2 |-> IF k = n + 2 THEN last
                                    ELSE [docs |-> c[k].docs, due |-> Add(c[k].due)]]
<1>1. /\ c \in Seq(Places) /\ Len(c) = n + 1 /\ c[1].docs = d
      /\ c[n + 1].docs = o /\ c[n + 1].due = <<>>
      /\ \A k \in 1..n : Link(c[k], frames[k], c[k + 1])
  BY DEF Path
<1>2. /\ n \in Nat /\ Len(new) = n + 1 /\ new[n + 1] = f
      /\ \A k \in 1..n : new[k] = frames[k]
  OBVIOUS
<1>3. \A k \in 1..n + 1 : c[k].docs \in DocMaps /\ c[k].due \in Seq(Response)
  <2>1. \A k \in 1..n + 1 : c[k] \in Places
    BY <1>1, ElementOfSeq
  <2> QED BY <2>1 DEF Places
<1>4. ASSUME NEW due \in Seq(Response)
      PROVE  /\ Add(due) \in Seq(Response)
             /\ \A a \in Response : Add(<<a>> \o due) = <<a>> \o Add(due)
  <2>1. CASE IsRequest(f)
    <3>1. AnswerTo(o, f.msg) \in Response
      BY <2>1, AnswerIsResponse
    <3> QED BY <2>1, <3>1
  <2>2. CASE ~IsRequest(f)
    BY <2>2
  <2> QED BY <2>1, <2>2
<1>5. last \in Places
  <2>1. Apply(o, f) \in DocMaps
    BY ApplyMap
  <2>2. <<>> \in Seq(Response)
    OBVIOUS
  <2> QED BY <2>1, <2>2 DEF Places
<1>6. /\ DOMAIN e = 1..n + 2 /\ e[n + 2] = last
      /\ \A k \in 1..n + 1 : e[k].docs = c[k].docs /\ e[k].due = Add(c[k].due)
  BY <1>2
<1>7. e \in Seq(Places) /\ Len(e) = n + 2
  <2>1. ASSUME NEW k \in 1..n + 1
        PROVE  [docs |-> c[k].docs, due |-> Add(c[k].due)] \in Places
    <3>1. c[k].docs \in DocMaps /\ Add(c[k].due) \in Seq(Response)
      BY <1>3, <1>4
    <3> HIDE DEF Add
    <3> QED BY <3>1 DEF Places
  <2>2. \A k \in 1..n + 2 : k = n + 2 \/ k \in 1..n + 1
    BY <1>2
  <2>3. \A k \in 1..n + 2 : (IF k = n + 2 THEN last
                             ELSE [docs |-> c[k].docs, due |-> Add(c[k].due)]) \in Places
    <3> HIDE DEF Add, last
    <3> QED BY <2>1, <2>2, <1>5
  <2>4. e \in [1..n + 2 -> Places]
    <3> HIDE DEF Add, last
    <3> QED BY <2>3
  <2> HIDE DEF e
  <2> QED BY <2>4, <1>2
<1>8. ASSUME NEW k \in 1..n + 1 PROVE Link(e[k], new[k], e[k + 1])
  <2>1. CASE k = n + 1
    <3>1. e[k].docs = o /\ e[k].due = Add(<<>>) /\ e[k + 1] = last /\ new[k] = f
      <4>1. k + 1 = n + 2 /\ k \in 1..n + 1
        BY <1>2, <2>1
      <4> HIDE DEF e, Add, last, new
      <4> QED BY <1>1, <1>2, <1>6, <2>1, <4>1
    <3>2. Append(<<>>, AnswerTo(o, f.msg)) = <<AnswerTo(o, f.msg)>> \o <<>>
      OBVIOUS
    <3>3. e[k].due = IF IsRequest(f) THEN <<AnswerTo(o, f.msg)>> \o <<>> ELSE <<>>
      BY <3>1, <3>2
    <3> HIDE DEF e, Add
    <3> QED BY <3>1, <3>3 DEF Link
  <2>2. CASE k \in 1..n
    <3> DEFINE a == AnswerTo(c[k].docs, frames[k].msg)
    <3>1. /\ Link(c[k], frames[k], c[k + 1]) /\ new[k] = frames[k]
          /\ k + 1 \in 1..n + 1 /\ frames[k] \in InFrames
      BY <1>1, <1>2, <2>2, ElementOfSeq
    <3>2. /\ e[k].docs = c[k].docs /\ e[k + 1].docs = c[k + 1].docs
          /\ e[k].due = Add(c[k].due) /\ e[k + 1].due = Add(c[k + 1].due)
      BY <1>6, <3>1
    <3>3. /\ c[k + 1].docs = Apply(c[k].docs, frames[k])
          /\ IsMessage(frames[k]) /\ frames[k].msg.method = "didChange"
                => frames[k].msg.uri \in DOMAIN c[k].docs
          /\ c[k].due = IF IsRequest(frames[k]) THEN <<a>> \o c[k + 1].due
                                                ELSE c[k + 1].due
      BY <3>1 DEF Link
    <3>4. e[k].due = IF IsRequest(frames[k]) THEN <<a>> \o e[k + 1].due ELSE e[k + 1].due
      <4>1. CASE IsRequest(frames[k])
        <5>1. a \in Response
          BY <1>3, <3>1, <4>1, AnswerIsResponse
        <5>2. Add(<<a>> \o c[k + 1].due) = <<a>> \o Add(c[k + 1].due)
          BY <1>3, <1>4, <3>1, <5>1
        <5> HIDE DEF Add, a, e
        <5> QED BY <3>2, <3>3, <4>1, <5>2
      <4>2. CASE ~IsRequest(frames[k])
        <5> HIDE DEF Add, a, e
        <5> QED BY <3>2, <3>3, <4>2
      <4> QED BY <4>1, <4>2
    <3> HIDE DEF e, Add, new
    <3> QED BY <3>1, <3>2, <3>3, <3>4 DEF Link
  <2> QED BY <1>2, <2>1, <2>2
<1>9. e[1].docs = d /\ e[1].due = Add(c[1].due)
  BY <1>1, <1>2, <1>6
<1>10. Path(e, d, new, Apply(o, f))
  <2>1. Len(e) = Len(new) + 1 /\ e[Len(e)] = last
    BY <1>2, <1>6, <1>7
  <2> HIDE DEF e, new
  <2> QED BY <1>2, <1>7, <1>8, <1>9, <2>1 DEF Path, last
<1> QED BY <1>9, <1>10

------------------------------------------------------------------------------
(* The server's steps *)

\* What serving frame f does to the documents and to the frames on their way.
Served(f) ==
  /\ docs' = Apply(docs, f)
  /\ docs' \in DocMaps
  /\ output' \in Seq(OutFrames)
  /\ ~reading => output' = <<>>
  /\ reading => Told(output') = IF IsRequest(f)
                               THEN Append(Told(output), AnswerTo(docs, f.msg))
                               ELSE Told(output)
  /\ reading => \A u \in DOMAIN docs' : Fresh(output', shown, u, docs'[u])

\* A round of dispatch() ends the process at most by writing to nobody.
LEMMA DispatchStatus ==
  ASSUME NEW m, Dispatch(m)
  PROVE  status' \in {status, "Killed"} /\ (reading => status' = status)
<1>1. ASSUME NEW g, Write(g)
      PROVE  status' \in {status, "Killed"} /\ (reading => status' = status)
  BY <1>1 DEF Write, WriteToClosed
<1>2. CASE DidOpen(m)
  BY <1>1, <1>2 DEF DidOpen, PublishDiagnostics
<1>3. CASE DidChange(m)
  BY <1>1, <1>3 DEF DidChange, PublishDiagnostics, Ignore
<1>4. CASE DidClose(m)
  BY <1>4 DEF DidClose
<1>5. CASE Hover(m) \/ \E value : Answer(m, value)
  BY <1>1, <1>5 DEF Hover, Answer
<1>6. CASE Ignore
  BY <1>6 DEF Ignore
<1> QED BY <1>2, <1>3, <1>4, <1>5, <1>6 DEF Dispatch

\* A written frame is appended while the editor reads, and told if an answer.
LEMMA Writes ==
  ASSUME Typed, NEW g \in OutFrames, Write(g)
  PROVE  /\ output' \in Seq(OutFrames)
         /\ ~reading => output' = <<>>
         /\ reading => output' = Append(output, g)
         /\ reading => Told(output') = IF IsAnswer(g) THEN Append(Told(output), Reply(g))
                                                    ELSE Told(output)
<1>1. output \in Seq(OutFrames) /\ (~reading => output = <<>>)
  BY DEF Typed
<1>2. reading => output' = Append(output, g)
  BY DEF Write
<1>3. ~reading => output' = output
  BY DEF Write
<1>4. output' \in Seq(OutFrames)
  BY <1>1, <1>2, <1>3
<1>5. Told(Append(output, g)) = IF IsAnswer(g) THEN Append(Told(output), Reply(g))
                                              ELSE Told(output)
  BY <1>1, ToldAppend
<1> QED BY <1>1, <1>2, <1>3, <1>4, <1>5

\* A document that changes is published in its new form.
LEMMA PublishServes ==
  ASSUME Typed, AllFresh, NEW f \in InFrames, ~IsRequest(f),
         NEW u \in Uris, NEW doc \in Document,
         docs' = With(docs, u, doc), docs' = Apply(docs, f),
         PublishDiagnostics(u, doc)
  PROVE  Served(f)
<1> DEFINE g == [kind |-> "diagnostics", uri |-> u, doc |-> doc]
<1>1. g \in OutFrames /\ ~IsAnswer(g)
  BY DEF OutFrames, IsAnswer
<1>2. Write(g)
  BY DEF PublishDiagnostics
<1>3. /\ output' \in Seq(OutFrames)
      /\ ~reading => output' = <<>>
      /\ reading => output' = Append(output, g)
      /\ reading => Told(output') = Told(output)
  <2> HIDE DEF g
  <2> QED BY <1>1, <1>2, Writes
<1>4. docs \in DocMaps /\ output \in Seq(OutFrames)
  BY DEF Typed
<1>5. /\ docs' \in DocMaps /\ DOMAIN docs' = DOMAIN docs \cup {u}
      /\ \A v \in DOMAIN docs \cup {u} : docs'[v] = IF v = u THEN doc ELSE docs[v]
  <2>1. With(docs, u, doc) \in DocMaps
    BY <1>4, WithMap
  <2>2. docs' = [v \in DOMAIN docs \cup {u} |-> IF v = u THEN doc ELSE docs[v]]
    BY DEF With
  <2> QED BY <2>1, <2>2
<1>6. ASSUME reading, NEW v \in DOMAIN docs' PROVE Fresh(output', shown, v, docs'[v])
  <2>1. output' = Append(output, g)
    BY <1>3, <1>6
  <2>2. CASE v = u
    <3>1. IsDiagnostics(g, v) /\ g.doc = docs'[v]
      BY <1>5, <2>2 DEF IsDiagnostics
    <3> HIDE DEF g
    <3> QED BY <1>1, <1>4, <2>1, <3>1, FreshWritten
  <2>3. CASE v # u
    <3>1. ~IsDiagnostics(g, v)
      BY <2>3 DEF IsDiagnostics
    <3>2. v \in DOMAIN docs /\ docs'[v] = docs[v]
      BY <1>5, <1>6, <2>3
    <3>3. Fresh(output, shown, v, docs'[v])
      BY <1>6, <3>2 DEF AllFresh
    <3> HIDE DEF g
    <3> QED BY <1>1, <1>4, <2>1, <3>1, <3>3, FreshWritten
  <2> QED BY <2>2, <2>3
<1> QED BY <1>3, <1>5, <1>6 DEF Served

\* A response leaves the documents and what is shown of them as they are.
LEMMA AnswerServes ==
  ASSUME Typed, AllFresh, NEW f \in InFrames, IsRequest(f), NEW value,
         AnswerTo(docs, f.msg).value = value,
         Apply(docs, f) = docs, Answer(f.msg, value)
  PROVE  Served(f)
<1> DEFINE g == [kind |-> "response", id |-> f.msg.n, value |-> value]
<1>1. docs \in DocMaps /\ output \in Seq(OutFrames) /\ docs' = docs
  BY DEF Typed, Answer
<1>2. AnswerTo(docs, f.msg) \in Response
  BY <1>1, AnswerIsResponse
<1>3. AnswerTo(docs, f.msg) = [id |-> f.msg.n, value |-> value]
  BY DEF AnswerTo
<1>4. g \in OutFrames /\ IsAnswer(g) /\ Reply(g) = AnswerTo(docs, f.msg)
  BY <1>2, <1>3 DEF OutFrames, IsAnswer, Reply, Response
<1>5. Write(g)
  BY DEF Answer
<1>6. /\ output' \in Seq(OutFrames)
      /\ ~reading => output' = <<>>
      /\ reading => output' = Append(output, g)
      /\ reading => Told(output') = Append(Told(output), AnswerTo(docs, f.msg))
  <2> HIDE DEF g
  <2>1. /\ output' \in Seq(OutFrames)
        /\ ~reading => output' = <<>>
        /\ reading => output' = Append(output, g)
        /\ reading => Told(output') = IF IsAnswer(g) THEN Append(Told(output), Reply(g))
                                                    ELSE Told(output)
    BY <1>4, <1>5, Writes
  <2> QED BY <2>1, <1>4
<1>7. ASSUME reading, NEW v \in DOMAIN docs' PROVE Fresh(output', shown, v, docs'[v])
  <2>1. output' = Append(output, g) /\ Fresh(output, shown, v, docs'[v])
    BY <1>1, <1>6, <1>7 DEF AllFresh
  <2>2. ~IsDiagnostics(g, v)
    BY DEF IsDiagnostics
  <2> HIDE DEF g
  <2> QED BY <1>1, <1>4, <2>1, <2>2, FreshWritten
<1> QED BY <1>1, <1>6, <1>7 DEF Served

\* dispatch() does with a message what the path of the documents foresees.
LEMMA DispatchServes ==
  ASSUME Typed, AllFresh, NEW f \in InFrames, IsMessage(f), Dispatch(f.msg),
         f.msg.method = "didChange" => f.msg.uri \in DOMAIN docs
  PROVE  Served(f)
<1> DEFINE m == f.msg
<1>1. m \in Messages /\ m \in AnyMessage /\ m.method \in Methods
  BY DEF InFrames, Messages, AnyMessage
<1>2. docs \in DocMaps /\ output \in Seq(OutFrames) /\ (~reading => output = <<>>)
  BY DEF Typed
<1>3. ASSUME Ignore, ~IsRequest(f), m.method \notin {"didOpen", "didChange", "didClose"}
      PROVE  Served(f)
  <2>1. docs' = docs /\ output' = output /\ Apply(docs, f) = docs
    BY <1>3 DEF Ignore, Apply
  <2> QED BY <1>2, <1>3, <2>1 DEF Served, AllFresh
<1>4. CASE DidOpen(m)
  <2>1. m.method = "didOpen" /\ ~IsRequest(f)
    BY <1>4 DEF DidOpen, IsRequest, Fixed
  <2>2. m.uri \in Uris /\ Doc(m.text, m.version) \in Document
    BY <1>1, <2>1 DEF Messages, AnyMessage, Doc, Document
  <2>3. docs' = With(docs, m.uri, Doc(m.text, m.version)) /\ docs' = Apply(docs, f)
    BY <1>4, <2>1 DEF DidOpen, Apply
  <2>4. PublishDiagnostics(m.uri, Doc(m.text, m.version))
    BY <1>4 DEF DidOpen
  <2> QED BY <2>1, <2>2, <2>3, <2>4, PublishServes
<1>5. CASE DidChange(m)
  <2>1. m.method = "didChange" /\ ~IsRequest(f) /\ m.uri \in DOMAIN docs
    BY <1>5 DEF DidChange, IsRequest, Fixed
  <2>2. m.uri \in Uris /\ Changed(docs[m.uri], m) \in Document
    BY <1>1, <1>2, <2>1, MapsAreFunctions, ChangedDocument DEF Messages
  <2>3. /\ docs' = With(docs, m.uri, Changed(docs[m.uri], m)) /\ docs' = Apply(docs, f)
        /\ PublishDiagnostics(m.uri, Changed(docs[m.uri], m))
    BY <1>5, <2>1 DEF DidChange, Apply
  <2> QED BY <2>1, <2>2, <2>3, PublishServes
<1>6. CASE DidClose(m)
  <2>1. m.method = "didClose" /\ ~IsRequest(f)
    BY <1>6 DEF DidClose, IsRequest, Fixed
  <2>2. docs' = Without(docs, m.uri) /\ docs' = Apply(docs, f) /\ output' = output
    BY <1>6, <2>1 DEF DidClose, Apply
  <2>3. /\ docs' \in DocMaps /\ DOMAIN docs' \subseteq DOMAIN docs
        /\ \A v \in DOMAIN docs' : docs'[v] = docs[v]
    <3>1. PICK new : new = Without(docs, m.uri)
      OBVIOUS
    <3>2. /\ new \in DocMaps /\ DOMAIN new = DOMAIN docs \ {m.uri}
          /\ \A v \in DOMAIN docs \ {m.uri} : new[v] = docs[v]
      BY <1>2, <3>1, WithoutMap
    <3> QED BY <2>2, <3>1, <3>2
  <2> QED BY <1>2, <2>1, <2>2, <2>3 DEF Served, AllFresh
<1>7. CASE Hover(m)
  <2>1. m.method = "hover" /\ IsRequest(f) /\ Apply(docs, f) = docs
    BY <1>7 DEF Hover, IsRequest, Apply
  <2> DEFINE value == IF m.uri \in DOMAIN docs THEN docs[m.uri].text ELSE "null"
  <2>2. Answer(m, value) /\ AnswerTo(docs, m).value = value
    BY <1>7, <2>1 DEF Hover, AnswerTo
  <2> HIDE DEF value
  <2> QED BY <2>1, <2>2, AnswerServes
<1>8. CASE m.method \in DOMAIN Fixed /\ Answer(m, Fixed[m.method])
  <2>1. /\ IsRequest(f) /\ Apply(docs, f) = docs /\ m.method # "hover"
    BY <1>8 DEF IsRequest, Apply, Fixed
  <2>2. AnswerTo(docs, m).value = Fixed[m.method]
    BY <2>1 DEF AnswerTo
  <2> QED BY <1>8, <2>1, <2>2, AnswerServes
<1>9. CASE m.method \in Unheeded /\ Ignore
  <2>1. ~IsRequest(f) /\ m.method \notin {"didOpen", "didChange", "didClose"}
    BY <1>9 DEF Unheeded, IsRequest, Fixed
  <2> QED BY <1>3, <1>9, <2>1
<1> QED BY <1>4, <1>5, <1>6, <1>7, <1>8, <1>9 DEF Dispatch

\* A successful read takes the first frame, and it is a message.
LEMMA ReadFrame ==
  ASSUME Typed, ReadsMessage
  PROVE  /\ input # <<>> /\ Head(input) \in InFrames /\ IsMessage(Head(input))
         /\ input' = Tail(input) /\ Tail(input) \in Seq(InFrames)
<1>1. input # <<>> /\ Head(input).kind = "message" /\ input' = Tail(input)
  BY DEF ReadsMessage, ReadStatus
<1>2. input \in Seq(InFrames)
  BY DEF Typed
<1>3. Head(input) \in InFrames /\ Tail(input) \in Seq(InFrames)
  BY <1>1, <1>2
<1> QED BY <1>1, <1>3 DEF IsMessage

\* A round of run() keeps the invariant.
LEMMA ServeIInv == ASSUME IInv, Serve PROVE IInv'
<1> DEFINE f == Head(input)
           e == Tail(input)
<1>1. Typed /\ AllFresh
  BY DEF IInv
<1>2. PICK c : Path(c, docs, input, open) /\ (reading => awaiting = Told(output) \o c[1].due)
  BY DEF IInv, Conserved
<1>3. /\ input # <<>> /\ f \in InFrames /\ IsMessage(f)
      /\ input' = Tail(input) /\ Tail(input) \in Seq(InFrames)
  BY <1>1, ReadFrame DEF Serve
<1>4. /\ Path(Tail(c), Apply(docs, f), Tail(input), open)
      /\ Link(c[1], f, Tail(c)[1])
      /\ Tail(c)[1] \in Places /\ c[1] \in Places /\ c[1].docs = docs
  <2>1. input \in Seq(InFrames)
    BY <1>1 DEF Typed
  <2> QED BY <1>2, <1>3, <2>1, PathRead
<1>5. Served(f)
  <2>1. f.msg.method = "didChange" => f.msg.uri \in DOMAIN docs
    BY <1>3, <1>4 DEF Link
  <2>2. Dispatch(f.msg)
    BY DEF Serve
  <2> HIDE DEF f
  <2> QED BY <1>1, <1>3, <2>1, <2>2, DispatchServes
<1>6. UNCHANGED <<closed, reading, open, shown, awaiting, sent>>
  BY DEF Serve, editor
<1>7. Typed'
  <2>1. status' \in {"running", "Killed"} /\ (status' = "Killed" => ~reading)
    BY DispatchStatus DEF Serve, ReadsMessage
  <2> QED BY <1>1, <1>3, <1>5, <1>6, <2>1 DEF Typed, Served
<1>8. AllFresh'
  BY <1>5, <1>6 DEF AllFresh, Served
<1>9. reading => awaiting = Told(output') \o Tail(c)[1].due
  <2> SUFFICES ASSUME reading PROVE awaiting = Told(output') \o Tail(c)[1].due
    OBVIOUS
  <2> DEFINE a == AnswerTo(docs, f.msg)
             t == Told(output)
             due == Tail(c)[1].due
  <2>1. t \in Seq(Response) /\ due \in Seq(Response)
    BY <1>1, <1>4, ToldType DEF Typed, Places
  <2>2. c[1].due = IF IsRequest(f) THEN <<a>> \o due ELSE due
    BY <1>4 DEF Link
  <2>3. Told(output') = IF IsRequest(f) THEN Append(t, a) ELSE t
    BY <1>5 DEF Served
  <2>4. awaiting = t \o c[1].due
    BY <1>2
  <2>5. IsRequest(f) => a \in Response
    BY <1>1, <1>3, AnswerIsResponse DEF Typed
  <2> HIDE DEF a, t, due, f
  <2>6. CASE IsRequest(f)
    <3>1. Append(t, a) \o due = t \o (<<a>> \o due)
      BY <2>1, <2>5, <2>6
    <3> QED BY <2>2, <2>3, <2>4, <2>6, <3>1 DEF due
  <2>7. CASE ~IsRequest(f)
    BY <2>2, <2>3, <2>4, <2>7 DEF due
  <2> QED BY <2>6, <2>7
<1>10. Conserved'
  <2>1. Path(Tail(c), docs', input', open')
    BY <1>3, <1>4, <1>5, <1>6 DEF Served
  <2> QED BY <1>6, <1>9, <2>1 DEF Conserved
<1> QED BY <1>7, <1>8, <1>10 DEF IInv

\* exit keeps the invariant.
LEMMA ExitIInv == ASSUME IInv, Exit PROVE IInv'
<1> DEFINE f == Head(input)
<1>1. Typed /\ AllFresh
  BY DEF IInv
<1>2. PICK c : Path(c, docs, input, open) /\ (reading => awaiting = Told(output) \o c[1].due)
  BY DEF IInv, Conserved
<1>3. /\ input # <<>> /\ f \in InFrames /\ f.msg.method = "exit"
      /\ input' = Tail(input) /\ Tail(input) \in Seq(InFrames) /\ input \in Seq(InFrames)
  BY <1>1, ReadFrame DEF Exit, Typed
<1>4. /\ Path(Tail(c), Apply(docs, f), Tail(input), open)
      /\ Link(c[1], f, Tail(c)[1])
  <2> HIDE DEF f
  <2> QED BY <1>2, <1>3, PathRead DEF f
<1>5. ~IsRequest(f) /\ Apply(docs, f) = docs
  BY <1>3 DEF IsRequest, Fixed, Apply
<1>6. UNCHANGED <<docs, output, reading, open, shown, awaiting, sent>> /\ status' = "Ok"
  BY DEF Exit, editor
<1>7. Typed' /\ AllFresh'
  BY <1>1, <1>3, <1>6 DEF Typed, AllFresh
<1>8. Conserved'
  <2>1. c[1].due = Tail(c)[1].due
    BY <1>4, <1>5 DEF Link
  <2>2. Path(Tail(c), docs', input', open')
    BY <1>3, <1>4, <1>5, <1>6
  <2> QED BY <1>2, <1>6, <2>1, <2>2 DEF Conserved
<1> QED BY <1>7, <1>8 DEF IInv

\* A broken stream that ends run() keeps the invariant.
LEMMA StopIInv == ASSUME IInv, Stop PROVE IInv'
<1>1. ReadStatus("headers", input) \in {"Io", "Parse", "Ok"}
  BY DEF ReadStatus
<1>2. status' \in {"Ok", "Parse"}
  BY <1>1 DEF Stop
<1>3. UNCHANGED <<docs, input, output, reading, open, shown, awaiting, sent>>
  BY DEF Stop, editor
<1> QED BY <1>2, <1>3 DEF IInv, Typed, Conserved, AllFresh

------------------------------------------------------------------------------
(* The editor's steps *)

\* Whatever frame the editor sends extends the path and what it awaits.
LEMMA SendIInv ==
  ASSUME IInv, NEW f \in InFrames, input' = Append(input, f), open' = Apply(open, f),
         IsMessage(f) /\ f.msg.method = "didChange" => f.msg.uri \in DOMAIN open,
         awaiting' = IF IsRequest(f) THEN Append(awaiting, AnswerTo(open, f.msg))
                                     ELSE awaiting,
         sent' \in 0..MaxSent, UNCHANGED <<docs, status, output, reading, shown>>
  PROVE  IInv'
<1>1. Typed /\ AllFresh /\ open \in DocMaps /\ input \in Seq(InFrames)
  BY DEF IInv, Typed
<1>2. PICK c : Path(c, docs, input, open) /\ (reading => awaiting = Told(output) \o c[1].due)
  BY DEF IInv, Conserved
<1>3. PICK e : /\ Path(e, docs, Append(input, f), Apply(open, f))
              /\ e[1].due = IF IsRequest(f) THEN Append(c[1].due, AnswerTo(open, f.msg))
                                           ELSE c[1].due
  BY <1>1, <1>2, PathSend
<1>4. Apply(open, f) \in DocMaps
  BY <1>1, ApplyMap
<1>5. IsRequest(f) => AnswerTo(open, f.msg) \in Response
  BY <1>1, AnswerIsResponse
<1>6. awaiting' \in Seq(Response)
  <2>1. awaiting \in Seq(Response)
    BY <1>1 DEF Typed
  <2> QED BY <1>5, <2>1
<1>7. Append(input, f) \in Seq(InFrames)
  BY <1>1
<1>8. Typed'
  BY <1>1, <1>4, <1>6, <1>7 DEF Typed
<1>9. AllFresh'
  BY <1>1 DEF AllFresh
<1>10. reading => awaiting' = Told(output) \o e[1].due
  <2> SUFFICES ASSUME reading PROVE awaiting' = Told(output) \o e[1].due
    OBVIOUS
  <2> DEFINE a == AnswerTo(open, f.msg)
             t == Told(output)
             due == c[1].due
  <2>1. t \in Seq(Response) /\ due \in Seq(Response)
    <3>1. c \in Seq(Places) /\ Len(c) = Len(input) + 1 /\ Len(input) \in Nat
      BY <1>1, <1>2 DEF Path
    <3>2. c[1] \in Places
      BY <3>1, ElementOfSeq
    <3> QED BY <1>1, <3>2, ToldType DEF Typed, Places
  <2>2. awaiting = t \o due
    BY <1>2
  <2>3. IsRequest(f) => Append(t \o due, a) = t \o Append(due, a)
    <3> SUFFICES ASSUME IsRequest(f) PROVE Append(t \o due, a) = t \o Append(due, a)
      OBVIOUS
    <3>1. a \in Response
      BY <1>5
    <3> HIDE DEF t, due, a
    <3> QED BY <2>1, <3>1, AppendResponse
  <2> QED BY <1>3, <2>2, <2>3
<1>11. Conserved'
  <2>1. Path(e, docs', input', open')
    BY <1>3
  <2> QED BY <1>10, <2>1 DEF Conserved
<1> QED BY <1>8, <1>9, <1>11 DEF IInv

\* The message of an action, as a frame
Framed(m) == [kind |-> "message", msg |-> m]

\* A message of the editor is such a frame.
LEMMA SendsMessage ==
  ASSUME IInv, NEW m \in Messages, Sends(m),
         open' = Apply(open, Framed(m)),
         m.method = "didChange" => m.uri \in DOMAIN open,
         awaiting' = IF m.method \in DOMAIN Fixed \cup {"hover"}
                     THEN Append(awaiting, AnswerTo(open, m)) ELSE awaiting
  PROVE  IInv'
<1> DEFINE f == Framed(m)
<1>1. f \in InFrames /\ f.msg = m /\ IsMessage(f)
  BY DEF InFrames, Framed, IsMessage
<1>2. IsRequest(f) <=> m.method \in DOMAIN Fixed \cup {"hover"}
  BY <1>1 DEF IsRequest
<1>3. /\ input' = Append(input, f) /\ sent' = sent + 1 /\ sent < MaxSent
      /\ UNCHANGED <<docs, status, output, reading, shown>>
  BY DEF Sends, server, Framed
<1>4. sent' \in 0..MaxSent
  BY <1>3 DEF IInv, Typed
<1>5. awaiting' = IF IsRequest(f) THEN Append(awaiting, AnswerTo(open, f.msg)) ELSE awaiting
  BY <1>1, <1>2
<1> HIDE DEF f
<1>6. open' = Apply(open, f)
  BY DEF f
<1> QED BY <1>1, <1>3, <1>4, <1>5, <1>6, SendIInv

\* The messages the editor's actions make have the types of messages.
LEMMA MessageTyped ==
  ASSUME IInv, sent < MaxSent, NEW k \in Methods
  PROVE  /\ Message(k) \in AnyMessage
         /\ Message(k).method = k /\ Message(k).n = sent + 1 /\ sent + 1 \in 1..MaxSent
         /\ k \notin {"didOpen", "didChange", "didClose", "hover"} => Message(k) \in Messages
<1>1. sent + 1 \in 1..MaxSent
  BY DEF IInv, Typed
<1> QED BY <1>1 DEF Message, AnyMessage, Messages

\* textDocument/didOpen keeps the invariant.
LEMMA OpensIInv == ASSUME IInv, Opens PROVE IInv'
<1>1. PICK u \in Uris \ DOMAIN open, t \in Texts :
        /\ Sends([Message("didOpen") EXCEPT !.uri = u, !.text = t])
        /\ open' = With(open, u, Doc(t, sent + 1))
        /\ UNCHANGED awaiting
  BY DEF Opens
<1> DEFINE m == [Message("didOpen") EXCEPT !.uri = u, !.text = t]
<1>2. sent < MaxSent /\ "didOpen" \in Methods
  BY <1>1 DEF Sends, Methods
<1>3. /\ m.method = "didOpen" /\ m.uri = u /\ m.text = t /\ m.version = sent + 1
      /\ m \in Messages
  BY <1>2, MessageTyped DEF Message, Messages, AnyMessage
<1>4. m.method \notin DOMAIN Fixed \cup {"hover"} /\ m.method # "didChange"
  BY <1>3 DEF Fixed
<1>5. Apply(open, Framed(m)) = With(open, u, Doc(t, sent + 1))
  BY <1>3 DEF Apply, IsMessage, Framed
<1>6. awaiting' = awaiting /\ Sends(m) /\ open' = Apply(open, Framed(m))
  BY <1>1, <1>5
<1> HIDE DEF m
<1> QED BY <1>3, <1>4, <1>6, SendsMessage

\* textDocument/didChange keeps the invariant.
LEMMA ChangesIInv == ASSUME IInv, Changes PROVE IInv'
<1>1. PICK u \in DOMAIN open, t \in Texts \cup {"none"} :
        LET m == [Message("didChange") EXCEPT !.uri = u, !.text = t]
        IN  /\ Sends(m)
            /\ open' = With(open, u, Changed(open[u], m))
            /\ UNCHANGED awaiting
  BY DEF Changes
<1> DEFINE m == [Message("didChange") EXCEPT !.uri = u, !.text = t]
<1>2. sent < MaxSent /\ "didChange" \in Methods /\ u \in Uris
  BY <1>1, MapsAreFunctions DEF Sends, Methods, IInv, Typed
<1>3. m.method = "didChange" /\ m.uri = u /\ m \in Messages
  BY <1>2, MessageTyped DEF Message, Messages, AnyMessage
<1>4. m.method \notin DOMAIN Fixed \cup {"hover"}
  BY <1>3 DEF Fixed
<1>5. Apply(open, Framed(m)) = With(open, u, Changed(open[u], m))
  <2> HIDE DEF m
  <2> QED BY <1>3 DEF Apply, IsMessage, Framed
<1>6. awaiting' = awaiting /\ Sends(m) /\ open' = Apply(open, Framed(m))
  BY <1>1, <1>5
<1> HIDE DEF m
<1> QED BY <1>3, <1>4, <1>6, SendsMessage

\* textDocument/didClose keeps the invariant.
LEMMA ClosesIInv == ASSUME IInv, Closes PROVE IInv'
<1>1. PICK u \in DOMAIN open :
        /\ Sends([Message("didClose") EXCEPT !.uri = u])
        /\ open' = Without(open, u)
        /\ UNCHANGED awaiting
  BY DEF Closes
<1> DEFINE m == [Message("didClose") EXCEPT !.uri = u]
<1>2. sent < MaxSent /\ "didClose" \in Methods /\ u \in Uris
  BY <1>1, MapsAreFunctions DEF Sends, Methods, IInv, Typed
<1>3. m.method = "didClose" /\ m.uri = u /\ m \in Messages
  BY <1>2, MessageTyped DEF Message, Messages, AnyMessage
<1>4. m.method \notin DOMAIN Fixed \cup {"hover"} /\ m.method # "didChange"
  BY <1>3 DEF Fixed
<1>5. Apply(open, Framed(m)) = Without(open, u)
  <2> HIDE DEF m
  <2> QED BY <1>3 DEF Apply, IsMessage, Framed
<1>6. awaiting' = awaiting /\ Sends(m) /\ open' = Apply(open, Framed(m))
  BY <1>1, <1>5
<1> HIDE DEF m
<1> QED BY <1>3, <1>4, <1>6, SendsMessage

\* textDocument/hover keeps the invariant.
LEMMA HoversIInv == ASSUME IInv, Hovers PROVE IInv'
<1>1. PICK u \in Uris :
        /\ Sends([Message("hover") EXCEPT !.uri = u])
        /\ Expects(IF u \in DOMAIN open THEN open[u].text ELSE "null")
        /\ UNCHANGED open
  BY DEF Hovers
<1> DEFINE m == [Message("hover") EXCEPT !.uri = u]
<1>2. sent < MaxSent /\ "hover" \in Methods
  BY <1>1 DEF Sends, Methods
<1>3. m.method = "hover" /\ m.uri = u /\ m.n = sent + 1 /\ m \in Messages
  BY <1>2, MessageTyped DEF Message, Messages, AnyMessage
<1>4. awaiting' = Append(awaiting, AnswerTo(open, m))
  <2> HIDE DEF m
  <2> QED BY <1>1, <1>3 DEF Expects, AnswerTo
<1>5. Sends(m) /\ open' = Apply(open, Framed(m))
  <2>1. Sends(m)
    BY <1>1
  <2> HIDE DEF m
  <2>2. Apply(open, Framed(m)) = open
    BY <1>3 DEF Apply, IsMessage, Framed
  <2> QED BY <1>1, <2>1, <2>2
<1> HIDE DEF m
<1> QED BY <1>3, <1>4, <1>5, SendsMessage

\* The other requests keep the invariant.
LEMMA AsksIInv == ASSUME IInv, Asks PROVE IInv'
<1>1. PICK k \in DOMAIN Fixed : Sends(Message(k)) /\ Expects(Fixed[k]) /\ UNCHANGED open
  BY DEF Asks
<1> DEFINE m == Message(k)
<1>2. sent < MaxSent /\ k \in Methods
      /\ k \notin {"didOpen", "didChange", "didClose", "hover"}
  BY <1>1 DEF Sends, Methods, Fixed
<1>3. m.method = k /\ m.n = sent + 1 /\ m \in Messages
  BY <1>2, MessageTyped
<1>4. awaiting' = Append(awaiting, AnswerTo(open, m))
  <2> HIDE DEF m
  <2> QED BY <1>1, <1>2, <1>3 DEF Expects, AnswerTo
<1>5. Sends(m) /\ open' = Apply(open, Framed(m))
  <2>1. Sends(m)
    BY <1>1
  <2> HIDE DEF m
  <2>2. Apply(open, Framed(m)) = open
    BY <1>2, <1>3 DEF Apply, IsMessage, Framed
  <2> QED BY <1>1, <2>1, <2>2
<1> HIDE DEF m
<1> QED BY <1>1, <1>2, <1>3, <1>4, <1>5, SendsMessage

\* The other notifications keep the invariant.
LEMMA NotifiesIInv == ASSUME IInv, Notifies PROVE IInv'
<1>1. PICK k \in Unheeded \cup {"exit"} : Sends(Message(k)) /\ UNCHANGED <<open, awaiting>>
  BY DEF Notifies
<1> DEFINE m == Message(k)
<1>2. /\ sent < MaxSent /\ k \in Methods
      /\ k \notin {"didOpen", "didChange", "didClose", "hover"} /\ k \notin DOMAIN Fixed
  BY <1>1 DEF Sends, Methods, Unheeded, Fixed
<1>3. m.method = k /\ m \in Messages
  BY <1>2, MessageTyped
<1>4. Sends(m) /\ open' = Apply(open, Framed(m)) /\ awaiting' = awaiting
  <2>1. Sends(m)
    BY <1>1
  <2> HIDE DEF m
  <2>2. Apply(open, Framed(m)) = open
    BY <1>2, <1>3 DEF Apply, IsMessage, Framed
  <2> QED BY <1>1, <2>1, <2>2
<1> HIDE DEF m
<1> QED BY <1>2, <1>3, <1>4, SendsMessage

\* A broken frame keeps the invariant.
LEMMA SendsBrokenIInv == ASSUME IInv, SendsBroken PROVE IInv'
<1>1. PICK k \in BadKinds("headers") : input' = Append(input, [kind |-> k, msg |-> Message("none")])
  BY DEF SendsBroken
<1> DEFINE f == [kind |-> k, msg |-> Message("none")]
<1>2. /\ sent < MaxSent /\ sent' = sent + 1 /\ "none" \in Methods
      /\ UNCHANGED <<docs, status, output, reading, open, shown, awaiting>>
  BY DEF SendsBroken, server, Methods
<1>3. Message("none") \in Messages
  BY <1>2, MessageTyped
<1>4. f \in InFrames
  BY <1>3 DEF InFrames
<1>5. ~IsMessage(f) /\ ~IsRequest(f)
  BY DEF BadKinds, IsMessage, IsRequest
<1>6. open' = Apply(open, f) /\ sent' \in 0..MaxSent
  BY <1>2, <1>5 DEF Apply, IInv, Typed
<1>7. input' = Append(input, f)
  BY <1>1
<1> HIDE DEF f
<1> QED BY <1>2, <1>4, <1>5, <1>6, <1>7, SendIInv

\* An editor that stops reading keeps the invariant.
LEMMA StopsReadingIInv == ASSUME IInv, StopsReading PROVE IInv'
<1>1. reading' = FALSE /\ output' = <<>>
  BY DEF StopsReading
<1>2. UNCHANGED <<docs, input, open, shown, awaiting, sent>>
  BY DEF StopsReading, editor
<1>3. <<>> \in Seq(OutFrames)
  OBVIOUS
<1>4. status' \in {status, "Killed"}
  BY DEF StopsReading, WriteToClosed
<1> QED BY <1>1, <1>2, <1>3, <1>4 DEF IInv, Typed, Conserved, AllFresh

\* An answer that arrives is the first one awaited.
LEMMA ReceivesAnswerIInv == ASSUME IInv, ReceivesAnswer PROVE IInv'
<1>1. /\ output # <<>> /\ Head(output).kind = "response" /\ output' = Tail(output)
      /\ awaiting' = Tail(awaiting)
      /\ UNCHANGED <<docs, status, input, reading, open, shown, sent>>
  BY DEF ReceivesAnswer, server
<1>2. Typed /\ AllFresh /\ reading /\ output \in Seq(OutFrames)
  BY <1>1 DEF IInv, Typed
<1>3. PICK c : Path(c, docs, input, open) /\ awaiting = Told(output) \o c[1].due
  BY <1>2 DEF IInv, Conserved
<1>4. Tail(output) \in Seq(OutFrames) /\ Head(output) \in OutFrames
  BY <1>1, <1>2
<1>5. Told(output) = <<Reply(Head(output))>> \o Told(Tail(output))
  BY <1>1, <1>2, ToldTail DEF IsAnswer
<1>6. /\ Tail(awaiting) = Told(Tail(output)) \o c[1].due
      /\ Tail(awaiting) \in Seq(Response)
  <2> DEFINE t == Told(Tail(output))
             r == Reply(Head(output))
             due == c[1].due
  <2>1. t \in Seq(Response) /\ r \in Response
    BY <1>1, <1>4, ToldType, ReplyIsResponse DEF IsAnswer
  <2>2. due \in Seq(Response)
    <3>1. c \in Seq(Places) /\ Len(c) = Len(input) + 1 /\ Len(input) \in Nat
      BY <1>2, <1>3 DEF Path, Typed
    <3>2. c[1] \in Places
      BY <3>1, ElementOfSeq
    <3> QED BY <3>2 DEF Places
  <2>3. awaiting = (<<r>> \o t) \o due
    BY <1>3, <1>5
  <2> HIDE DEF t, r, due
  <2>4. /\ Tail((<<r>> \o t) \o due) = t \o due /\ t \o due \in Seq(Response)
    BY <2>1, <2>2
  <2> QED BY <2>3, <2>4 DEF t, due
<1>7. Typed'
  BY <1>1, <1>2, <1>4, <1>6 DEF Typed
<1>8. ASSUME NEW u \in DOMAIN docs PROVE Fresh(Tail(output), shown, u, docs[u])
  <2>1. Fresh(output, shown, u, docs[u]) /\ ~IsDiagnostics(Head(output), u)
    BY <1>1, <1>2 DEF AllFresh, IsDiagnostics
  <2> QED BY <1>1, <1>2, <2>1, FreshReceived
<1>9. AllFresh'
  BY <1>1, <1>8 DEF AllFresh
<1>10. Conserved'
  BY <1>1, <1>3, <1>6 DEF Conserved
<1> QED BY <1>7, <1>9, <1>10 DEF IInv

\* Diagnostics that arrive keep the invariant.
LEMMA ReceivesDiagnosticsIInv == ASSUME IInv, ReceivesDiagnostics PROVE IInv'
<1> DEFINE g == Head(output)
<1>1. /\ output # <<>> /\ g.kind = "diagnostics" /\ output' = Tail(output)
      /\ shown' = With(shown, g.uri, g.doc)
      /\ UNCHANGED <<docs, status, input, reading, open, awaiting, sent>>
  BY DEF ReceivesDiagnostics, server
<1>2. Typed /\ AllFresh /\ reading /\ output \in Seq(OutFrames) /\ shown \in DocMaps
  BY <1>1 DEF IInv, Typed
<1>3. PICK c : Path(c, docs, input, open) /\ awaiting = Told(output) \o c[1].due
  BY <1>2 DEF IInv, Conserved
<1>4. Tail(output) \in Seq(OutFrames) /\ g \in OutFrames
  BY <1>1, <1>2
<1>5. g.uri \in Uris /\ g.doc \in Document /\ ~IsAnswer(g)
  BY <1>1, <1>4 DEF OutFrames, IsAnswer
<1>6. Told(output) = Told(Tail(output))
  BY <1>1, <1>2, <1>5, ToldTail
<1>7. With(shown, g.uri, g.doc) \in DocMaps
  BY <1>2, <1>5, WithMap
<1>8. Typed'
  BY <1>1, <1>2, <1>4, <1>7 DEF Typed
<1>9. ASSUME NEW u \in DOMAIN docs PROVE Fresh(Tail(output), shown', u, docs[u])
  <2>1. Fresh(output, shown, u, docs[u])
    BY <1>2 DEF AllFresh
  <2>2. IF IsDiagnostics(g, u) THEN u \in DOMAIN shown' /\ shown'[u] = g.doc
        ELSE u \in DOMAIN shown => u \in DOMAIN shown' /\ shown'[u] = shown[u]
    BY <1>1 DEF With, IsDiagnostics
  <2> QED BY <1>1, <1>2, <2>1, <2>2, FreshReceived
<1>10. AllFresh'
  BY <1>1, <1>9 DEF AllFresh
<1>11. Conserved'
  BY <1>1, <1>3, <1>6 DEF Conserved
<1> QED BY <1>8, <1>10, <1>11 DEF IInv

\* The empty session satisfies the invariant.
LEMMA InitIInv == Init => IInv
<1> SUFFICES ASSUME Init PROVE IInv
  OBVIOUS
<1> DEFINE place == [docs |-> NoDocs, due |-> <<>>]
           c == <<place>>
<1>1. /\ docs = NoDocs /\ open = NoDocs /\ shown = NoDocs /\ status = "running"
      /\ input = <<>> /\ output = <<>> /\ awaiting = <<>> /\ reading = TRUE /\ sent = 0
  BY DEF Init
<1>2. NoDocs \in DocMaps
  <2>1. {} \in SUBSET Uris /\ NoDocs \in [{} -> Document]
    BY DEF NoDocs
  <2> QED BY <2>1 DEF DocMaps
<1>3. Typed
  <2>1. <<>> \in Seq(InFrames) /\ <<>> \in Seq(OutFrames) /\ <<>> \in Seq(Response)
    OBVIOUS
  <2> QED BY <1>1, <1>2, <2>1 DEF Typed
<1>4. place \in Places
  <2>1. <<>> \in Seq(Response)
    OBVIOUS
  <2> QED BY <1>2, <2>1 DEF Places
<1>5. Path(c, docs, input, open)
  <2>1. c \in Seq(Places) /\ Len(c) = 1 /\ c[1] = place
    BY <1>4
  <2>2. Len(input) = 0
    BY <1>1
  <2>3. Len(c) = Len(input) + 1 /\ \A k \in 1..Len(input) : FALSE
    BY <2>1, <2>2
  <2> HIDE DEF c
  <2> QED BY <1>1, <2>1, <2>2, <2>3 DEF Path
<1>6. awaiting = Told(output) \o c[1].due
  BY <1>1, ToldEmpty
<1>7. Conserved
  <2> HIDE DEF c
  <2> QED BY <1>5, <1>6 DEF Conserved
<1>8. AllFresh
  BY <1>1 DEF AllFresh, NoDocs
<1> QED BY <1>3, <1>7, <1>8 DEF IInv

\* Every step of server or editor keeps the invariant.
LEMMA NextIInv == IInv /\ [Next]_vars => IInv'
<1> SUFFICES ASSUME IInv, [Next]_vars PROVE IInv'
  OBVIOUS
<1>1. CASE UNCHANGED vars
  BY <1>1 DEF vars, IInv, Typed, Conserved, AllFresh
<1>2. CASE ClosesConnection
  BY <1>2 DEF ClosesConnection, server, editor, IInv, Typed, Conserved, AllFresh
<1>3. CASE Finished
  BY <1>1, <1>3 DEF Finished
<1> QED BY <1>1, <1>2, <1>3, ServeIInv, ExitIInv, StopIInv, OpensIInv, ChangesIInv,
           ClosesIInv, HoversIInv, AsksIInv, NotifiesIInv, SendsBrokenIInv,
           StopsReadingIInv, ReceivesAnswerIInv, ReceivesDiagnosticsIInv DEF Next

\* The invariant holds throughout.
LEMMA Invariance == Spec => []IInv
BY InitIInv, NextIInv, PTL DEF Spec

------------------------------------------------------------------------------
(* What the invariant says *)

\* The documents as the frames are replayed: the steps of Replay.
ReplaySteps(map, frames, r) ==
  r = [i \in 0..Len(frames) |-> IF i = 0 THEN map ELSE Apply(r[i - 1], frames[i])]

\* Frames are replayed in one way only.
LEMMA ReplayStepsUnique ==
  ASSUME NEW map, NEW frames \in Seq(InFrames), NEW p, NEW r,
         ReplaySteps(map, frames, p), ReplaySteps(map, frames, r)
  PROVE  p = r
<1> DEFINE T == {n \in Nat : n <= Len(frames) => p[n] = r[n]}
<1>1. Len(frames) \in Nat
  OBVIOUS
<1>2. \A i \in 0..Len(frames) :
        /\ p[i] = IF i = 0 THEN map ELSE Apply(p[i - 1], frames[i])
        /\ r[i] = IF i = 0 THEN map ELSE Apply(r[i - 1], frames[i])
  BY DEF ReplaySteps
<1>3. 0 \in T
  BY <1>1, <1>2
<1>4. ASSUME NEW n \in Nat, n \in T PROVE n + 1 \in T
  <2> SUFFICES ASSUME n + 1 <= Len(frames) PROVE p[n + 1] = r[n + 1]
    BY DEF T
  <2>1. p[n] = r[n] /\ n + 1 \in 0..Len(frames) /\ n + 1 # 0 /\ (n + 1) - 1 = n
    BY <1>1, <1>4
  <2> QED BY <2>1, <1>2
<1>5. \A i \in 0..Len(frames) : p[i] = r[i]
  <2>1. Nat \subseteq T
    <3> HIDE DEF T
    <3> QED BY <1>3, <1>4, NatSets
  <2> QED BY <2>1, <1>1
<1>6. p = [i \in 0..Len(frames) |-> p[i]] /\ r = [i \in 0..Len(frames) |-> r[i]]
  BY DEF ReplaySteps
<1> QED BY <1>5, <1>6

\* A path ends with the documents Replay computes.
LEMMA PathReplays ==
  ASSUME NEW frames \in Seq(InFrames), NEW d, NEW o, NEW c, Path(c, d, frames, o)
  PROVE  Replay(d, frames) = o
<1> DEFINE r == [i \in 0..Len(frames) |-> c[i + 1].docs]
           p == CHOOSE q : ReplaySteps(d, frames, q)
<1>1. /\ Len(frames) \in Nat /\ c[1].docs = d /\ c[Len(frames) + 1].docs = o
      /\ \A k \in 1..Len(frames) : c[k + 1].docs = Apply(c[k].docs, frames[k])
  <2> HIDE DEF r, p
  <2>1. Len(frames) \in Nat
    OBVIOUS
  <2>2. /\ Len(c) = Len(frames) + 1 /\ c[1].docs = d /\ c[Len(c)].docs = o
        /\ \A k \in 1..Len(frames) : Link(c[k], frames[k], c[k + 1])
    BY DEF Path
  <2>3. \A k \in 1..Len(frames) : c[k + 1].docs = Apply(c[k].docs, frames[k])
    BY <2>2 DEF Link
  <2> QED BY <2>1, <2>2, <2>3
<1>2. \A i \in 0..Len(frames) : r[i] = IF i = 0 THEN d ELSE Apply(r[i - 1], frames[i])
  <2> SUFFICES ASSUME NEW i \in 0..Len(frames)
               PROVE  r[i] = IF i = 0 THEN d ELSE Apply(r[i - 1], frames[i])
    OBVIOUS
  <2>1. CASE i = 0
    BY <1>1, <2>1
  <2>2. CASE i # 0
    <3>1. i \in 1..Len(frames) /\ i - 1 \in 0..Len(frames) /\ (i - 1) + 1 = i
      BY <1>1, <2>2
    <3>2. r[i] = c[i + 1].docs /\ r[i - 1] = c[i].docs
      BY <3>1
    <3> HIDE DEF r
    <3> QED BY <1>1, <2>2, <3>1, <3>2
  <2> QED BY <2>1, <2>2
<1>3. ReplaySteps(d, frames, r)
  <2> DEFINE h == [i \in 0..Len(frames) |-> IF i = 0 THEN d ELSE Apply(r[i - 1], frames[i])]
  <2>1. r = [i \in 0..Len(frames) |-> r[i]]
    OBVIOUS
  <2> HIDE DEF r
  <2>2. r = h
    BY <1>2, <2>1
  <2> QED BY <2>2 DEF ReplaySteps
<1>4. ReplaySteps(d, frames, p)
  <2> HIDE DEF r
  <2> QED BY <1>3
<1>5. p = r
  <2> HIDE DEF p, r
  <2> QED BY <1>3, <1>4, ReplayStepsUnique
<1>6. Replay(d, frames) = p[Len(frames)]
  BY DEF Replay, ReplaySteps
<1>7. r[Len(frames)] = o
  BY <1>1
<1> HIDE DEF p, r
<1> QED BY <1>5, <1>6, <1>7

\* The documents are the editor's but for the frames still to be read.
THEOREM DocumentsAreReplayed == Spec => []DocumentsReplay
<1>1. IInv => DocumentsReplay
  <2> SUFFICES ASSUME IInv PROVE DocumentsReplay
    OBVIOUS
  <2>1. PICK c : Path(c, docs, input, open)
    BY DEF IInv, Conserved
  <2>2. input \in Seq(InFrames)
    BY DEF IInv, Typed
  <2> QED BY <2>1, <2>2, PathReplays DEF DocumentsReplay
<1> QED BY <1>1, Invariance, PTL

\* The types of every reachable state.
THEOREM LspTypes == Spec => []TypeOK
<1>1. IInv => TypeOK
  BY MapsAreFunctions DEF IInv, Typed, TypeOK, Docs, Document
<1> QED BY <1>1, Invariance, PTL

------------------------------------------------------------------------------
(* Responses due *)

IdsOf(q) == [i \in DOMAIN q |-> q[i].id]

\* The requests of a stream, and their ids
RequestsOf(frames) == Pick(frames, {i \in DOMAIN frames : IsRequest(frames[i])})
NumbersOf(q) == [i \in DOMAIN q |-> q[i].msg.n]

\* The ids of a stream of responses that is made longer at its front, and of two
\* streams one after the other
LEMMA IdsGrow ==
  ASSUME NEW a \in Response, NEW q \in Seq(Response)
  PROVE  IdsOf(<<a>> \o q) = <<a.id>> \o IdsOf(q)
<1>1. /\ Len(<<a>> \o q) = Len(q) + 1 /\ (<<a>> \o q)[1] = a /\ Len(q) \in Nat
      /\ DOMAIN (<<a>> \o q) = 1..Len(q) + 1 /\ DOMAIN q = 1..Len(q)
      /\ \A i \in 2..Len(q) + 1 : (<<a>> \o q)[i] = q[i - 1]
  OBVIOUS
<1> QED BY <1>1 DEF IdsOf

\* The ids of two streams of responses, one after the other.
LEMMA IdsConcat ==
  ASSUME NEW t \in Seq(Response), NEW q \in Seq(Response)
  PROVE  IdsOf(t \o q) = IdsOf(t) \o IdsOf(q)
<1>1. /\ Len(t \o q) = Len(t) + Len(q) /\ Len(t) \in Nat /\ Len(q) \in Nat
      /\ DOMAIN (t \o q) = 1..Len(t) + Len(q) /\ DOMAIN t = 1..Len(t) /\ DOMAIN q = 1..Len(q)
      /\ \A i \in 1..Len(t) : (t \o q)[i] = t[i]
      /\ \A i \in Len(t) + 1..Len(t) + Len(q) : (t \o q)[i] = q[i - Len(t)]
  OBVIOUS
<1> QED BY <1>1 DEF IdsOf

\* The numbers of requests with one before them.
LEMMA NumbersGrow ==
  ASSUME NEW S, NEW g \in S, NEW q \in Seq(S)
  PROVE  NumbersOf(<<g>> \o q) = <<g.msg.n>> \o NumbersOf(q)
<1>1. /\ Len(<<g>> \o q) = Len(q) + 1 /\ (<<g>> \o q)[1] = g /\ Len(q) \in Nat
      /\ DOMAIN (<<g>> \o q) = 1..Len(q) + 1 /\ DOMAIN q = 1..Len(q)
      /\ \A i \in 2..Len(q) + 1 : (<<g>> \o q)[i] = q[i - 1]
  OBVIOUS
<1> QED BY <1>1 DEF NumbersOf

\* The request the server reads is the first of them.
LEMMA RequestsTail ==
  ASSUME NEW frames \in Seq(InFrames), frames # <<>>
  PROVE  NumbersOf(RequestsOf(frames)) =
           IF IsRequest(Head(frames))
           THEN <<Head(frames).msg.n>> \o NumbersOf(RequestsOf(Tail(frames)))
           ELSE NumbersOf(RequestsOf(Tail(frames)))
<1> DEFINE rest == Tail(frames)
           I == {i \in DOMAIN frames : IsRequest(frames[i])}
           J == {i \in DOMAIN rest : IsRequest(rest[i])}
<1>1. /\ rest \in Seq(InFrames) /\ Len(rest) = Len(frames) - 1 /\ Len(frames) \in Nat \ {0}
      /\ \A i \in 1..Len(rest) : rest[i] = frames[i + 1]
      /\ DOMAIN rest = 1..Len(rest) /\ DOMAIN frames = 1..Len(frames)
      /\ Head(frames) = frames[1] /\ Head(frames) \in InFrames
  OBVIOUS
<1>2. Follows(J, I, Len(frames) - 1)
  BY <1>1 DEF Follows
<1>3. 1 \in I <=> IsRequest(Head(frames))
  BY <1>1
<1>4. Pick(frames, I) = IF 1 \in I THEN <<Head(frames)>> \o Pick(Tail(frames), J)
                                   ELSE Pick(Tail(frames), J)
  <2> HIDE DEF I, J, rest
  <2> QED BY <1>2, PickTail
<1>5. Pick(rest, J) \in Seq(InFrames)
  <2>1. {rest[i] : i \in 1..Len(rest) \cap J} \subseteq InFrames
    <3> HIDE DEF rest
    <3> QED BY <1>1, ElementOfSeq
  <2>2. Pick(rest, J) \in Seq({rest[i] : i \in 1..Len(rest) \cap J})
    <3> HIDE DEF J, rest
    <3> QED BY <1>1, PickSound
  <2> HIDE DEF J, rest
  <2> QED BY <2>1, <2>2, SeqMonotonic
<1>6. NumbersOf(<<Head(frames)>> \o Pick(rest, J)) =
        <<Head(frames).msg.n>> \o NumbersOf(Pick(rest, J))
  <2> HIDE DEF J, rest
  <2> QED BY <1>1, <1>5, NumbersGrow
<1>7. RequestsOf(frames) = Pick(frames, I) /\ RequestsOf(rest) = Pick(rest, J)
  BY DEF RequestsOf
<1> HIDE DEF I, J
<1> QED BY <1>3, <1>4, <1>6, <1>7

\* The responses due at the start of a path are to the requests along it.
DueOnPaths(n) ==
  \A frames \in Seq(InFrames) : \A c, d, o :
    Len(frames) = n /\ Path(c, d, frames, o) =>
      IdsOf(c[1].due) = NumbersOf(RequestsOf(frames))

\* By induction over the frames: what is due on a path answers the requests in
\* it, one by one.
LEMMA DueIds == \A n \in Nat : DueOnPaths(n)
<1> DEFINE T == {n \in Nat : DueOnPaths(n)}
<1>1. 0 \in T
  <2> SUFFICES ASSUME NEW frames \in Seq(InFrames), NEW c, NEW d, NEW o,
                      Len(frames) = 0, Path(c, d, frames, o)
               PROVE  IdsOf(c[1].due) = NumbersOf(RequestsOf(frames))
    BY DEF DueOnPaths
  <2>1. c[1].due = <<>> /\ frames = <<>>
    BY DEF Path
  <2>2. RequestsOf(<<>>) = <<>>
    BY PickEmpty DEF RequestsOf
  <2> QED BY <2>1, <2>2 DEF IdsOf, NumbersOf
<1>2. ASSUME NEW n \in Nat, n \in T PROVE n + 1 \in T
  <2> SUFFICES ASSUME NEW frames \in Seq(InFrames), NEW c, NEW d, NEW o,
                      Len(frames) = n + 1, Path(c, d, frames, o)
               PROVE  IdsOf(c[1].due) = NumbersOf(RequestsOf(frames))
    BY DEF DueOnPaths
  <2>1. /\ frames # <<>> /\ Tail(frames) \in Seq(InFrames) /\ Len(Tail(frames)) = n
        /\ Head(frames) \in InFrames
    OBVIOUS
  <2>2. /\ Path(Tail(c), Apply(d, Head(frames)), Tail(frames), o)
        /\ Link(c[1], Head(frames), Tail(c)[1])
        /\ Tail(c)[1] \in Places /\ c[1] \in Places
    BY <2>1, PathRead
  <2>3. IdsOf(Tail(c)[1].due) = NumbersOf(RequestsOf(Tail(frames)))
    <3>1. DueOnPaths(n)
      BY <1>2
    <3> QED BY <2>1, <2>2, <3>1 DEF DueOnPaths
  <2> DEFINE f == Head(frames)
             a == AnswerTo(c[1].docs, f.msg)
             due == Tail(c)[1].due
  <2>4. c[1].due = IF IsRequest(f) THEN <<a>> \o due ELSE due
    BY <2>2 DEF Link
  <2>5. due \in Seq(Response) /\ c[1].docs \in DocMaps
    BY <2>2 DEF Places
  <2>6. IsRequest(f) => IdsOf(<<a>> \o due) = <<f.msg.n>> \o IdsOf(due)
    <3> SUFFICES ASSUME IsRequest(f) PROVE IdsOf(<<a>> \o due) = <<f.msg.n>> \o IdsOf(due)
      OBVIOUS
    <3>1. a \in Response
      BY <2>1, <2>5, AnswerIsResponse
    <3>2. a.id = f.msg.n
      BY DEF AnswerTo
    <3> HIDE DEF a, due
    <3> QED BY <2>5, <3>1, <3>2, IdsGrow
  <2>7. NumbersOf(RequestsOf(frames)) =
          IF IsRequest(f) THEN <<f.msg.n>> \o NumbersOf(RequestsOf(Tail(frames)))
                          ELSE NumbersOf(RequestsOf(Tail(frames)))
    BY <2>1, RequestsTail
  <2> HIDE DEF a, due, f
  <2> QED BY <2>3, <2>4, <2>6, <2>7 DEF due
<1>3. Nat \subseteq T
  <2> HIDE DEF T
  <2> QED BY <1>1, <1>2, NatSets
<1> QED BY <1>3

\* What is told of the answers has their ids and values.
LEMMA ToldAnswers ==
  ASSUME output \in Seq(OutFrames)
  PROVE  /\ Told(output) = ToldBy(Answers)
         /\ Answers \in Seq(OutFrames)
         /\ IdsOf(Told(output)) = [i \in DOMAIN Answers |-> Answers[i].id]
         /\ DOMAIN Answers = 1..Len(Answers)
         /\ \A i \in 1..Len(Answers) : Told(output)[i].value = Answers[i].value
         /\ Len(Told(output)) = Len(Answers)
<1> DEFINE I == {i \in DOMAIN output : IsAnswer(output[i])}
<1>1. Answers = Pick(output, I)
  BY DEF Answers
<1>2. Pick(output, I) \in Seq(OutFrames)
  <2>1. {output[i] : i \in 1..Len(output) \cap I} \subseteq OutFrames
    BY ElementOfSeq
  <2>2. Pick(output, I) \in Seq({output[i] : i \in 1..Len(output) \cap I})
    <3> HIDE DEF I
    <3> QED BY PickSound
  <2> HIDE DEF I
  <2> QED BY <2>1, <2>2, SeqMonotonic
<1>3. Told(output) = ToldBy(Answers)
  BY <1>1 DEF Told
<1>4. Answers \in Seq(OutFrames) /\ Len(Answers) \in Nat /\ DOMAIN Answers = 1..Len(Answers)
  BY <1>1, <1>2
<1>5. /\ DOMAIN ToldBy(Answers) = 1..Len(Answers)
      /\ \A i \in 1..Len(Answers) : /\ ToldBy(Answers)[i].id = Answers[i].id
                                    /\ ToldBy(Answers)[i].value = Answers[i].value
  BY DEF ToldBy
<1>6. IdsOf(ToldBy(Answers)) = [i \in DOMAIN Answers |-> Answers[i].id]
  BY <1>4, <1>5 DEF IdsOf
<1>7. Len(ToldBy(Answers)) = Len(Answers)
  BY <1>4 DEF ToldBy
<1> QED BY <1>3, <1>4, <1>5, <1>6, <1>7

\* Each request gets one response, in the order of the requests: what the editor
\* awaits is what is on its way to it and what the requests not yet read will be
\* answered.
THEOREM ResponsesAreConserved == Spec => []ResponsesConserved
<1>1. IInv => ResponsesConserved
  <2> SUFFICES ASSUME IInv, reading
               PROVE  IdsOf(awaiting) =
                      [i \in DOMAIN Answers |-> Answers[i].id] \o NumbersOf(Requests)
    BY DEF ResponsesConserved, IdsOf, NumbersOf
  <2>1. PICK c : Path(c, docs, input, open) /\ awaiting = Told(output) \o c[1].due
    BY DEF IInv, Conserved
  <2>2. input \in Seq(InFrames) /\ output \in Seq(OutFrames) /\ Len(input) \in Nat
    BY DEF IInv, Typed
  <2>3. IdsOf(c[1].due) = NumbersOf(RequestsOf(input))
    <3>1. DueOnPaths(Len(input))
      BY <2>2, DueIds
    <3> QED BY <2>1, <2>2, <3>1 DEF DueOnPaths
  <2>4. c[1].due \in Seq(Response)
    <3>1. c \in Seq(Places) /\ Len(c) = Len(input) + 1
      BY <2>1 DEF Path
    <3>2. c[1] \in Places
      BY <2>2, <3>1, ElementOfSeq
    <3> QED BY <3>2 DEF Places
  <2>5. Told(output) \in Seq(Response)
    BY <2>2, ToldType
  <2>6. IdsOf(awaiting) = IdsOf(Told(output)) \o IdsOf(c[1].due)
    <3> DEFINE t == Told(output)
               q == c[1].due
    <3>1. t \in Seq(Response) /\ q \in Seq(Response) /\ awaiting = t \o q
      BY <2>1, <2>4, <2>5
    <3> HIDE DEF t, q
    <3>2. IdsOf(t \o q) = IdsOf(t) \o IdsOf(q)
      BY <3>1, IdsConcat
    <3> QED BY <3>1, <3>2 DEF t, q
  <2>7. IdsOf(Told(output)) = [i \in DOMAIN Answers |-> Answers[i].id]
    BY <2>2, ToldAnswers
  <2>8. Requests = RequestsOf(input)
    BY DEF Requests, RequestsOf
  <2> QED BY <2>3, <2>6, <2>7, <2>8
<1> QED BY <1>1, Invariance, PTL

\* Each response on its way carries what the editor expects of it, a hover the
\* text as it was when the hover was asked.
THEOREM AnswersAreTrue == Spec => []AnswersTrue
<1>1. IInv => AnswersTrue
  <2> SUFFICES ASSUME IInv, NEW i \in DOMAIN Answers
               PROVE  Answers[i].value = awaiting[i].value
    BY DEF AnswersTrue
  <2>1. output \in Seq(OutFrames)
    BY DEF IInv, Typed
  <2>2. CASE ~reading
    <3>1. output = <<>>
      BY <2>2 DEF IInv, Typed
    <3>2. Answers = <<>>
      BY <3>1, PickEmpty DEF Answers
    <3> QED BY <3>2
  <2>3. CASE reading
    <3>1. PICK c : Path(c, docs, input, open) /\ awaiting = Told(output) \o c[1].due
      BY <2>3 DEF IInv, Conserved
    <3>2. c[1].due \in Seq(Response)
      <4>1. c \in Seq(Places) /\ Len(c) = Len(input) + 1 /\ Len(input) \in Nat
        BY <3>1 DEF Path, IInv, Typed
      <4>2. c[1] \in Places
        BY <4>1, ElementOfSeq
      <4> QED BY <4>2 DEF Places
    <3> DEFINE t == Told(output)
               q == c[1].due
    <3>3. t \in Seq(Response) /\ q \in Seq(Response) /\ awaiting = t \o q
      BY <2>1, <3>1, <3>2, ToldType
    <3>4. i \in 1..Len(t) /\ t[i].value = Answers[i].value
      BY <2>1, ToldAnswers
    <3> HIDE DEF t, q
    <3>5. (t \o q)[i] = t[i]
      BY <3>3, <3>4
    <3> QED BY <3>3, <3>4, <3>5
  <2> QED BY <2>2, <2>3
<1> QED BY <1>1, Invariance, PTL

------------------------------------------------------------------------------
(* Diagnostics *)

\* Frames that are no messages change no document.
LEMMA QuietPath ==
  ASSUME NEW frames \in Seq(InFrames), NEW d, NEW o, NEW c, Path(c, d, frames, o),
         \A i \in 1..Len(frames) : ~IsMessage(frames[i])
  PROVE  d = o
<1>1. /\ Len(frames) \in Nat /\ Len(c) = Len(frames) + 1
      /\ c[1].docs = d /\ c[Len(c)].docs = o
      /\ \A k \in 1..Len(frames) : Link(c[k], frames[k], c[k + 1])
  <2>1. Len(frames) \in Nat
    OBVIOUS
  <2> QED BY <2>1 DEF Path
<1>2. \A k \in 1..Len(frames) : c[k + 1].docs = c[k].docs
  BY <1>1 DEF Link, Apply
<1> DEFINE T == {n \in Nat : n <= Len(frames) => c[n + 1].docs = d}
<1>3. 0 \in T
  BY <1>1
<1>4. ASSUME NEW n \in Nat, n \in T PROVE n + 1 \in T
  <2> SUFFICES ASSUME n + 1 <= Len(frames) PROVE c[(n + 1) + 1].docs = d
    BY DEF T
  <2>1. c[n + 1].docs = d /\ n + 1 \in 1..Len(frames)
    BY <1>1, <1>4
  <2> QED BY <2>1, <1>2
<1>5. Nat \subseteq T
  <2> HIDE DEF T
  <2> QED BY <1>3, <1>4, NatSets
<1> QED BY <1>1, <1>5

\* An editor that has received everything sees the diagnostics of each document
\* as it has it.
THEOREM DiagnosticsArrive == Spec => []QuiescentDiagnostics
<1>1. IInv => QuiescentDiagnostics
  <2> SUFFICES ASSUME IInv, reading, output = <<>>,
                      \A i \in DOMAIN input : ~IsMessage(input[i]),
                      NEW u \in DOMAIN open
               PROVE  u \in DOMAIN shown /\ shown[u] = open[u]
    BY DEF QuiescentDiagnostics
  <2>1. PICK c : Path(c, docs, input, open)
    BY DEF IInv, Conserved
  <2>2. input \in Seq(InFrames)
    BY DEF IInv, Typed
  <2>3. \A i \in 1..Len(input) : ~IsMessage(input[i])
    BY <2>2
  <2>4. docs = open
    BY <2>1, <2>2, <2>3, QuietPath
  <2>5. Fresh(<<>>, shown, u, docs[u])
    BY <2>4 DEF IInv, AllFresh
  <2> QED BY <2>4, <2>5 DEF Fresh
<1> QED BY <1>1, Invariance, PTL
==============================================================================
