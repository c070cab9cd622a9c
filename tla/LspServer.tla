------------------------------ MODULE LspServer ------------------------------
(***************************************************************************)
(* The language server (src/server/lsp_server.cpp): one loop that reads a  *)
(* frame, keeps the text of the open documents and publishes diagnostics,  *)
(* with an editor that opens, changes and closes documents and asks for    *)
(* hovers without waiting for answers.                                     *)
(*                                                                         *)
(* A text stands for itself, for its diagnostics and for the hover found   *)
(* in it: both are functions of the text alone.                            *)
(***************************************************************************)
EXTENDS JsonRpc, Streams, FiniteSets, Functions

CONSTANTS
  Uris,     \* documents the editor works on
  Texts,    \* their texts
  MaxSent,  \* bound: frames the editor sends
  PipeSize  \* frames the output pipe holds while nobody reads, 0 when one frame
            \* is larger than the pipe

ASSUME MaxSentAssumption == MaxSent \in Nat
ASSUME PipeSizeAssumption == PipeSize \in Nat

VARIABLES
  docs,      \* docs_: uri -> [text, version]
  status,    \* "running", what LspServer::run() returned, or "Killed" by SIGPIPE
  input,     \* frames on their way to the server
  closed,    \* has the editor closed its end?
  output,    \* frames on their way to the editor, the last perhaps still
             \* being written
  reading,   \* is the editor's reading end open?
  open,      \* the editor: its open documents, uri -> [text, version]
  shown,     \* the editor: the diagnostics last received for each document
  awaiting,  \* the editor: requests not answered, each [id, value] with the
             \* value the answer should have
  sent       \* frames sent so far

server == <<docs, status>>
editor == <<open, shown, awaiting, sent>>
vars == <<docs, status, input, closed, output, reading, open, shown, awaiting,
          sent>>

NoDocs == [u \in {} |-> [text |-> "", version |-> 0]]

Init ==
  /\ docs = NoDocs
  /\ status = "running"
  /\ input = <<>>
  /\ closed = FALSE
  /\ output = <<>>
  /\ reading = TRUE
  /\ open = NoDocs
  /\ shown = NoDocs
  /\ awaiting = <<>>
  /\ sent = 0

With(map, u, doc) ==
  [v \in DOMAIN map \cup {u} |-> IF v = u THEN doc ELSE map[v]]
Without(map, u) == Restrict(map, DOMAIN map \ {u})
Doc(text, version) == [text |-> text, version |-> version]

------------------------------------------------------------------------------
(* The server *)

\* Is the server out of its last flush()?  A frame that no longer fits in the
\* pipe keeps it there until the editor has read enough.
Writable == Len(output) <= PipeSize

\* Writing to a pipe whose reading end is closed: SIGPIPE, for which no entry
\* point installs a handler, or where it is ignored a failed stream.
WriteToClosed == status' \in {status, "Killed"}

\* write_message(): its Status is ignored, so a failed write loses the frame.
Write(frame) ==
  \/ reading /\ output' = Append(output, frame) /\ UNCHANGED status
  \/ ~reading /\ WriteToClosed /\ UNCHANGED output

PublishDiagnostics(u, doc) ==
  Write([kind |-> "diagnostics", uri |-> u, doc |-> doc])

Answer(m, value) ==
  /\ Write([kind |-> "response", id |-> m.n, value |-> value])
  /\ UNCHANGED docs
Ignore == UNCHANGED <<docs, status, output>>

\* Requests whose answer depends on nothing: initialize, shutdown, a hover
\* without its parameters and an unknown method.  initialized_ and shutdown_,
\* which the first two set, are read nowhere.
Fixed == [initialize |-> "capabilities", shutdown |-> "null",
          badHover |-> "null", unknown |-> "MethodNotFound"]

\* Notifications without effect: initialized, one that is not known, a didOpen
\* without its parameters, and a value without a method
Unheeded == {"initialized", "unknownNote", "badOpen", "noMethod"}

DidOpen(m) ==
  /\ m.method = "didOpen"
  /\ docs' = With(docs, m.uri, Doc(m.text, m.version))
  /\ PublishDiagnostics(m.uri, Doc(m.text, m.version))

\* The document after a didChange: the last change's text, if there is one
Changed(doc, m) == Doc(IF m.text = "none" THEN doc.text ELSE m.text, m.version)

\* Mutant of DidChange: the new text is kept after it has been published.
DidChangeLate(m) ==
  /\ m.method = "didChange"
  /\ \/ /\ m.uri \notin DOMAIN docs
        /\ Ignore
     \/ /\ m.uri \in DOMAIN docs
        /\ docs' = With(docs, m.uri, Changed(docs[m.uri], m))
        /\ PublishDiagnostics(m.uri, Doc(docs[m.uri].text, m.version))

\* Mutant of DidChange: only published.
DidChangePublished(m) ==
  /\ m.method = "didChange"
  /\ \/ /\ m.uri \notin DOMAIN docs
        /\ Ignore
     \/ /\ m.uri \in DOMAIN docs
        /\ PublishDiagnostics(m.uri, Changed(docs[m.uri], m))
        /\ UNCHANGED docs

\* Any version is taken, and a document that is not open is left alone.
DidChange(m) ==
  /\ m.method = "didChange"
  /\ \/ /\ m.uri \notin DOMAIN docs
        /\ Ignore
     \/ /\ m.uri \in DOMAIN docs
        /\ docs' = With(docs, m.uri, Changed(docs[m.uri], m))
        /\ PublishDiagnostics(m.uri, Changed(docs[m.uri], m))

\* Mutant of DidClose: the text stays.
DidCloseKeeps(m) == m.method = "didClose" /\ Ignore

\* The diagnostics of a closed document are not cleared.
DidClose(m) ==
  /\ m.method = "didClose"
  /\ docs' = Without(docs, m.uri)
  /\ UNCHANGED <<status, output>>

\* Mutant of Hover: nothing to say about a document that is not open.
HoverSilent(m) ==
  /\ m.method = "hover"
  /\ \/ m.uri \in DOMAIN docs /\ Answer(m, docs[m.uri].text)
     \/ m.uri \notin DOMAIN docs /\ Ignore

Hover(m) ==
  /\ m.method = "hover"
  /\ Answer(m, IF m.uri \in DOMAIN docs THEN docs[m.uri].text ELSE "null")

Dispatch(m) ==
  \/ DidOpen(m)
  \/ DidChange(m)
  \/ DidClose(m)
  \/ Hover(m)
  \/ m.method \in DOMAIN Fixed /\ Answer(m, Fixed[m.method])
  \/ m.method \in Unheeded /\ Ignore

ReadsMessage ==
  /\ status = "running" /\ Writable
  /\ ~Blocks(input, closed)
  /\ ReadStatus("headers", input) = "Ok"
  /\ input' = Tail(input)

\* One round of LspServer::run()'s loop, up to the flush() of what it writes.
Serve ==
  /\ ReadsMessage
  /\ Dispatch(Head(input).msg)
  /\ UNCHANGED <<closed, reading, editor>>

\* Mutant of Exit: only one that follows a shutdown counts, and is an error.
ExitNoted ==
  /\ ReadsMessage
  /\ Head(input).msg.method = "exit"
  /\ UNCHANGED <<docs, status, closed, output, reading, editor>>

\* exit ends the loop, after a shutdown or not.
Exit ==
  /\ ReadsMessage
  /\ Head(input).msg.method = "exit"
  /\ status' = "Ok"
  /\ UNCHANGED <<docs, closed, output, reading, editor>>

\* Mutant of Stop: the end of file is reported as such.
StopReportsIo ==
  /\ status = "running" /\ Writable
  /\ ~Blocks(input, closed)
  /\ ReadStatus("headers", input) # "Ok"
  /\ status' = ReadStatus("headers", input)
  /\ UNCHANGED <<docs, input, closed, output, reading, editor>>

\* A failed read ends the loop.
Stop ==
  /\ status = "running" /\ Writable
  /\ ~Blocks(input, closed)
  /\ ReadStatus("headers", input) # "Ok"
  /\ status' = IF ReadStatus("headers", input) = "Io" THEN "Ok"
               ELSE ReadStatus("headers", input)
  /\ UNCHANGED <<docs, input, closed, output, reading, editor>>

------------------------------------------------------------------------------
(* The editor *)

Message(method) ==
  [n |-> sent + 1, method |-> method, uri |-> "none", text |-> "none",
   version |-> sent + 1]

Sends(m) ==
  /\ ~closed
  /\ sent < MaxSent
  /\ sent' = sent + 1
  /\ input' = Append(input, [kind |-> "message", msg |-> m])
  /\ UNCHANGED <<server, closed, output, reading, shown>>

Expects(value) ==
  awaiting' = Append(awaiting, [id |-> sent + 1, value |-> value])

Opens ==
  \E u \in Uris \ DOMAIN open, t \in Texts :
    /\ Sends([Message("didOpen") EXCEPT !.uri = u, !.text = t])
    /\ open' = With(open, u, Doc(t, sent + 1))
    /\ UNCHANGED awaiting

\* Full text, or no change at all but of the version
Changes ==
  \E u \in DOMAIN open, t \in Texts \cup {"none"} :
    LET m == [Message("didChange") EXCEPT !.uri = u, !.text = t]
    IN  /\ Sends(m)
        /\ open' = With(open, u, Changed(open[u], m))
        /\ UNCHANGED awaiting

Closes ==
  \E u \in DOMAIN open :
    /\ Sends([Message("didClose") EXCEPT !.uri = u])
    /\ open' = Without(open, u)
    /\ UNCHANGED awaiting

\* A hover may be asked of any document, and is about the text it has now.
Hovers ==
  \E u \in Uris :
    /\ Sends([Message("hover") EXCEPT !.uri = u])
    /\ Expects(IF u \in DOMAIN open THEN open[u].text ELSE "null")
    /\ UNCHANGED open

Asks ==
  \E k \in DOMAIN Fixed :
    /\ Sends(Message(k))
    /\ Expects(Fixed[k])
    /\ UNCHANGED open

Notifies ==
  \E k \in Unheeded \cup {"exit"} :
    /\ Sends(Message(k))
    /\ UNCHANGED <<open, awaiting>>

SendsBroken ==
  /\ ~closed
  /\ sent < MaxSent
  /\ sent' = sent + 1
  /\ \E k \in BadKinds("headers") :
       input' = Append(input, [kind |-> k, msg |-> Message("none")])
  /\ UNCHANGED <<server, closed, output, reading, open, shown, awaiting>>

ClosesConnection ==
  /\ ~closed
  /\ closed' = TRUE
  /\ UNCHANGED <<server, input, output, reading, editor>>

\* The editor closes its reading end, perhaps with the server in flush().
StopsReading ==
  /\ reading
  /\ reading' = FALSE
  /\ output' = <<>>
  /\ IF status = "running" /\ ~Writable THEN WriteToClosed ELSE UNCHANGED status
  /\ UNCHANGED <<docs, input, closed, editor>>

ReceivesAnswer ==
  /\ output # <<>>
  /\ Head(output).kind = "response"
  /\ output' = Tail(output)
  /\ awaiting' = Tail(awaiting)
  /\ UNCHANGED <<server, input, closed, reading, open, shown, sent>>

ReceivesDiagnostics ==
  /\ output # <<>>
  /\ Head(output).kind = "diagnostics"
  /\ output' = Tail(output)
  /\ shown' = With(shown, Head(output).uri, Head(output).doc)
  /\ UNCHANGED <<server, input, closed, reading, open, awaiting, sent>>

\* run() has returned, or the process is gone, and the editor has nothing more to do.
Finished ==
  /\ status # "running"
  /\ closed
  /\ output = <<>>
  /\ UNCHANGED vars

Next ==
  \/ Serve
  \/ Exit
  \/ Stop
  \/ Opens
  \/ Changes
  \/ Closes
  \/ Hovers
  \/ Asks
  \/ Notifies
  \/ SendsBroken
  \/ ClosesConnection
  \/ StopsReading
  \/ ReceivesAnswer
  \/ ReceivesDiagnostics
  \/ Finished

\* The server's thread only runs this loop, so it takes a round whenever neither
\* its read nor its last write blocks.
ServerFairness == WF_vars(Serve) /\ WF_vars(Exit) /\ WF_vars(Stop)

\* Assumed of the editor: it reads what arrives until it closes its reading end.
\* One that keeps it open and never reads leaves the server in flush() for ever.
EditorReads == WF_vars(ReceivesAnswer \/ ReceivesDiagnostics)

Fairness == ServerFairness /\ EditorReads

Spec == Init /\ [][Next]_vars /\ Fairness

------------------------------------------------------------------------------
(* Properties *)

Docs(map) == /\ DOMAIN map \subseteq Uris
             /\ \A u \in DOMAIN map : map[u] \in [text : Texts, version : 1..MaxSent]

\* The types of the server's fields, of what run() returns and of what the
\* editor is shown; nothing is queued for an editor that stopped reading.
TypeOK ==
  /\ Docs(docs)
  /\ Docs(open)
  /\ Docs(shown)
  /\ status \in {"running", "Ok", "Parse", "Killed"}
  /\ status = "Killed" => ~reading
  /\ ~reading => output = <<>>
  /\ sent \in 0..MaxSent

IsMessage(frame) == frame.kind = "message"
IsAnswer(frame) == frame.kind = "response"
IsRequest(frame) ==
  IsMessage(frame) /\ frame.msg.method \in DOMAIN Fixed \cup {"hover"}

Answers == Pick(output, {i \in DOMAIN output : IsAnswer(output[i])})
Requests == Pick(input, {i \in DOMAIN input : IsRequest(input[i])})

\* One response per request, in the order of the requests: what the editor waits
\* for is on its way back or still to be read.
ResponsesConserved ==
  reading =>
    [i \in DOMAIN awaiting |-> awaiting[i].id] =
    [i \in DOMAIN Answers |-> Answers[i].id] \o
    [i \in DOMAIN Requests |-> Requests[i].msg.n]

\* A hover is answered from the text the document had when it was asked, with
\* changes before and after it on their way; null when the document was closed.
AnswersTrue ==
  \A i \in DOMAIN Answers : Answers[i].value = awaiting[i].value

\* What a frame will make of the documents
Apply(map, frame) ==
  LET m == frame.msg
  IN  CASE ~IsMessage(frame) -> map
        [] IsMessage(frame) /\ m.method = "didOpen" ->
             With(map, m.uri, Doc(m.text, m.version))
        [] IsMessage(frame) /\ m.method = "didChange" ->
             With(map, m.uri, Changed(map[m.uri], m))
        [] IsMessage(frame) /\ m.method = "didClose" -> Without(map, m.uri)
        [] OTHER -> map

\* What all the frames will make of them, one after the other
Replay(map, frames) ==
  LET after[i \in 0..Len(frames)] ==
        IF i = 0 THEN map ELSE Apply(after[i - 1], frames[i])
  IN  after[Len(frames)]

\* The server is behind the editor by exactly the frames still to be read: it
\* never misses a change and never keeps a text the editor has closed.
DocumentsReplay == Replay(docs, input) = open

\* lsp_server.hpp:7 "publishDiagnostics on every change": an editor that has
\* received everything sees, for every open document, the diagnostics of the
\* text it has, under its version.
QuiescentDiagnostics ==
  reading /\ output = <<>> /\ (\A i \in DOMAIN input : ~IsMessage(input[i])) =>
    \A u \in DOMAIN open : u \in DOMAIN shown /\ shown[u] = open[u]

\* Can the server read its way to an exit?
ExitDue ==
  \E i \in DOMAIN input :
    /\ input[i].msg.method = "exit"
    /\ \A j \in 1..i : input[j].kind = "message"

\* lsp_server.hpp:28 "Run the event loop until the client closes the connection
\* or explicitly sends exit": then run() does return, for an editor that reads what
\* it is sent or closes its reading end; the process is killed only after the latter.
EndsService ==
  closed \/ ExitDue ~> status \in {"Ok", "Parse"} \/ (status = "Killed" /\ ~reading)
==============================================================================
