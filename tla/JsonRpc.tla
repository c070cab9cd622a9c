------------------------------- MODULE JsonRpc -------------------------------
(***************************************************************************)
(* The framing of src/server/jsonrpc.cpp.  A stream is the sequence of     *)
(* frames the peer has written, a frame [kind, msg], and read_message()    *)
(* takes the first one or blocks.  Only the first frame that is not        *)
(* "message" matters to a server: both of them stop reading there.         *)
(*                                                                         *)
(*   message    a JSON value, correctly framed                             *)
(*   notJson    a frame whose body json::parse() refuses                   *)
(*   blank      an empty line where a frame should start                   *)
(*   overlong   a Content-Length larger than the body that follows         *)
(*   underlong  a Content-Length smaller than the body                     *)
(***************************************************************************)
EXTENDS Naturals, Sequences

Framings == {"headers", "newline"}

\* Kinds of broken frame a peer can write under each framing
BadKinds(framing) ==
  {"notJson", "blank"} \cup
  (IF framing = "headers" THEN {"overlong", "underlong"} ELSE {})

\* read_message() blocks in istream::get or istream::read: nothing has arrived,
\* or an overlong frame still waits for the bytes it announced.
Blocks(stream, closed) ==
  /\ ~closed
  /\ \/ stream = <<>>
     \/ Head(stream).kind = "overlong" /\ Len(stream) = 1

\* The Status read_message() returns when it does not block.  With header
\* framing an empty line ends the headers, and without a length that is Parse;
\* line by line it is Io, the code of an end of file.  An overlong frame takes
\* its missing bytes from the next frame, which json::parse() then refuses.
ReadStatus(framing, stream) ==
  IF stream = <<>> THEN "Io"
  ELSE CASE Head(stream).kind = "message" -> "Ok"
         [] Head(stream).kind = "blank" ->
              IF framing = "newline" THEN "Io" ELSE "Parse"
         [] Head(stream).kind = "overlong" ->
              IF Len(stream) = 1 THEN "Io" ELSE "Parse"
         [] OTHER -> "Parse"
==============================================================================
