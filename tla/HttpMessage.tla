---------------------------- MODULE HttpMessage ----------------------------
(***************************************************************************)
(* Reading an HTTP request from the pieces it arrives in: UpdateMessage    *)
(* and its helpers of src/3rd_party/sslib/http_common.cc and PrepareTask   *)
(* of src/3rd_party/sslib/http_server.cc.                                  *)
(*                                                                         *)
(* A request is a sequence of symbols.  "known" is a request line whose    *)
(* URL a handler answers, "length", "chunked" and "close" are header       *)
(* fields, "size" and "zero" chunk sizes, "d1" and "d2" bytes of a body,   *)
(* "cr" and "lf" the two bytes of a line end.  What is left of str from    *)
(* offset on is the field rest of a message.                               *)
(***************************************************************************)
EXTENDS Naturals, Sequences

Eol == <<"cr", "lf">>

(* The requests of the clients, by kind.                                   *)
Request ==
  [get     |-> <<"known", "cr", "lf", "cr", "lf">>,
   closing |-> <<"known", "cr", "lf", "close", "cr", "lf", "cr", "lf">>,
   post    |-> <<"known", "cr", "lf", "length", "cr", "lf", "cr", "lf", "d1", "d2">>,
   chunked |-> <<"known", "cr", "lf", "chunked", "cr", "lf", "cr", "lf",
                 "size", "cr", "lf", "d1", "d2", "cr", "lf",
                 "zero", "cr", "lf", "cr", "lf">>]

Kinds == DOMAIN Request

BodyLength == 2   (* what "length" and "size" announce                     *)

Symbols == {"known", "length", "chunked", "close", "size", "zero", "d1", "d2",
            "cr", "lf"}

(* A request being read: str from offset on, HttpRequest, HeaderInfo and   *)
(* UpdatingState.  header_lines keeps only its first line, the one that is *)
(* read again.                                                             *)
Messages ==
  [rest : Seq(Symbols), header_lines : Seq(Seq(Symbols)),
   body_length : Nat, body : Seq(Symbols), chunk_length : Nat,
   is_chunked : BOOLEAN, is_close : BOOLEAN,
   state : {"Header", "Body", "End"}]

NewMessage ==
  [rest |-> <<>>, header_lines |-> <<>>,
   body_length |-> 0, body |-> <<>>, chunk_length |-> 0,
   is_chunked |-> FALSE, is_close |-> FALSE, state |-> "Header"]

-----------------------------------------------------------------------------
LineEnds(s) == {i \in 1 .. Len(s) - 1 : s[i] = "cr" /\ s[i + 1] = "lf"}

HasCompleteLine(s) == LineEnds(s) # {}

(* The text of the first complete line, without its end, and what follows. *)
LineLength(s) == (CHOOSE i \in LineEnds(s) : \A j \in LineEnds(s) : i <= j) - 1
LineText(s)   == SubSeq(s, 1, LineLength(s))
AfterLine(s)  == SubSeq(s, LineLength(s) + 3, Len(s))

GetChunkLength(text) ==
  IF text # <<>> /\ text[1] = "size" THEN BodyLength ELSE 0

(* One header line: the first is kept, an empty one ends the header, and   *)
(* the fields the server knows are noted.                                  *)
ReadHeaderLine(m) ==
  LET text == LineText(m.rest)
      next == [m EXCEPT !.rest = AfterLine(m.rest)]
  IN  CASE m.header_lines = <<>> -> [next EXCEPT !.header_lines = <<text>>]
        [] m.header_lines # <<>> /\ text = <<>> -> [next EXCEPT !.state = "Body"]
        [] m.header_lines # <<>> /\ text # <<>> ->
             [next EXCEPT !.is_close      = @ \/ text = <<"close">>,
                          !.is_chunked    = @ \/ text = <<"chunked">>,
                          !.body_length   = IF text = <<"length">>
                                            THEN BodyLength ELSE @]

(* A faulty variant, for mutation: the length is not compared with what    *)
(* has arrived.                                                            *)
ReadPlainBody_Early(m) ==
  LET len == IF m.body_length < Len(m.rest) /\ m.body_length > 0
             THEN m.body_length ELSE Len(m.rest)
  IN  IF len > 0
      THEN [m EXCEPT !.body_length = len,
                     !.body  = @ \o SubSeq(m.rest, 1, len),
                     !.rest  = SubSeq(m.rest, len + 1, Len(m.rest)),
                     !.state = "End"]
      ELSE m

(* A body without chunks: of the announced length, or else all there is.   *)
ReadPlainBody(m) ==
  LET len == IF m.body_length = 0 THEN Len(m.rest) ELSE m.body_length
      all == [m EXCEPT !.body_length = len]
  IN  IF len > 0 /\ len <= Len(m.rest)
      THEN [all EXCEPT !.body  = @ \o SubSeq(m.rest, 1, len),
                       !.rest  = SubSeq(m.rest, len + 1, Len(m.rest)),
                       !.state = "End"]
      ELSE all

(* The line that announces a chunk; length 0 is the end of the body.       *)
ReadChunkLength(m) ==
  LET len == GetChunkLength(LineText(m.rest))
  IN  [m EXCEPT !.chunk_length = len, !.rest = AfterLine(m.rest),
                !.state = IF len = 0 THEN "End" ELSE @]

(* The chunk of the known length at the head of rest, and its line end.    *)
TakeChunk(m) ==
  LET after == SubSeq(m.rest, m.chunk_length + 1, Len(m.rest))
  IN  [m EXCEPT !.body = @ \o SubSeq(m.rest, 1, m.chunk_length),
                !.rest = IF SubSeq(after, 1, 2) = Eol
                         THEN SubSeq(after, 3, Len(after)) ELSE after,
                !.chunk_length = 0]

(* The loop of UpdateMessage.  It ends with a complete request, where the  *)
(* next piece cannot be read yet, and after a body without chunks.         *)
Stops(m) ==
  \/ m.state = "End"
  \/ m.state = "Header" /\ m.rest = <<>>
  \/ m.state = "Body" /\ ~m.is_chunked
  \/ m.state = "Body" /\ m.is_chunked /\ m.chunk_length = 0 /\ ~HasCompleteLine(m.rest)
  \/ /\ m.state = "Body" /\ m.is_chunked
     /\ m.chunk_length > 0 /\ m.chunk_length + 2 > Len(m.rest)

Returned(m) ==
  IF m.state = "Body" /\ ~m.is_chunked THEN ReadPlainBody(m) ELSE m

(* Otherwise it goes round.  A line that is not complete ends the header.  *)
Round(m) ==
  CASE m.state = "Header" /\ HasCompleteLine(m.rest)  -> ReadHeaderLine(m)
    [] m.state = "Header" /\ ~HasCompleteLine(m.rest) -> [m EXCEPT !.state = "Body"]
    [] m.state = "Body" /\ m.chunk_length = 0         -> ReadChunkLength(m)
    [] m.state = "Body" /\ m.chunk_length > 0         -> TakeChunk(m)

UpdateMessage[m \in Messages] ==
  IF Stops(m) THEN Returned(m) ELSE UpdateMessage[Round(m)]

(* A faulty variant, for mutation: a request without a body is left open   *)
(* like one whose body is still to come.                                   *)
Prepared_AwaitBody(m, data) == UpdateMessage[[m EXCEPT !.rest = @ \o data]]

(* The request after one more read.  A header that announced no length     *)
(* makes it ready, whether or not it is chunked.                           *)
Prepared(m, data) ==
  LET u == UpdateMessage[[m EXCEPT !.rest = @ \o data]]
  IN  IF u.state = "Body" /\ u.body_length <= 0
      THEN [u EXCEPT !.state = "End"] ELSE u

(* UpdateRequestFromHeaderLines: the method is recognised, and the URL is  *)
(* one of a handler's.                                                     *)
FirstLine(m)     == IF m.header_lines = <<>> THEN <<>> ELSE m.header_lines[1]
IsUnknownType(m) == FirstLine(m) # <<"known">>
HasKnownUrl(m)   == \E i \in DOMAIN FirstLine(m) : FirstLine(m)[i] = "known"

-----------------------------------------------------------------------------
(* What a request of a kind says, and where a read may end without harm:   *)
(* after a header line, or, when the length is announced, anywhere in the  *)
(* body.                                                                   *)
BodyOf(kind) == IF kind \in {"post", "chunked"} THEN <<"d1", "d2">> ELSE <<>>

EndsHeader(kind, n) ==
  n >= 4 /\ SubSeq(Request[kind], n - 3, n) = <<"cr", "lf", "cr", "lf">>

HeaderLength(kind) ==
  CHOOSE n \in DOMAIN Request[kind] :
    EndsHeader(kind, n) /\ \A k \in 1 .. n - 1 : ~EndsHeader(kind, k)

IsCleanCut(kind, n) ==
  \/ n = Len(Request[kind])
  \/ n < HeaderLength(kind) /\ Request[kind][n] = "lf"
  \/ n >= HeaderLength(kind) /\ kind # "chunked"
=============================================================================
