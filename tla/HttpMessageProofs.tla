-------------------------- MODULE HttpMessageProofs --------------------------
(***************************************************************************)
(* What UpdateMessage computes.  A round of its loop that is not the last  *)
(* makes the message smaller (RoundType), so that the recursive function   *)
(* is defined by its equation for every text (UpdateLoop) and keeps the    *)
(* message well formed (UpdateType).  A request that arrives in reads      *)
(* which do no harm is followed from cut to cut: after each of them the    *)
(* message is the one Partial says (CleanRead), and at the end it is the   *)
(* request that was sent, whatever the number of reads.                    *)
(***************************************************************************)
EXTENDS HttpMessage, LoopTheorems, SequenceTheorems

(* The first line end of a text, if it has one.                            *)
LEMMA FirstLineEnd ==
  ASSUME NEW s \in Seq(Symbols), HasCompleteLine(s)
  PROVE  /\ LineLength(s) \in Nat /\ LineLength(s) + 2 <= Len(s)
         /\ s[LineLength(s) + 1] = "cr" /\ s[LineLength(s) + 2] = "lf"
         /\ \A i \in 1 .. LineLength(s) : ~(s[i] = "cr" /\ s[i + 1] = "lf")
<1>1. Len(s) \in Nat
  OBVIOUS
<1>2. LineEnds(s) \subseteq Nat /\ LineEnds(s) # {}
  BY <1>1 DEF LineEnds, HasCompleteLine
<1>3. \E i \in LineEnds(s) : \A j \in LineEnds(s) : i <= j
  BY <1>2, LeastNumber
<1> DEFINE i == CHOOSE i \in LineEnds(s) : \A j \in LineEnds(s) : i <= j
<1>4. i \in LineEnds(s) /\ \A j \in LineEnds(s) : i <= j
  BY <1>3
<1>5. LineLength(s) = i - 1
  BY DEF LineLength
<1> HIDE DEF i
<1>6. i \in 1 .. Len(s) - 1 /\ s[i] = "cr" /\ s[i + 1] = "lf"
  BY <1>4 DEF LineEnds
<1>7. \A j \in 1 .. i - 1 : ~(s[j] = "cr" /\ s[j + 1] = "lf")
  <2> SUFFICES ASSUME NEW j \in 1 .. i - 1, s[j] = "cr", s[j + 1] = "lf" PROVE FALSE
    OBVIOUS
  <2>1. j \in LineEnds(s)
    BY <1>1, <1>6 DEF LineEnds
  <2> QED BY <1>4, <1>6, <2>1
<1> QED BY <1>1, <1>5, <1>6, <1>7

(* A part of a text is a text.                                             *)
LEMMA PartOfText ==
  ASSUME NEW s \in Seq(Symbols), NEW m \in 1 .. Len(s) + 1, NEW n \in 0 .. Len(s)
  PROVE  /\ SubSeq(s, m, n) \in Seq(Symbols)
         /\ Len(SubSeq(s, m, n)) = IF m <= n THEN n - m + 1 ELSE 0
         /\ \A i \in 1 .. n - m + 1 : SubSeq(s, m, n)[i] = s[m + i - 1]
OBVIOUS

(* A line and what follows it.                                             *)
LEMMA LineParts ==
  ASSUME NEW s \in Seq(Symbols), HasCompleteLine(s)
  PROVE  /\ LineText(s) \in Seq(Symbols) /\ AfterLine(s) \in Seq(Symbols)
         /\ Len(AfterLine(s)) = Len(s) - LineLength(s) - 2
         /\ Len(AfterLine(s)) < Len(s) /\ Len(s) \in Nat
<1>1. LineLength(s) \in Nat /\ LineLength(s) + 2 <= Len(s) /\ Len(s) \in Nat
  BY FirstLineEnd
<1>2. LineText(s) \in Seq(Symbols)
  BY <1>1, PartOfText DEF LineText
<1>3. AfterLine(s) \in Seq(Symbols) /\ Len(AfterLine(s)) = Len(s) - LineLength(s) - 2
  BY <1>1, PartOfText DEF AfterLine
<1> QED BY <1>1, <1>2, <1>3

-----------------------------------------------------------------------------
(* The symbols left, twice, and the header that is still to be ended.      *)
Size(m) == 2 * Len(m.rest) + (IF m.state = "Header" THEN 1 ELSE 0)

(* Rounds make messages of messages, and smaller ones.                     *)
LEMMA HeaderRound ==
  ASSUME NEW m \in Messages, HasCompleteLine(m.rest)
  PROVE  ReadHeaderLine(m) \in Messages /\ ReadHeaderLine(m).rest = AfterLine(m.rest)
<1>1. LineText(m.rest) \in Seq(Symbols) /\ AfterLine(m.rest) \in Seq(Symbols)
  BY LineParts DEF Messages
<1> DEFINE text == LineText(m.rest)
           next == [m EXCEPT !.rest = AfterLine(m.rest)]
<1>2. next \in Messages /\ next.rest = AfterLine(m.rest) /\ next.header_lines = m.header_lines
      /\ next.is_close = m.is_close /\ next.is_chunked = m.is_chunked /\ next.body_length = m.body_length
  BY <1>1 DEF Messages
<1>3. CASE m.header_lines = <<>>
  <2>1. ReadHeaderLine(m) = [next EXCEPT !.header_lines = <<text>>]
    BY <1>3 DEF ReadHeaderLine
  <2>2. <<text>> \in Seq(Seq(Symbols))
    BY <1>1
  <2> HIDE DEF next, text
  <2> QED BY <1>2, <2>1, <2>2 DEF Messages
<1>4. CASE m.header_lines # <<>> /\ text = <<>>
  <2>1. ReadHeaderLine(m) = [next EXCEPT !.state = "Body"]
    BY <1>4 DEF ReadHeaderLine
  <2> HIDE DEF next, text
  <2> QED BY <1>2, <2>1 DEF Messages
<1>5. CASE m.header_lines # <<>> /\ text # <<>>
  <2>1. ReadHeaderLine(m) = [next EXCEPT !.is_close      = @ \/ text = <<"close">>,
                                         !.is_chunked    = @ \/ text = <<"chunked">>,
                                         !.body_length   = IF text = <<"length">> THEN BodyLength ELSE @]
    BY <1>5 DEF ReadHeaderLine
  <2> DEFINE cl == next.is_close \/ text = <<"close">>
             ch == next.is_chunked \/ text = <<"chunked">>
             bl == IF text = <<"length">> THEN BodyLength ELSE next.body_length
  <2>2. cl \in BOOLEAN /\ ch \in BOOLEAN
    OBVIOUS
  <2>3. bl \in Nat
    BY <1>2 DEF Messages, BodyLength
  <2>4. ReadHeaderLine(m) = [next EXCEPT !.is_close = cl, !.is_chunked = ch, !.body_length = bl]
    BY <2>1
  <2> HIDE DEF next, text, cl, ch, bl
  <2> QED BY <1>2, <2>2, <2>3, <2>4 DEF Messages
<1> QED BY <1>3, <1>4, <1>5

(* A round that reads the line with a chunk's length takes the line and its *)
(* end.                                                                     *)
LEMMA ChunkLengthRound ==
  ASSUME NEW m \in Messages, HasCompleteLine(m.rest)
  PROVE  ReadChunkLength(m) \in Messages /\ ReadChunkLength(m).rest = AfterLine(m.rest)
<1>1. AfterLine(m.rest) \in Seq(Symbols)
  BY LineParts DEF Messages
<1>2. GetChunkLength(LineText(m.rest)) \in Nat
  BY DEF GetChunkLength, BodyLength
<1> QED BY <1>1, <1>2 DEF ReadChunkLength, Messages

(* A round that takes a chunk makes the rest shorter.                       *)
LEMMA ChunkRound ==
  ASSUME NEW m \in Messages, m.chunk_length > 0, m.chunk_length + 2 <= Len(m.rest)
  PROVE  TakeChunk(m) \in Messages /\ Len(TakeChunk(m).rest) < Len(m.rest) /\ TakeChunk(m).state = m.state
<1> DEFINE r     == m.rest
           k     == m.chunk_length
           after == SubSeq(r, k + 1, Len(r))
           left  == IF SubSeq(after, 1, 2) = Eol THEN SubSeq(after, 3, Len(after)) ELSE after
           head  == SubSeq(r, 1, k)
<1>1. r \in Seq(Symbols) /\ Len(r) \in Nat /\ k \in Nat /\ k > 0 /\ k + 2 <= Len(r) /\ m.body \in Seq(Symbols)
  BY DEF Messages
<1>2. after \in Seq(Symbols) /\ Len(after) = Len(r) - k
  BY <1>1, PartOfText
<1>3. head \in Seq(Symbols)
  BY <1>1, PartOfText
<1>4. m.body \o head \in Seq(Symbols)
  BY <1>1, <1>3
<1>5. SubSeq(after, 3, Len(after)) \in Seq(Symbols) /\ Len(SubSeq(after, 3, Len(after))) <= Len(after)
  <2>1. after \in Seq(Symbols) /\ Len(after) \in Nat /\ Len(after) >= 2
    BY <1>1, <1>2
  <2> HIDE DEF after
  <2>2. 3 \in 1 .. Len(after) + 1 /\ Len(after) \in 0 .. Len(after)
    BY <2>1
  <2>3. Len(SubSeq(after, 3, Len(after))) = IF 3 <= Len(after) THEN Len(after) - 3 + 1 ELSE 0
    BY <2>1, <2>2, PartOfText
  <2>4. SubSeq(after, 3, Len(after)) \in Seq(Symbols)
    BY <2>1, <2>2, PartOfText
  <2> QED BY <2>1, <2>3, <2>4
<1>6. left \in Seq(Symbols) /\ Len(left) < Len(r)
  <2> HIDE DEF r, k, after
  <2>1. Len(after) < Len(r) /\ Len(after) \in Nat
    BY <1>1, <1>2
  <2>2. Len(SubSeq(after, 3, Len(after))) \in Nat
    BY <1>5
  <2>3. CASE SubSeq(after, 1, 2) = Eol
    BY <1>1, <1>5, <2>1, <2>2, <2>3
  <2>4. CASE SubSeq(after, 1, 2) # Eol
    BY <1>2, <2>1, <2>4
  <2> QED BY <2>3, <2>4
<1> DEFINE b == m.body \o head
<1>7. TakeChunk(m) = [m EXCEPT !.body = b, !.rest = left, !.chunk_length = 0]
  BY DEF TakeChunk
<1>10. b \in Seq(Symbols)
  BY <1>4
<1> HIDE DEF r, k, after, left, head, b
<1>8. TakeChunk(m) \in Messages
  <2>1. TakeChunk(m) = [rest |-> left, header_lines |-> m.header_lines, body_length |-> m.body_length,
                        body |-> b, chunk_length |-> 0, is_chunked |-> m.is_chunked,
                        is_close |-> m.is_close, state |-> m.state]
    BY <1>7 DEF Messages
  <2> QED BY <1>6, <1>10, <2>1 DEF Messages
<1>9. TakeChunk(m).rest = left /\ TakeChunk(m).state = m.state
  BY <1>7 DEF Messages
<1> QED BY <1>6, <1>8, <1>9 DEF r

(* A round keeps a message well formed and makes it smaller: less is left   *)
(* to parse, or the header is over.                                         *)
LEMMA RoundType ==
  ASSUME NEW m \in Messages, ~Stops(m)
  PROVE  Round(m) \in Messages /\ Size(Round(m)) < Size(m) /\ Size(m) \in Nat
<1>1. m.state \in {"Header", "Body", "End"} /\ m.rest \in Seq(Symbols) /\ Len(m.rest) \in Nat /\ m.chunk_length \in Nat
  BY DEF Messages
<1>2. Size(m) \in Nat
  <2>1. CASE m.state = "Header"
    BY <1>1, <2>1 DEF Size
  <2>2. CASE m.state # "Header"
    BY <1>1, <2>2 DEF Size
  <2> QED BY <2>1, <2>2
<1>3. CASE m.state = "Header" /\ HasCompleteLine(m.rest)
  <2>1. Round(m) = ReadHeaderLine(m)
    BY <1>3 DEF Round
  <2>2. Round(m) \in Messages /\ Round(m).rest = AfterLine(m.rest)
    BY <1>3, <2>1, HeaderRound
  <2>3. Len(AfterLine(m.rest)) < Len(m.rest) /\ Len(AfterLine(m.rest)) \in Nat
    BY <1>1, <1>3, LineParts
  <2> QED BY <1>1, <1>2, <1>3, <2>2, <2>3 DEF Size
<1>4. CASE m.state = "Header" /\ ~HasCompleteLine(m.rest)
  <2>1. Round(m) = [m EXCEPT !.state = "Body"]
    BY <1>4 DEF Round
  <2>2. Round(m) \in Messages /\ Round(m).rest = m.rest /\ Round(m).state = "Body"
    BY <2>1 DEF Messages
  <2> QED BY <1>1, <1>2, <1>4, <2>2 DEF Size
<1>5. CASE m.state = "Body" /\ m.chunk_length = 0
  <2>1. HasCompleteLine(m.rest) /\ Round(m) = ReadChunkLength(m)
    BY <1>5 DEF Round, Stops
  <2>2. Round(m) \in Messages /\ Round(m).rest = AfterLine(m.rest)
    BY <2>1, ChunkLengthRound
  <2>3. Len(AfterLine(m.rest)) < Len(m.rest) /\ Len(AfterLine(m.rest)) \in Nat
    BY <1>1, <2>1, LineParts
  <2>4. Round(m).state # "Header"
    BY <1>5, <2>1 DEF ReadChunkLength, Messages
  <2> QED BY <1>1, <1>2, <1>5, <2>2, <2>3, <2>4 DEF Size
<1>6. CASE m.state = "Body" /\ m.chunk_length # 0
  <2>1. m.chunk_length > 0 /\ m.chunk_length + 2 <= Len(m.rest) /\ Round(m) = TakeChunk(m)
    BY <1>1, <1>6 DEF Round, Stops
  <2>2. Round(m) \in Messages /\ Len(Round(m).rest) < Len(m.rest) /\ Round(m).state = "Body"
    BY <1>6, <2>1, ChunkRound
  <2>3. Len(Round(m).rest) \in Nat
    BY <2>2 DEF Messages
  <2> QED BY <1>1, <1>2, <1>6, <2>2, <2>3 DEF Size
<1> QED BY <1>1, <1>3, <1>4, <1>5, <1>6 DEF Stops

(* So does the last round, which takes what there is of the body.           *)
LEMMA ReturnedType ==
  ASSUME NEW m \in Messages
  PROVE  Returned(m) \in Messages
<1> DEFINE len == IF m.body_length = 0 THEN Len(m.rest) ELSE m.body_length
<1>1. len \in Nat /\ m.rest \in Seq(Symbols) /\ Len(m.rest) \in Nat /\ m.body \in Seq(Symbols)
  BY DEF Messages
<1>2. len <= Len(m.rest) => /\ m.body \o SubSeq(m.rest, 1, len) \in Seq(Symbols)
                            /\ SubSeq(m.rest, len + 1, Len(m.rest)) \in Seq(Symbols)
  <2> SUFFICES ASSUME len <= Len(m.rest)
               PROVE  /\ m.body \o SubSeq(m.rest, 1, len) \in Seq(Symbols)
                      /\ SubSeq(m.rest, len + 1, Len(m.rest)) \in Seq(Symbols)
    OBVIOUS
  <2> HIDE DEF len
  <2>1. SubSeq(m.rest, 1, len) \in Seq(Symbols) /\ SubSeq(m.rest, len + 1, Len(m.rest)) \in Seq(Symbols)
    BY <1>1, PartOfText
  <2> QED BY <1>1, <2>1
<1>3. ReadPlainBody(m) \in Messages
  <2>1. ReadPlainBody(m) = IF len > 0 /\ len <= Len(m.rest)
          THEN [[m EXCEPT !.body_length = len] EXCEPT !.body  = @ \o SubSeq(m.rest, 1, len),
                       !.rest  = SubSeq(m.rest, len + 1, Len(m.rest)),
                       !.state = "End"]
          ELSE [m EXCEPT !.body_length = len]
    BY DEF ReadPlainBody
  <2> HIDE DEF len
  <2> QED BY <1>1, <1>2, <2>1 DEF Messages
<1> QED BY <1>3 DEF Returned

-----------------------------------------------------------------------------
(* UpdateMessage is that loop.                                             *)
LEMMA UpdateLoop ==
  ASSUME NEW m \in Messages
  PROVE  UpdateMessage[m] = IF Stops(m) THEN Returned(m) ELSE UpdateMessage[Round(m)]
<1> DEFINE Body(f) == [x \in Messages |-> IF Stops(x) THEN Returned(x) ELSE f[Round(x)]]
<1>1. UpdateMessage = CHOOSE f : f = Body(f)
  BY DEF UpdateMessage
<1>2. \E f : f = Body(f)
  <2> DEFINE D == {x \in Messages : Stops(x)}
             R == [x \in D |-> Returned(x)]
             F == [x \in Messages |-> Round(x)]
  <2>1. Closed(Messages, D, F, R)
    BY ReturnedType, RoundType DEF Closed
  <2>2. PICK f : Computes(f, Messages, D, F, R)
    BY <2>1, LoopDefined
  <2>3. f = Body(f)
    BY <2>2 DEF Computes
  <2> HIDE DEF D, R, F, Body
  <2> QED BY <2>3
<1> HIDE DEF Body
<1>3. UpdateMessage = Body(UpdateMessage)
  BY <1>1, <1>2
<1> QED BY <1>3 DEF Body

(* It makes messages of messages.                                          *)
THEOREM UpdateType == \A m \in Messages : UpdateMessage[m] \in Messages
<1> DEFINE D == {m \in Messages : Stops(m)}
           F == [m \in Messages |-> Round(m)]
           v == [m \in Messages |-> Size(m)]
           P == {m \in Messages : UpdateMessage[m] \in Messages}
<1>1. v \in [Messages -> Nat]
  <2> SUFFICES ASSUME NEW m \in Messages PROVE Size(m) \in Nat
    OBVIOUS
  <2>1. Len(m.rest) \in Nat
    BY DEF Messages
  <2>2. CASE m.state = "Header"
    BY <2>1, <2>2 DEF Size
  <2>3. CASE m.state # "Header"
    BY <2>1, <2>3 DEF Size
  <2> QED BY <2>2, <2>3
<1>2. \A m \in Messages \ D : F[m] \in Messages /\ v[F[m]] < v[m]
  BY RoundType
<1>3. Decreases(Messages, D, F, v)
  BY <1>1, <1>2 DEF Decreases
<1>4. HoldsBackwards(Messages, D, F, P)
  BY <1>2, UpdateLoop, ReturnedType DEF HoldsBackwards
<1> HIDE DEF D, F, v, P
<1>5. \A m \in Messages : m \in P
  BY <1>3, <1>4, LoopInduction
<1> QED BY <1>5 DEF P

(* PrepareTask makes a message of a message and data.                      *)
LEMMA PreparedType ==
  ASSUME NEW m \in Messages, NEW data \in Seq(Symbols)
  PROVE  Prepared(m, data) \in Messages
<1>1. m.rest \o data \in Seq(Symbols)
  BY DEF Messages
<1>2. [m EXCEPT !.rest = @ \o data] \in Messages
  BY <1>1 DEF Messages
<1> DEFINE u == UpdateMessage[[m EXCEPT !.rest = @ \o data]]
<1>3. u \in Messages
  BY <1>2, UpdateType
<1>4. Prepared(m, data) = IF u.state = "Body" /\ u.body_length <= 0
      THEN [u EXCEPT !.state = "End"] ELSE u
  BY DEF Prepared
<1> HIDE DEF u
<1> QED BY <1>3, <1>4 DEF Messages

-----------------------------------------------------------------------------
(* The requests, symbol by symbol.                                         *)
LEMMA KindsAre == Kinds = {"get", "closing", "post", "chunked"}
BY DEF Kinds, Request

(* The requests are texts.                                                  *)
LEMMA TextType ==
  ASSUME NEW kind \in Kinds
  PROVE  Request[kind] \in Seq(Symbols) /\ Len(Request[kind]) \in Nat
<1>1. Request["get"] \in Seq(Symbols)
  BY DEF Request, Symbols
<1>2. Request["closing"] \in Seq(Symbols)
  BY DEF Request, Symbols
<1>3. Request["post"] \in Seq(Symbols)
  BY DEF Request, Symbols
<1>4. Request["chunked"] \in Seq(Symbols)
  BY DEF Request, Symbols
<1> QED BY <1>1, <1>2, <1>3, <1>4, KindsAre

(* A request with no field and no body.                                     *)
LEMMA GetText ==
  /\ Len(Request["get"]) = 5
  /\ Request["get"][1] = "known"
  /\ Request["get"][2] = "cr" /\ Request["get"][3] = "lf"
  /\ Request["get"][4] = "cr" /\ Request["get"][5] = "lf"
BY DEF Request

(* A request that asks for the connection to be closed.                     *)
LEMMA ClosingText ==
  /\ Len(Request["closing"]) = 8
  /\ Request["closing"][1] = "known" /\ Request["closing"][2] = "cr" /\ Request["closing"][3] = "lf"
  /\ Request["closing"][4] = "close" /\ Request["closing"][5] = "cr" /\ Request["closing"][6] = "lf"
  /\ Request["closing"][7] = "cr" /\ Request["closing"][8] = "lf"
BY DEF Request

(* A request with the length of its body.                                   *)
LEMMA PostText ==
  /\ Len(Request["post"]) = 10
  /\ Request["post"][1] = "known" /\ Request["post"][2] = "cr" /\ Request["post"][3] = "lf"
  /\ Request["post"][4] = "length" /\ Request["post"][5] = "cr" /\ Request["post"][6] = "lf"
  /\ Request["post"][7] = "cr" /\ Request["post"][8] = "lf"
  /\ Request["post"][9] = "d1" /\ Request["post"][10] = "d2"
BY DEF Request

(* A request whose body comes in chunks.                                    *)
LEMMA ChunkedText ==
  /\ Len(Request["chunked"]) = 20
  /\ Request["chunked"][1] = "known" /\ Request["chunked"][2] = "cr" /\ Request["chunked"][3] = "lf"
  /\ Request["chunked"][4] = "chunked" /\ Request["chunked"][5] = "cr" /\ Request["chunked"][6] = "lf"
  /\ Request["chunked"][7] = "cr" /\ Request["chunked"][8] = "lf"
  /\ Request["chunked"][9] = "size" /\ Request["chunked"][10] = "cr" /\ Request["chunked"][11] = "lf"
  /\ Request["chunked"][12] = "d1" /\ Request["chunked"][13] = "d2"
  /\ Request["chunked"][14] = "cr" /\ Request["chunked"][15] = "lf"
  /\ Request["chunked"][16] = "zero" /\ Request["chunked"][17] = "cr" /\ Request["chunked"][18] = "lf"
  /\ Request["chunked"][19] = "cr" /\ Request["chunked"][20] = "lf"
BY DEF Request

(* A line that starts a text.                                              *)
LEMMA LineAt ==
  ASSUME NEW s \in Seq(Symbols), NEW n \in Nat, n + 2 <= Len(s),
         s[n + 1] = "cr", s[n + 2] = "lf", \A i \in 1 .. n : s[i] # "cr"
  PROVE  /\ HasCompleteLine(s) /\ LineText(s) = SubSeq(s, 1, n)
         /\ AfterLine(s) = SubSeq(s, n + 3, Len(s))
<1>1. Len(s) \in Nat
  OBVIOUS
<1>2. n + 1 \in LineEnds(s) /\ \A i \in LineEnds(s) : n + 1 <= i
  BY <1>1 DEF LineEnds
<1>3. HasCompleteLine(s)
  BY <1>2 DEF HasCompleteLine
<1>4. LineLength(s) = n
  <2>1. LineLength(s) \in Nat /\ LineLength(s) + 2 <= Len(s)
         /\ s[LineLength(s) + 1] = "cr" /\ s[LineLength(s) + 2] = "lf"
         /\ \A i \in 1 .. LineLength(s) : ~(s[i] = "cr" /\ s[i + 1] = "lf")
    BY <1>3, FirstLineEnd
  <2>2. LineLength(s) >= n
    BY <2>1
  <2>3. LineLength(s) <= n
    BY <2>1
  <2> QED BY <2>1, <2>2, <2>3
<1> QED BY <1>3, <1>4 DEF LineText, AfterLine

(* The end of a header.                                                    *)
LEMMA TwoEnds ==
  ASSUME NEW kind \in Kinds, NEW n \in DOMAIN Request[kind]
  PROVE  EndsHeader(kind, n) <=>
           /\ n >= 4 /\ Request[kind][n - 3] = "cr" /\ Request[kind][n - 2] = "lf"
           /\ Request[kind][n - 1] = "cr" /\ Request[kind][n] = "lf"
<1> DEFINE s == Request[kind]
           t == SubSeq(s, n - 3, n)
<1>1. s \in Seq(Symbols) /\ n \in 1 .. Len(s) /\ Len(s) \in Nat
  BY TextType
<1> HIDE DEF s
<1>2. EndsHeader(kind, n) <=> n >= 4 /\ t = <<"cr", "lf", "cr", "lf">>
  BY DEF EndsHeader, s
<1>3. CASE n >= 4
  <2>1. t \in Seq(Symbols) /\ Len(t) = 4
    BY <1>1, <1>3, PartOfText
  <2>4. \A i \in 1 .. 4 : t[i] = s[(n - 3) + i - 1]
    BY <1>1, <1>3, SMTT(30)
  <2>2. t[1] = s[n - 3] /\ t[2] = s[n - 2] /\ t[3] = s[n - 1] /\ t[4] = s[n]
    <3>1. (n - 3) + 1 - 1 = n - 3 /\ (n - 3) + 2 - 1 = n - 2 /\ (n - 3) + 3 - 1 = n - 1 /\ (n - 3) + 4 - 1 = n
      BY <1>1
    <3>2. 1 \in 1 .. 4 /\ 2 \in 1 .. 4 /\ 3 \in 1 .. 4 /\ 4 \in 1 .. 4
      OBVIOUS
    <3> HIDE DEF t
    <3> QED BY <2>4, <3>1, <3>2
  <2> HIDE DEF t
  <2>3. t = <<"cr", "lf", "cr", "lf">> <=> t[1] = "cr" /\ t[2] = "lf" /\ t[3] = "cr" /\ t[4] = "lf"
    BY <2>1
  <2> QED BY <1>2, <1>3, <2>2, <2>3 DEF s
<1> QED BY <1>2, <1>3

-----------------------------------------------------------------------------
(* The first place where a header ends is its length.                      *)
LEMMA HeaderLengthIs ==
  ASSUME NEW kind \in Kinds, NEW h \in DOMAIN Request[kind],
         EndsHeader(kind, h), \A k \in 1 .. h - 1 : ~EndsHeader(kind, k)
  PROVE  HeaderLength(kind) = h
<1> DEFINE P(n) == EndsHeader(kind, n) /\ \A k \in 1 .. n - 1 : ~EndsHeader(kind, k)
           c == CHOOSE n \in DOMAIN Request[kind] : P(n)
<1>1. c \in DOMAIN Request[kind] /\ P(c)
  OBVIOUS
<1>2. HeaderLength(kind) = c
  BY DEF HeaderLength
<1> HIDE DEF c
<1>3. DOMAIN Request[kind] \subseteq Nat /\ \A n \in DOMAIN Request[kind] : n >= 1
  BY TextType
<1>4. c \in Nat /\ h \in Nat /\ c >= 1 /\ h >= 1
  BY <1>1, <1>3
<1>5. ~(c < h) /\ ~(h < c)
  BY <1>1, <1>4
<1> QED BY <1>2, <1>4, <1>5

(* The lengths of requests and headers.                                    *)
HeaderEnd == [get |-> 5, closing |-> 8, post |-> 8, chunked |-> 8]
TextEnd   == [get |-> 5, closing |-> 8, post |-> 10, chunked |-> 20]

(* The lengths of the requests and of their headers.                        *)
LEMMA Lengths ==
  ASSUME NEW kind \in Kinds
  PROVE  /\ Len(Request[kind]) = TextEnd[kind]
         /\ HeaderLength(kind) = HeaderEnd[kind]
<1> USE DEF HeaderEnd, TextEnd
<1>1. CASE kind = "get"
  <2>1. DOMAIN Request["get"] = 1 .. 5
    BY <1>1, TextType, GetText
  <2>2. EndsHeader("get", 5) /\ \A k \in 1 .. 5 - 1 : ~EndsHeader("get", k)
    BY <1>1, <2>1, TwoEnds, GetText
  <2> QED BY <1>1, <2>1, <2>2, HeaderLengthIs, GetText
<1>2. CASE kind = "closing"
  <2>1. DOMAIN Request["closing"] = 1 .. 8
    BY <1>2, TextType, ClosingText
  <2>2. EndsHeader("closing", 8) /\ \A k \in 1 .. 8 - 1 : ~EndsHeader("closing", k)
    BY <1>2, <2>1, TwoEnds, ClosingText
  <2> QED BY <1>2, <2>1, <2>2, HeaderLengthIs, ClosingText
<1>3. CASE kind = "post"
  <2>1. DOMAIN Request["post"] = 1 .. 10
    BY <1>3, TextType, PostText, SMTT(30)
  <2>2. EndsHeader("post", 8) /\ \A k \in 1 .. 8 - 1 : ~EndsHeader("post", k)
    BY <1>3, <2>1, TwoEnds, PostText
  <2> QED BY <1>3, <2>1, <2>2, HeaderLengthIs, PostText
<1>4. CASE kind = "chunked"
  <2>0. Len(Request["chunked"]) = 20
    BY ChunkedText
  <2>1. DOMAIN Request["chunked"] = 1 .. 20
    BY <1>4, <2>0, TextType
  <2>2. EndsHeader("chunked", 8) /\ \A k \in 1 .. 8 - 1 : ~EndsHeader("chunked", k)
    BY <1>4, <2>1, TwoEnds, ChunkedText
  <2> QED BY <1>4, <2>1, <2>2, HeaderLengthIs, ChunkedText
<1> QED BY <1>1, <1>2, <1>3, <1>4, KindsAre

(* Where reads that do no harm may leave a request that is not complete.   *)
Cuts == [get |-> {0, 3}, closing |-> {0, 3, 6}, post |-> {0, 3, 6, 8, 9},
         chunked |-> {0, 3, 6}]

(* The cuts that do no harm are those listed, and the end of the request.   *)
LEMMA CleanCuts ==
  ASSUME NEW kind \in Kinds, NEW n \in 1 .. Len(Request[kind]), IsCleanCut(kind, n)
  PROVE  n = Len(Request[kind]) \/ n \in Cuts[kind]
<1>1. \/ n = TextEnd[kind]
      \/ n < HeaderEnd[kind] /\ Request[kind][n] = "lf"
      \/ n >= HeaderEnd[kind] /\ kind # "chunked"
  BY Lengths DEF IsCleanCut
<1>2. n \in 1 .. TextEnd[kind]
  BY Lengths
<1> USE DEF HeaderEnd, TextEnd, Cuts
<1>3. CASE kind = "get"
  BY <1>1, <1>2, <1>3, GetText, Lengths
<1>4. CASE kind = "closing"
  BY <1>1, <1>2, <1>4, ClosingText, Lengths, SMTT(30)
<1>5. CASE kind = "post"
  BY <1>1, <1>2, <1>5, PostText, Lengths, SMTT(30)
<1>6. CASE kind = "chunked"
  <2>1. /\ Request["chunked"][1] # "lf" /\ Request["chunked"][2] # "lf" /\ Request["chunked"][4] # "lf"
        /\ Request["chunked"][5] # "lf" /\ Request["chunked"][7] # "lf"
    BY ChunkedText
  <2> QED BY <1>1, <1>2, <1>6, <2>1, Lengths, SMTT(30)
<1> QED BY <1>3, <1>4, <1>5, <1>6, KindsAre

(* Parts of parts.                                                         *)
LEMMA PartOfPart ==
  ASSUME NEW s \in Seq(Symbols), NEW q \in Nat, NEW p \in Nat, NEW j \in Nat,
         q + j <= p, p <= Len(s)
  PROVE  SubSeq(SubSeq(s, q + 1, p), j + 1, p - q) = SubSeq(s, q + j + 1, p)
<1>1. Len(s) \in Nat
  OBVIOUS
<1> DEFINE r == SubSeq(s, q + 1, p)
           a == SubSeq(r, j + 1, p - q)
           b == SubSeq(s, q + j + 1, p)
<1>2. r \in Seq(Symbols) /\ Len(r) = p - q /\ \A i \in 1 .. p - q : r[i] = s[q + i]
  BY <1>1
<1>3. b \in Seq(Symbols) /\ Len(b) = p - q - j /\ \A i \in 1 .. p - q - j : b[i] = s[q + j + i]
  BY <1>1
<1> HIDE DEF r, b
<1>4. a \in Seq(Symbols) /\ Len(a) = p - q - j /\ \A i \in 1 .. p - q - j : a[i] = r[j + i]
  BY <1>2
<1> HIDE DEF a
<1>5. ASSUME NEW i \in 1 .. p - q - j PROVE a[i] = b[i]
  <2>1. j + i \in 1 .. p - q /\ q + (j + i) = q + j + i
    BY <1>1
  <2>2. r[j + i] = s[q + (j + i)]
    BY <1>2, <2>1
  <2> QED BY <1>3, <1>4, <2>1, <2>2
<1>6. a = b
  BY <1>3, <1>4, <1>5
<1> QED BY <1>6 DEF a, b, r

(* The line that comes next in what is left of a request: one symbol or    *)
(* none.                                                                   *)
LEMMA NextLine ==
  ASSUME NEW s \in Seq(Symbols), NEW q \in Nat, NEW p \in Nat, NEW n \in {0, 1},
         q + n + 2 <= p, p <= Len(s), s[q + n + 1] = "cr", s[q + n + 2] = "lf",
         n = 1 => s[q + 1] # "cr"
  PROVE  LET r == SubSeq(s, q + 1, p)
         IN  /\ r \in Seq(Symbols) /\ r # <<>> /\ HasCompleteLine(r)
             /\ LineText(r) = IF n = 0 THEN <<>> ELSE <<s[q + 1]>>
             /\ AfterLine(r) = SubSeq(s, q + n + 3, p)
<1>1. Len(s) \in Nat
  OBVIOUS
<1> DEFINE r == SubSeq(s, q + 1, p)
<1>2. r \in Seq(Symbols) /\ Len(r) = p - q /\ \A i \in 1 .. p - q : r[i] = s[q + i]
  BY <1>1
<1>3. SubSeq(r, n + 3, p - q) = SubSeq(s, q + n + 3, p)
  BY <1>1, PartOfPart, q + (n + 2) + 1 = q + n + 3, (n + 2) + 1 = n + 3
<1> HIDE DEF r
<1>4. r[n + 1] = "cr" /\ r[n + 2] = "lf" /\ \A i \in 1 .. n : r[i] # "cr"
  BY <1>2, SMTT(30)
<1>5. /\ HasCompleteLine(r) /\ LineText(r) = SubSeq(r, 1, n)
      /\ AfterLine(r) = SubSeq(r, n + 3, Len(r))
  <2>1. n \in Nat /\ n + 2 <= Len(r)
    BY <1>2
  <2> QED BY <1>2, <1>4, <2>1, LineAt
<1>6. n = 0 => SubSeq(r, 1, n) = <<>>
  BY <1>2
<1>7. n = 1 => SubSeq(r, 1, n) = <<s[q + 1]>>
  <2> SUFFICES ASSUME n = 1 PROVE SubSeq(r, 1, 1) = <<s[q + 1]>>
    OBVIOUS
  <2>1. r[1] = s[q + 1]
    BY <1>2
  <2> DEFINE t == SubSeq(r, 1, 1)
  <2>2. t \in Seq(Symbols) /\ Len(t) = 1 /\ t[1] = r[1]
    BY <1>2
  <2> HIDE DEF t
  <2>3. t = <<s[q + 1]>>
    BY <2>1, <2>2
  <2> QED BY <2>3 DEF t
<1>8. r # <<>>
  BY <1>2
<1> QED BY <1>2, <1>3, <1>5, <1>6, <1>7, <1>8 DEF r

-----------------------------------------------------------------------------
(* What was received of a request, up to its symbol p, after its symbol q. *)
Left(kind, q, p) == SubSeq(Request[kind], q + 1, p)

(* A request of which q symbols were consumed and p received.              *)
LinesAt(q)          == IF q = 0 THEN <<>> ELSE << <<"known">> >>
LengthAt(kind, q)   == IF kind = "post" /\ q >= 6 THEN 2 ELSE 0
BodyAt(kind, q)     == IF kind = "chunked" /\ q >= 15 THEN <<"d1", "d2">> ELSE <<>>
ChunkAt(kind, q)    == IF kind = "chunked" /\ q = 11 THEN 2 ELSE 0
IsChunkedAt(kind, q) == kind = "chunked" /\ q >= 6
IsCloseAt(kind, q)  == kind = "closing" /\ q >= 6
StateAt(kind, q)    == IF q < HeaderEnd[kind] THEN "Header"
                       ELSE IF kind = "chunked" /\ q = 18 THEN "End" ELSE "Body"

Reading(kind, q, p) ==
  [rest         |-> Left(kind, q, p),
   header_lines |-> LinesAt(q),
   body_length  |-> LengthAt(kind, q),
   body         |-> BodyAt(kind, q),
   chunk_length |-> ChunkAt(kind, q),
   is_chunked   |-> IsChunkedAt(kind, q),
   is_close     |-> IsCloseAt(kind, q),
   state        |-> StateAt(kind, q)]

(* A message at this place is well formed.                                  *)
LEMMA ReadingType ==
  ASSUME NEW kind \in Kinds, NEW q \in Nat, NEW p \in Nat, q <= p, p <= Len(Request[kind])
  PROVE  Reading(kind, q, p) \in Messages
<1>1. Request[kind] \in Seq(Symbols) /\ Len(Request[kind]) \in Nat
  BY TextType
<1>2. Left(kind, q, p) \in Seq(Symbols)
  BY <1>1, PartOfText DEF Left
<1>3. LinesAt(q) \in Seq(Seq(Symbols))
  <2>1. <<"known">> \in Seq(Symbols)
    BY DEF Symbols
  <2>2. << <<"known">> >> \in Seq(Seq(Symbols))
    BY <2>1
  <2> QED BY <2>2 DEF LinesAt
<1>4. LengthAt(kind, q) \in Nat /\ ChunkAt(kind, q) \in Nat
  BY DEF LengthAt, ChunkAt
<1>5. BodyAt(kind, q) \in Seq(Symbols)
  <2>1. <<"d1", "d2">> \in Seq(Symbols)
    BY DEF Symbols
  <2> QED BY <2>1 DEF BodyAt
<1>6. IsChunkedAt(kind, q) \in BOOLEAN /\ IsCloseAt(kind, q) \in BOOLEAN
  BY DEF IsChunkedAt, IsCloseAt
<1>7. StateAt(kind, q) \in {"Header", "Body", "End"}
  BY DEF StateAt
<1> QED BY <1>2, <1>3, <1>4, <1>5, <1>6, <1>7 DEF Messages, Reading

(* Messages, field by field.                                               *)
LEMMA SameMessage ==
  ASSUME NEW m \in Messages, NEW n \in Messages,
         m.rest = n.rest, m.header_lines = n.header_lines,
         m.body_length = n.body_length, m.body = n.body,
         m.chunk_length = n.chunk_length, m.is_chunked = n.is_chunked,
         m.is_close = n.is_close, m.state = n.state
  PROVE  m = n
BY DEF Messages

(* Its fields.                                                              *)
LEMMA ReadingFields ==
  ASSUME NEW kind, NEW q, NEW p
  PROVE  /\ Reading(kind, q, p).rest = Left(kind, q, p)
         /\ Reading(kind, q, p).header_lines = LinesAt(q)
         /\ Reading(kind, q, p).body_length = LengthAt(kind, q)
         /\ Reading(kind, q, p).body = BodyAt(kind, q)
         /\ Reading(kind, q, p).chunk_length = ChunkAt(kind, q)
         /\ Reading(kind, q, p).is_chunked = IsChunkedAt(kind, q)
         /\ Reading(kind, q, p).is_close = IsCloseAt(kind, q)
         /\ Reading(kind, q, p).state = StateAt(kind, q)
BY DEF Reading

(* A round that is not the last.                                           *)
LEMMA GoesOn ==
  ASSUME NEW m \in Messages, ~Stops(m)
  PROVE  UpdateMessage[m] = UpdateMessage[Round(m)]
BY UpdateLoop

(* The round that reads the first line of a header.                         *)
LEMMA FirstRound ==
  ASSUME NEW m \in Messages, m.state = "Header", m.header_lines = <<>>, m.rest # <<>>, HasCompleteLine(m.rest)
  PROVE  UpdateMessage[m] = UpdateMessage[[m EXCEPT !.rest = AfterLine(m.rest), !.header_lines = <<LineText(m.rest)>>]]
<1>1. ~Stops(m)
  BY DEF Stops
<1>2. Round(m) = ReadHeaderLine(m)
  BY Zenon DEF Round
<1>3. ReadHeaderLine(m) = [[m EXCEPT !.rest = AfterLine(m.rest)] EXCEPT !.header_lines = <<LineText(m.rest)>>]
  BY DEF ReadHeaderLine
<1> QED BY <1>1, <1>2, <1>3, GoesOn

(* The round that reads the empty line behind a header.                     *)
LEMMA EmptyRound ==
  ASSUME NEW m \in Messages, m.state = "Header", m.header_lines # <<>>, m.rest # <<>>, HasCompleteLine(m.rest),
         LineText(m.rest) = <<>>
  PROVE  UpdateMessage[m] = UpdateMessage[[m EXCEPT !.rest = AfterLine(m.rest), !.state = "Body"]]
<1>1. ~Stops(m)
  BY DEF Stops
<1>2. Round(m) = ReadHeaderLine(m)
  BY Zenon DEF Round
<1>3. ReadHeaderLine(m) = [[m EXCEPT !.rest = AfterLine(m.rest)] EXCEPT !.state = "Body"]
  BY DEF ReadHeaderLine
<1> QED BY <1>1, <1>2, <1>3, GoesOn

(* The round that reads a field of a header.                                *)
LEMMA FieldRound ==
  ASSUME NEW m \in Messages, m.state = "Header", m.header_lines # <<>>, m.rest # <<>>, HasCompleteLine(m.rest),
         LineText(m.rest) # <<>>
  PROVE  UpdateMessage[m] = UpdateMessage[[m EXCEPT !.rest = AfterLine(m.rest),
                    !.is_close      = m.is_close \/ LineText(m.rest) = <<"close">>,
                    !.is_chunked    = m.is_chunked \/ LineText(m.rest) = <<"chunked">>,
                    !.body_length   = IF LineText(m.rest) = <<"length">> THEN 2 ELSE m.body_length]]
<1>1. ~Stops(m)
  BY DEF Stops
<1>2. Round(m) = ReadHeaderLine(m)
  BY Zenon DEF Round
<1> DEFINE next == [m EXCEPT !.rest = AfterLine(m.rest)]
<1>3. ReadHeaderLine(m) = [next EXCEPT
                    !.is_close      = @ \/ LineText(m.rest) = <<"close">>,
                    !.is_chunked    = @ \/ LineText(m.rest) = <<"chunked">>,
                    !.body_length   = IF LineText(m.rest) = <<"length">> THEN 2 ELSE @]
  BY DEF ReadHeaderLine, BodyLength
<1>4. next.is_close = m.is_close /\ next.is_chunked = m.is_chunked /\ next.body_length = m.body_length
  BY DEF Messages
<1>5. ReadHeaderLine(m) = [next EXCEPT
                    !.is_close      = m.is_close \/ LineText(m.rest) = <<"close">>,
                    !.is_chunked    = m.is_chunked \/ LineText(m.rest) = <<"chunked">>,
                    !.body_length   = IF LineText(m.rest) = <<"length">> THEN 2 ELSE m.body_length]
  BY <1>3, <1>4 DEF Messages
<1> QED BY <1>1, <1>2, <1>5, GoesOn

-----------------------------------------------------------------------------
(* The line that comes next in a request: of one symbol, or empty.         *)
LEMMA LineOfOne ==
  ASSUME NEW kind \in Kinds, NEW q \in Nat, NEW p \in Nat, NEW t,
         t = q + 3, t <= p, p <= Len(Request[kind]),
         Request[kind][q + 1] # "cr", Request[kind][q + 2] = "cr", Request[kind][q + 3] = "lf"
  PROVE  /\ Left(kind, q, p) # <<>> /\ HasCompleteLine(Left(kind, q, p))
         /\ LineText(Left(kind, q, p)) = <<Request[kind][q + 1]>>
         /\ AfterLine(Left(kind, q, p)) = Left(kind, t, p)
<1> DEFINE s == Request[kind]
<1>1. s \in Seq(Symbols)
  BY TextType
<1> HIDE DEF s
<1>2. 1 \in {0, 1} /\ q + 1 + 2 <= p /\ p <= Len(s) /\ s[q + 1 + 1] = "cr" /\ s[q + 1 + 2] = "lf" /\ s[q + 1] # "cr"
  <2>1. q + 1 + 1 = q + 2 /\ q + 1 + 2 = q + 3
    OBVIOUS
  <2> QED BY <2>1 DEF s
<1> DEFINE r == SubSeq(s, q + 1, p)
<1>3. /\ r # <<>> /\ HasCompleteLine(r)
      /\ LineText(r) = IF 1 = 0 THEN <<>> ELSE <<s[q + 1]>>
      /\ AfterLine(r) = SubSeq(s, q + 1 + 3, p)
  BY <1>1, <1>2, NextLine
<1>4. q + 1 + 3 = t + 1
  OBVIOUS
<1>5. r = Left(kind, q, p) /\ SubSeq(s, t + 1, p) = Left(kind, t, p)
  BY DEF Left, s
<1> HIDE DEF r
<1> QED BY <1>3, <1>4, <1>5 DEF s

(* An empty line at place q of a request.                                   *)
LEMMA LineOfNone ==
  ASSUME NEW kind \in Kinds, NEW q \in Nat, NEW p \in Nat, NEW t,
         t = q + 2, t <= p, p <= Len(Request[kind]),
         Request[kind][q + 1] = "cr", Request[kind][q + 2] = "lf"
  PROVE  /\ Left(kind, q, p) # <<>> /\ HasCompleteLine(Left(kind, q, p))
         /\ LineText(Left(kind, q, p)) = <<>>
         /\ AfterLine(Left(kind, q, p)) = Left(kind, t, p)
<1> DEFINE s == Request[kind]
<1>1. s \in Seq(Symbols)
  BY TextType
<1> HIDE DEF s
<1>2. 0 \in {0, 1} /\ q + 0 + 2 <= p /\ p <= Len(s) /\ s[q + 0 + 1] = "cr" /\ s[q + 0 + 2] = "lf"
  <2>1. q + 0 + 1 = q + 1 /\ q + 0 + 2 = q + 2
    OBVIOUS
  <2> QED BY <2>1 DEF s
<1> DEFINE r == SubSeq(s, q + 1, p)
<1>3. /\ r # <<>> /\ HasCompleteLine(r)
      /\ LineText(r) = IF 0 = 0 THEN <<>> ELSE <<s[q + 1]>>
      /\ AfterLine(r) = SubSeq(s, q + 0 + 3, p)
  BY <1>1, <1>2, NextLine, ZenonT(60)
<1>4. q + 0 + 3 = t + 1
  OBVIOUS
<1>5. r = Left(kind, q, p) /\ SubSeq(s, t + 1, p) = Left(kind, t, p)
  BY DEF Left, s
<1> HIDE DEF r
<1> QED BY <1>3, <1>4, <1>5 DEF s

(* The request line.                                                       *)
LEMMA KnownStep ==
  ASSUME NEW kind \in Kinds, NEW p \in Nat, 3 <= p, p <= Len(Request[kind])
  PROVE  UpdateMessage[Reading(kind, 0, p)] = UpdateMessage[Reading(kind, 3, p)]
<1> DEFINE m == Reading(kind, 0, p)
<1>0. 3 < HeaderEnd[kind] /\ 0 < HeaderEnd[kind]
  BY KindsAre DEF HeaderEnd
<1>1. Request[kind][0 + 1] = "known" /\ Request[kind][0 + 2] = "cr" /\ Request[kind][0 + 3] = "lf"
  <2>1. CASE kind = "get"
    BY <2>1, GetText
  <2>2. CASE kind = "closing"
    BY <2>2, ClosingText
  <2>3. CASE kind = "post"
    BY <2>3, PostText
  <2>4. CASE kind = "chunked"
    BY <2>4, ChunkedText
  <2> QED BY <2>1, <2>2, <2>3, <2>4, KindsAre
<1>4. /\ LinesAt(0) = <<>> /\ LinesAt(3) = << <<"known">> >>
      /\ LengthAt(kind, 0) = LengthAt(kind, 3) /\ BodyAt(kind, 0) = BodyAt(kind, 3)
      /\ ChunkAt(kind, 0) = ChunkAt(kind, 3) /\ IsChunkedAt(kind, 0) = IsChunkedAt(kind, 3)
      /\ IsCloseAt(kind, 0) = IsCloseAt(kind, 3)
      /\ StateAt(kind, 0) = "Header" /\ StateAt(kind, 3) = "Header"
  BY <1>0 DEF LinesAt, LengthAt, BodyAt, ChunkAt, IsChunkedAt, IsCloseAt, StateAt
<1>2. m \in Messages
  BY ReadingType
<1>3. m.state = "Header" /\ m.header_lines = <<>> /\ m.rest = Left(kind, 0, p)
  BY <1>4 DEF Reading
<1>5. /\ m.rest # <<>> /\ HasCompleteLine(m.rest)
      /\ LineText(m.rest) = <<"known">> /\ AfterLine(m.rest) = Left(kind, 3, p)
  <2> DEFINE r == Left(kind, 0, p)
  <2>1. 0 \in Nat /\ 3 = 0 + 3 /\ Request[kind][0 + 1] # "cr"
    BY <1>1
  <2>2. /\ r # <<>> /\ HasCompleteLine(r)
        /\ LineText(r) = <<Request[kind][0 + 1]>> /\ AfterLine(r) = Left(kind, 3, p)
    BY <1>1, <2>1, LineOfOne
  <2> HIDE DEF r, m
  <2>3. m.rest = r
    BY <1>3 DEF r
  <2> QED BY <1>1, <2>2, <2>3
<1>6. [m EXCEPT !.rest = Left(kind, 3, p), !.header_lines = << <<"known">> >>] = Reading(kind, 3, p)
  <2> DEFINE n == [m EXCEPT !.rest = Left(kind, 3, p), !.header_lines = << <<"known">> >>]
             k == Reading(kind, 3, p)
  <2>1. k \in Messages
    BY ReadingType
  <2>2. /\ m.body_length = k.body_length /\ m.body = k.body /\ m.chunk_length = k.chunk_length
        /\ m.is_chunked = k.is_chunked /\ m.is_close = k.is_close /\ m.state = k.state
        /\ k.header_lines = << <<"known">> >> /\ k.rest = Left(kind, 3, p)
    BY <1>4, ReadingFields
  <2> HIDE DEF m, k
  <2>3. n = k
    BY <1>2, <2>1, <2>2, SameMessage DEF Messages
  <2> QED BY <2>3 DEF k
<1> HIDE DEF m
<1>7. UpdateMessage[m] = UpdateMessage[[m EXCEPT !.rest = AfterLine(m.rest), !.header_lines = <<LineText(m.rest)>>]]
  BY <1>2, <1>3, <1>5, FirstRound
<1> QED BY <1>5, <1>6, <1>7 DEF m

(* A field.                                                                *)
LEMMA FieldStep ==
  ASSUME NEW kind \in Kinds, kind # "get", NEW p \in Nat, 6 <= p, p <= Len(Request[kind])
  PROVE  UpdateMessage[Reading(kind, 3, p)] = UpdateMessage[Reading(kind, 6, p)]
<1> DEFINE m == Reading(kind, 3, p)
<1>0. 3 < HeaderEnd[kind] /\ 6 < HeaderEnd[kind]
  BY KindsAre DEF HeaderEnd
<1>1. Request[kind][3 + 1] # "cr" /\ Request[kind][3 + 2] = "cr" /\ Request[kind][3 + 3] = "lf"
  <2>2. CASE kind = "closing"
    BY <2>2, ClosingText
  <2>3. CASE kind = "post"
    BY <2>3, PostText
  <2>4. CASE kind = "chunked"
    BY <2>4, ChunkedText
  <2> QED BY <2>2, <2>3, <2>4, KindsAre
<1>4. /\ LinesAt(3) = LinesAt(6) /\ LinesAt(3) # <<>>
      /\ LengthAt(kind, 3) = 0 /\ LengthAt(kind, 6) = (IF kind = "post" THEN 2 ELSE 0)
      /\ BodyAt(kind, 3) = BodyAt(kind, 6)
      /\ ChunkAt(kind, 3) = ChunkAt(kind, 6)
      /\ IsChunkedAt(kind, 3) = FALSE /\ IsChunkedAt(kind, 6) = (kind = "chunked")
      /\ IsCloseAt(kind, 3) = FALSE /\ IsCloseAt(kind, 6) = (kind = "closing")
      /\ StateAt(kind, 3) = "Header" /\ StateAt(kind, 6) = "Header"
  BY <1>0 DEF LinesAt, LengthAt, BodyAt, ChunkAt, IsChunkedAt, IsCloseAt, StateAt
<1>2. m \in Messages
  BY ReadingType
<1>3. m.state = "Header" /\ m.header_lines # <<>> /\ m.rest = Left(kind, 3, p)
      /\ m.is_close = FALSE /\ m.is_chunked = FALSE /\ m.body_length = 0
  BY <1>4 DEF Reading
<1>5. /\ m.rest # <<>> /\ HasCompleteLine(m.rest)
      /\ LineText(m.rest) = <<Request[kind][4]>> /\ AfterLine(m.rest) = Left(kind, 6, p)
  <2>1. 3 + 1 = 4 /\ 6 = 3 + 3
    OBVIOUS
  <2> HIDE DEF m
  <2> QED BY <1>1, <1>3, <2>1, LineOfOne
<1>6. [m EXCEPT !.rest = Left(kind, 6, p),
                    !.is_close      = m.is_close \/ LineText(m.rest) = <<"close">>,
                    !.is_chunked    = m.is_chunked \/ LineText(m.rest) = <<"chunked">>,
                    !.body_length   = IF LineText(m.rest) = <<"length">> THEN 2 ELSE m.body_length] = Reading(kind, 6, p)
  <2>0. Request[kind][4] = IF kind = "closing" THEN "close" ELSE IF kind = "post" THEN "length" ELSE "chunked"
    BY KindsAre, ClosingText, PostText, ChunkedText, ZenonT(60)
  <2>1. /\ (m.is_close \/ LineText(m.rest) = <<"close">>) <=> kind = "closing"
        /\ (m.is_chunked \/ LineText(m.rest) = <<"chunked">>) <=> kind = "chunked"
        /\ (IF LineText(m.rest) = <<"length">> THEN 2 ELSE m.body_length) = IF kind = "post" THEN 2 ELSE 0
    BY <1>3, <1>5, <2>0, KindsAre
  <2>2. [m EXCEPT !.rest = Left(kind, 6, p), !.is_close = kind = "closing",
                  !.is_chunked = kind = "chunked", !.body_length = IF kind = "post" THEN 2 ELSE 0]
        = Reading(kind, 6, p)
    <3> DEFINE cl == kind = "closing"
               ch == kind = "chunked"
               bl == IF kind = "post" THEN 2 ELSE 0
               n  == [m EXCEPT !.rest = Left(kind, 6, p), !.is_close = cl,
                               !.is_chunked = ch, !.body_length = bl]
               k  == Reading(kind, 6, p)
    <3>1. k \in Messages
      BY ReadingType
    <3>2. /\ m.header_lines = k.header_lines /\ m.body = k.body /\ m.chunk_length = k.chunk_length
          /\ k.is_chunked = ch /\ k.is_close = cl /\ m.state = k.state
          /\ k.body_length = bl /\ k.rest = Left(kind, 6, p)
      BY <1>4, ReadingFields
    <3> HIDE DEF m, k, cl, ch, bl
    <3>3. n = k
      BY <1>2, <3>1, <3>2, SameMessage DEF Messages
    <3> QED BY <3>3 DEF k, cl, ch, bl
  <2> HIDE DEF m
  <2> QED BY <2>1, <2>2
<1> HIDE DEF m
<1>7. UpdateMessage[m] = UpdateMessage[[m EXCEPT !.rest = AfterLine(m.rest),
                    !.is_close      = m.is_close \/ LineText(m.rest) = <<"close">>,
                    !.is_chunked    = m.is_chunked \/ LineText(m.rest) = <<"chunked">>,
                    !.body_length   = IF LineText(m.rest) = <<"length">> THEN 2 ELSE m.body_length]]
  <2>1. LineText(m.rest) # <<>>
    BY <1>5
  <2> QED BY <1>2, <1>3, <1>5, <2>1, FieldRound
<1> QED BY <1>5, <1>6, <1>7 DEF m

(* The empty line.                                                         *)
LEMMA EmptyStep ==
  ASSUME NEW kind \in Kinds, NEW q \in {3, 6}, q + 2 = HeaderEnd[kind],
         NEW p \in Nat, HeaderEnd[kind] <= p, p <= Len(Request[kind])
  PROVE  UpdateMessage[Reading(kind, q, p)] = UpdateMessage[Reading(kind, q + 2, p)]
<1> DEFINE m == Reading(kind, q, p)
           t == q + 2
<1>0. q = 3 <=> kind = "get"
  BY KindsAre DEF HeaderEnd
<1>1. Request[kind][q + 1] = "cr" /\ Request[kind][q + 2] = "lf"
  <2>1. CASE kind = "get"
    BY <1>0, <2>1, GetText
  <2>2. CASE kind # "get"
    <3>1. q + 1 = 7 /\ q + 2 = 8
      BY <1>0, <2>2
    <3>2. /\ Request["closing"][7] = "cr" /\ Request["closing"][8] = "lf"
          /\ Request["post"][7] = "cr" /\ Request["post"][8] = "lf"
          /\ Request["chunked"][7] = "cr" /\ Request["chunked"][8] = "lf"
      BY ClosingText, PostText, ChunkedText
    <3> QED BY <2>2, <3>1, <3>2, KindsAre
  <2> QED BY <2>1, <2>2
<1>2. m \in Messages
  BY ReadingType
<1>3. m.state = "Header" /\ m.header_lines # <<>> /\ m.rest = Left(kind, q, p)
  BY DEF Reading, StateAt, LinesAt
<1>5. /\ m.rest # <<>> /\ HasCompleteLine(m.rest)
      /\ LineText(m.rest) = <<>> /\ AfterLine(m.rest) = Left(kind, t, p)
  BY <1>1, <1>3, LineOfNone
<1>6. [m EXCEPT !.rest = Left(kind, t, p), !.state = "Body"] = Reading(kind, t, p)
  <2>1. /\ LinesAt(t) = LinesAt(q) /\ LengthAt(kind, t) = LengthAt(kind, q)
        /\ BodyAt(kind, t) = BodyAt(kind, q) /\ ChunkAt(kind, t) = ChunkAt(kind, q)
        /\ IsChunkedAt(kind, t) = IsChunkedAt(kind, q)
        /\ IsCloseAt(kind, t) = IsCloseAt(kind, q)
        /\ StateAt(kind, t) = "Body"
    BY <1>0 DEF LinesAt, LengthAt, BodyAt, ChunkAt, IsChunkedAt, IsCloseAt, StateAt
  <2> HIDE DEF t
  <2> DEFINE n == [m EXCEPT !.rest = Left(kind, t, p), !.state = "Body"]
             k == Reading(kind, t, p)
  <2>2. k \in Messages
    BY ReadingType DEF t
  <2>3. /\ m.body_length = k.body_length /\ m.body = k.body /\ m.chunk_length = k.chunk_length
        /\ m.is_chunked = k.is_chunked /\ m.is_close = k.is_close /\ k.state = "Body"
        /\ m.header_lines = k.header_lines /\ k.rest = Left(kind, t, p)
    BY <2>1, ReadingFields
  <2> HIDE DEF m, k
  <2>4. n = k
    BY <1>2, <2>2, <2>3, SameMessage DEF Messages
  <2> QED BY <2>4 DEF k
<1> HIDE DEF m
<1>7. UpdateMessage[m] = UpdateMessage[[m EXCEPT !.rest = AfterLine(m.rest), !.state = "Body"]]
  BY <1>2, <1>3, <1>5, EmptyRound
<1> QED BY <1>5, <1>6, <1>7 DEF m

-----------------------------------------------------------------------------
(* A chunk length, and a chunk.                                            *)
LEMMA ChunkLengthStep ==
  ASSUME NEW q \in {8, 15}
  PROVE  UpdateMessage[Reading("chunked", q, 20)] = UpdateMessage[Reading("chunked", q + 3, 20)]
<1> DEFINE m == Reading("chunked", q, 20)
           t == q + 3
           k == Reading("chunked", t, 20)
<1>0. "chunked" \in Kinds /\ Len(Request["chunked"]) = 20
  BY KindsAre, ChunkedText
<1>1. /\ Request["chunked"][q + 1] = (IF q = 8 THEN "size" ELSE "zero")
      /\ Request["chunked"][q + 2] = "cr" /\ Request["chunked"][q + 3] = "lf"
  <2>1. CASE q = 8
    BY <2>1, ChunkedText
  <2>2. CASE q = 15
    BY <2>2, ChunkedText
  <2> QED BY <2>1, <2>2
<1>2. m \in Messages /\ k \in Messages
  <2>1. q \in Nat /\ q <= 20 /\ t \in Nat /\ t <= 20 /\ 20 \in Nat /\ 20 <= Len(Request["chunked"])
    BY <1>0
  <2> HIDE DEF t
  <2> QED BY <1>0, <2>1, ReadingType
<1>3. /\ m.rest = Left("chunked", q, 20) /\ m.state = "Body" /\ m.is_chunked = TRUE /\ m.chunk_length = 0
      /\ m.header_lines = k.header_lines /\ m.body_length = k.body_length /\ m.body = k.body
      /\ m.is_chunked = k.is_chunked /\ m.is_close = k.is_close
      /\ k.rest = Left("chunked", t, 20)
      /\ k.chunk_length = (IF q = 8 THEN 2 ELSE 0)
      /\ k.state = (IF q = 8 THEN "Body" ELSE "End")
  <2>1. HeaderEnd["chunked"] = 8
    BY DEF HeaderEnd
  <2>2. /\ StateAt("chunked", q) = "Body" /\ IsChunkedAt("chunked", q) = TRUE /\ ChunkAt("chunked", q) = 0
        /\ LinesAt(q) = LinesAt(t) /\ LengthAt("chunked", q) = LengthAt("chunked", t)
        /\ BodyAt("chunked", q) = BodyAt("chunked", t)
        /\ IsChunkedAt("chunked", t) = TRUE /\ IsCloseAt("chunked", q) = IsCloseAt("chunked", t)
        /\ ChunkAt("chunked", t) = (IF q = 8 THEN 2 ELSE 0)
        /\ StateAt("chunked", t) = (IF q = 8 THEN "Body" ELSE "End")
    <3>1. CASE q = 8
      BY <2>1, <3>1 DEF LinesAt, LengthAt, BodyAt, ChunkAt, IsChunkedAt, IsCloseAt, StateAt
    <3>2. CASE q = 15
      BY <2>1, <3>2 DEF LinesAt, LengthAt, BodyAt, ChunkAt, IsChunkedAt, IsCloseAt, StateAt
    <3> QED BY <3>1, <3>2
  <2> HIDE DEF t
  <2>3. /\ m.rest = Left("chunked", q, 20) /\ m.header_lines = LinesAt(q)
        /\ m.body_length = LengthAt("chunked", q) /\ m.body = BodyAt("chunked", q)
        /\ m.chunk_length = ChunkAt("chunked", q) /\ m.is_chunked = IsChunkedAt("chunked", q)
        /\ m.is_close = IsCloseAt("chunked", q) /\ m.state = StateAt("chunked", q)
    BY ReadingFields
  <2>4. /\ k.rest = Left("chunked", t, 20) /\ k.header_lines = LinesAt(t)
        /\ k.body_length = LengthAt("chunked", t) /\ k.body = BodyAt("chunked", t)
        /\ k.chunk_length = ChunkAt("chunked", t) /\ k.is_chunked = IsChunkedAt("chunked", t)
        /\ k.is_close = IsCloseAt("chunked", t) /\ k.state = StateAt("chunked", t)
    BY ReadingFields
  <2> HIDE DEF m, k
  <2> QED BY <2>2, <2>3, <2>4
<1>4. /\ HasCompleteLine(m.rest) /\ AfterLine(m.rest) = k.rest
      /\ LineText(m.rest) = <<IF q = 8 THEN "size" ELSE "zero">>
  <2>1. q \in Nat /\ t = q + 3 /\ t <= 20 /\ 20 \in Nat /\ Request["chunked"][q + 1] # "cr"
    BY <1>1
  <2> HIDE DEF t, m, k
  <2>2. /\ HasCompleteLine(Left("chunked", q, 20))
        /\ LineText(Left("chunked", q, 20)) = <<Request["chunked"][q + 1]>>
        /\ AfterLine(Left("chunked", q, 20)) = Left("chunked", t, 20)
    <3>1. Request["chunked"][q + 2] = "cr" /\ Request["chunked"][q + 3] = "lf" /\ 20 <= Len(Request["chunked"])
      BY <1>0, <1>1
    <3> QED BY <1>0, <2>1, <3>1, LineOfOne, ZenonT(60)
  <2> QED BY <1>1, <1>3, <2>2
<1> HIDE DEF m, k, t
<1>5. GetChunkLength(LineText(m.rest)) = IF q = 8 THEN 2 ELSE 0
  BY <1>4 DEF GetChunkLength, BodyLength
<1>6. ~Stops(m)
  BY <1>3, <1>4 DEF Stops
<1>7. Round(m) = ReadChunkLength(m)
  <2>1. ~(m.chunk_length > 0)
    BY <1>3
  <2> QED BY <1>3, <2>1, Zenon DEF Round
<1>8. ReadChunkLength(m) = k
  <2> DEFINE cl == GetChunkLength(LineText(m.rest))
             st == IF cl = 0 THEN "End" ELSE m.state
             n  == [m EXCEPT !.chunk_length = cl, !.rest = AfterLine(m.rest), !.state = st]
  <2>1. ReadChunkLength(m) = n
    BY <1>2 DEF ReadChunkLength, Messages
  <2>2. cl = k.chunk_length /\ st = k.state
    BY <1>3, <1>5
  <2> HIDE DEF cl, st
  <2>3. n = k
    BY <1>2, <1>3, <1>4, <2>2, SameMessage DEF Messages
  <2> QED BY <2>1, <2>3
<1> QED BY <1>2, <1>6, <1>7, <1>8, GoesOn DEF m, k, t

(* The round that takes the chunk of the chunked request.                   *)
LEMMA ChunkStep ==
  UpdateMessage[Reading("chunked", 11, 20)] = UpdateMessage[Reading("chunked", 15, 20)]
<1> DEFINE m == Reading("chunked", 11, 20)
           k == Reading("chunked", 15, 20)
           s == Request["chunked"]
<1>0. "chunked" \in Kinds /\ Len(s) = 20 /\ s \in Seq(Symbols)
  BY KindsAre, ChunkedText, TextType
<1>1. s[12] = "d1" /\ s[13] = "d2" /\ s[14] = "cr" /\ s[15] = "lf"
  BY ChunkedText
<1>2. m \in Messages /\ k \in Messages
  <2>1. 11 \in Nat /\ 11 <= 20 /\ 15 \in Nat /\ 15 <= 20 /\ 20 \in Nat /\ 20 <= Len(Request["chunked"])
    BY <1>0
  <2> HIDE DEF s
  <2> QED BY <1>0, <2>1, ReadingType
<1>3. /\ m.rest = Left("chunked", 11, 20) /\ m.state = "Body" /\ m.is_chunked = TRUE /\ m.chunk_length = 2
      /\ m.header_lines = k.header_lines /\ m.body_length = k.body_length /\ m.body = <<>>
      /\ m.is_chunked = k.is_chunked /\ m.is_close = k.is_close /\ k.body = <<"d1", "d2">>
      /\ k.rest = Left("chunked", 15, 20) /\ k.chunk_length = 0 /\ k.state = "Body"
  <2>1. HeaderEnd["chunked"] = 8
    BY DEF HeaderEnd
  <2>2. /\ StateAt("chunked", 11) = "Body" /\ IsChunkedAt("chunked", 11) = TRUE /\ ChunkAt("chunked", 11) = 2
        /\ LinesAt(11) = LinesAt(15) /\ LengthAt("chunked", 11) = LengthAt("chunked", 15)
        /\ BodyAt("chunked", 11) = <<>> /\ BodyAt("chunked", 15) = <<"d1", "d2">>
        /\ IsChunkedAt("chunked", 15) = TRUE /\ IsCloseAt("chunked", 11) = IsCloseAt("chunked", 15)
        /\ ChunkAt("chunked", 15) = 0 /\ StateAt("chunked", 15) = "Body"
    BY <2>1 DEF LinesAt, LengthAt, BodyAt, ChunkAt, IsChunkedAt, IsCloseAt, StateAt
  <2>3. /\ m.rest = Left("chunked", 11, 20) /\ m.header_lines = LinesAt(11)
        /\ m.body_length = LengthAt("chunked", 11) /\ m.body = BodyAt("chunked", 11)
        /\ m.chunk_length = ChunkAt("chunked", 11) /\ m.is_chunked = IsChunkedAt("chunked", 11)
        /\ m.is_close = IsCloseAt("chunked", 11) /\ m.state = StateAt("chunked", 11)
    BY ReadingFields
  <2>4. /\ k.rest = Left("chunked", 15, 20) /\ k.header_lines = LinesAt(15)
        /\ k.body_length = LengthAt("chunked", 15) /\ k.body = BodyAt("chunked", 15)
        /\ k.chunk_length = ChunkAt("chunked", 15) /\ k.is_chunked = IsChunkedAt("chunked", 15)
        /\ k.is_close = IsCloseAt("chunked", 15) /\ k.state = StateAt("chunked", 15)
    BY ReadingFields
  <2> HIDE DEF m, k
  <2> QED BY <2>2, <2>3, <2>4
<1> HIDE DEF s
<1> DEFINE r == SubSeq(s, 12, 20)
           a == SubSeq(r, 3, 9)
           b == SubSeq(a, 3, 7)
           d == SubSeq(r, 1, 2)
<1>4. r = Left("chunked", 11, 20) /\ SubSeq(s, 16, 20) = Left("chunked", 15, 20)
  BY DEF Left, s
<1>5. r \in Seq(Symbols) /\ Len(r) = 9 /\ r[1] = "d1" /\ r[2] = "d2"
  <2>1. r \in Seq(Symbols) /\ Len(r) = 9 /\ \A i \in 1 .. 9 : r[i] = s[12 + i - 1]
    <3>1. 12 \in 1 .. Len(s) + 1 /\ 20 \in 0 .. Len(s) /\ 20 - 12 + 1 = 9 /\ 12 <= 20
      BY <1>0
    <3>2. /\ SubSeq(s, 12, 20) \in Seq(Symbols) /\ Len(SubSeq(s, 12, 20)) = IF 12 <= 20 THEN 20 - 12 + 1 ELSE 0
          /\ \A i \in 1 .. 20 - 12 + 1 : SubSeq(s, 12, 20)[i] = s[12 + i - 1]
      BY <1>0, <3>1, PartOfText
    <3> QED BY <3>1, <3>2
  <2> HIDE DEF r
  <2>2. r[1] = s[12] /\ r[2] = s[13]
    BY <2>1
  <2> QED BY <1>1, <2>1, <2>2
<1>6. a = SubSeq(s, 14, 20)
  BY <1>0, PartOfPart, 11 + 1 = 12, 2 + 1 = 3, 20 - 11 = 9, 11 + 2 + 1 = 14
<1> HIDE DEF r
<1>7. a \in Seq(Symbols) /\ Len(a) = 7 /\ a[1] = "cr" /\ a[2] = "lf"
  <2> HIDE DEF a
  <2>1. a \in Seq(Symbols) /\ Len(a) = 7 /\ \A i \in 1 .. 7 : a[i] = s[14 + i - 1]
    <3>1. 14 \in 1 .. Len(s) + 1 /\ 20 \in 0 .. Len(s) /\ 20 - 14 + 1 = 7 /\ 14 <= 20
      BY <1>0
    <3>2. /\ SubSeq(s, 14, 20) \in Seq(Symbols) /\ Len(SubSeq(s, 14, 20)) = IF 14 <= 20 THEN 20 - 14 + 1 ELSE 0
          /\ \A i \in 1 .. 20 - 14 + 1 : SubSeq(s, 14, 20)[i] = s[14 + i - 1]
      BY <1>0, <3>1, PartOfText
    <3> QED BY <1>6, <3>1, <3>2
  <2>2. a[1] = s[14] /\ a[2] = s[15]
    BY <2>1
  <2> QED BY <1>1, <2>1, <2>2
<1>8. b = SubSeq(s, 16, 20)
  <2>1. SubSeq(SubSeq(s, 13 + 1, 20), 2 + 1, 20 - 13) = SubSeq(s, 13 + 2 + 1, 20)
    BY <1>0, PartOfPart
  <2> HIDE DEF a
  <2> QED BY <1>6, <2>1
<1> HIDE DEF a
<1>9. SubSeq(a, 1, 2) = Eol
  <2> DEFINE e == SubSeq(a, 1, 2)
  <2>1. e \in Seq(Symbols) /\ Len(e) = 2 /\ e[1] = "cr" /\ e[2] = "lf"
    BY <1>7
  <2> HIDE DEF e
  <2>2. e = Eol
    BY <2>1 DEF Eol
  <2> QED BY <2>2 DEF e
<1>10. d = <<"d1", "d2">>
  <2>1. d \in Seq(Symbols) /\ Len(d) = 2 /\ d[1] = "d1" /\ d[2] = "d2"
    BY <1>5
  <2> HIDE DEF d
  <2> QED BY <2>1
<1>11. <<>> \o d = d
  <2>1. d \in Seq(Symbols)
    BY <1>5
  <2> HIDE DEF d
  <2> QED BY <2>1
<1> HIDE DEF b, d, m, k
<1>12. m.rest = r /\ Len(m.rest) = 9 /\ m.chunk_length + 1 = 3 /\ Len(a) = 7
  BY <1>3, <1>4, <1>5, <1>7
<1>17. m.chunk_length # 0 /\ m.chunk_length > 0 /\ ~(m.chunk_length + 2 > Len(m.rest))
  <2>1. m.chunk_length = 2 /\ Len(m.rest) = 9
    BY <1>3, <1>12
  <2> QED BY <2>1
<1>13. ~Stops(m)
  BY <1>3, <1>17, Zenon DEF Stops
<1>14. Round(m) = TakeChunk(m)
  BY <1>3, <1>17, Zenon DEF Round
<1>15. TakeChunk(m) = [m EXCEPT !.body = d, !.rest = b, !.chunk_length = 0]
  <2>1. SubSeq(m.rest, m.chunk_length + 1, Len(m.rest)) = a
    BY <1>12 DEF a
  <2>2. SubSeq(a, 3, Len(a)) = b
    BY <1>12 DEF b
  <2>3. m.body \o SubSeq(m.rest, 1, m.chunk_length) = d
    BY <1>3, <1>11, <1>12 DEF d
  <2> DEFINE n == [m EXCEPT !.body = m.body \o SubSeq(m.rest, 1, m.chunk_length),
                !.rest = IF SubSeq(a, 1, 2) = Eol THEN SubSeq(a, 3, Len(a)) ELSE a,
                !.chunk_length = 0]
  <2>4. TakeChunk(m) = n
    BY <1>2, <2>1, Zenon DEF TakeChunk
  <2> QED BY <1>9, <2>2, <2>3, <2>4
<1>16. TakeChunk(m) = k
  <2> DEFINE n == [m EXCEPT !.body = d, !.rest = b, !.chunk_length = 0]
  <2>1. d = k.body /\ b = k.rest /\ k.chunk_length = 0
    BY <1>3, <1>4, <1>8, <1>10
  <2>2. k.body \in Seq(Symbols) /\ k.rest \in Seq(Symbols)
    BY <1>2 DEF Messages
  <2>3. n \in Messages
    BY <1>2, <2>1, <2>2 DEF Messages
  <2>4. /\ n.rest = b /\ n.body = d /\ n.chunk_length = 0 /\ n.header_lines = m.header_lines
        /\ n.body_length = m.body_length /\ n.is_chunked = m.is_chunked /\ n.is_close = m.is_close
        /\ n.state = m.state
    BY <1>2 DEF Messages
  <2> HIDE DEF n
  <2>5. n = k
    BY <1>2, <1>3, <2>1, <2>3, <2>4, SameMessage
  <2> QED BY <1>15, <2>5 DEF n
<1> QED BY <1>2, <1>13, <1>14, <1>16, GoesOn DEF m, k

-----------------------------------------------------------------------------
(* A whole request, as the workers should see it.                          *)
IsWhole(kind, m) ==
  /\ m \in Messages /\ m.state = "End"
  /\ m.header_lines = << <<"known">> >>
  /\ m.body = BodyOf(kind)
  /\ m.is_close = (kind = "closing")
  /\ m.rest = IF kind = "chunked" THEN Eol ELSE <<>>

(* A request that was read up to a clean cut.                              *)
Partial(kind, q) ==
  Reading(kind, IF q < HeaderEnd[kind] THEN q ELSE HeaderEnd[kind], q)

(* Cuts of a kind.                                                         *)
LEMMA CutsOf ==
  ASSUME NEW kind \in Kinds, NEW q \in Cuts[kind]
  PROVE  /\ q \in {0, 3, 6, 8, 9} /\ q < Len(Request[kind])
         /\ q < HeaderEnd[kind] => q \in {0, 3, 6}
         /\ q >= HeaderEnd[kind] => kind = "post" /\ q \in {8, 9}
         /\ q = 6 => kind # "get"
<1> USE DEF Cuts, HeaderEnd, TextEnd
<1>1. Len(Request[kind]) = TextEnd[kind]
  BY Lengths
<1>2. CASE kind = "get"
  BY <1>1, <1>2
<1>3. CASE kind = "closing"
  BY <1>1, <1>3
<1>4. CASE kind = "post"
  BY <1>1, <1>4
<1>5. CASE kind = "chunked"
  BY <1>1, <1>5
<1> QED BY <1>2, <1>3, <1>4, <1>5, KindsAre

(* From a cut in the header to a later one.                                *)
LEMMA ToCut ==
  ASSUME NEW kind \in Kinds, NEW c \in {0, 3, 6}, NEW p \in {0, 3, 6},
         c <= p, p < HeaderEnd[kind]
  PROVE  UpdateMessage[Reading(kind, c, p)] = UpdateMessage[Reading(kind, p, p)]
<1>1. p <= Len(Request[kind]) /\ (p = 6 => kind # "get")
  <2>1. Len(Request[kind]) = TextEnd[kind]
    BY Lengths
  <2>2. CASE kind = "get"
    BY <2>1, <2>2 DEF HeaderEnd, TextEnd
  <2>3. CASE kind # "get"
    <3>1. TextEnd[kind] >= 8
      BY <2>3, KindsAre DEF TextEnd
    <3>2. TextEnd[kind] \in Nat
      BY KindsAre DEF TextEnd
    <3> QED BY <2>1, <2>3, <3>1, <3>2
  <2> QED BY <2>2, <2>3
<1>2. CASE c = p
  BY <1>2
<1>3. CASE c = 0 /\ p = 3
  BY <1>1, <1>3, KnownStep
<1>4. CASE c = 0 /\ p = 6
  BY <1>1, <1>4, KnownStep, FieldStep
<1>5. CASE c = 3 /\ p = 6
  BY <1>1, <1>5, FieldStep
<1> QED BY <1>2, <1>3, <1>4, <1>5

(* From a cut in the header into the body.                                 *)
LEMMA ToBody ==
  ASSUME NEW kind \in Kinds, NEW c \in {0, 3, 6}, c < HeaderEnd[kind],
         NEW p \in Nat, HeaderEnd[kind] <= p, p <= Len(Request[kind])
  PROVE  UpdateMessage[Reading(kind, c, p)] = UpdateMessage[Reading(kind, HeaderEnd[kind], p)]
<1>1. CASE kind = "get"
  <2>1. HeaderEnd[kind] = 5 /\ c \in {0, 3}
    BY <1>1 DEF HeaderEnd
  <2>2. UpdateMessage[Reading(kind, 3, p)] = UpdateMessage[Reading(kind, 3 + 2, p)]
    BY <2>1, EmptyStep
  <2>3. UpdateMessage[Reading(kind, 0, p)] = UpdateMessage[Reading(kind, 3, p)]
    BY <2>1, KnownStep
  <2> QED BY <2>1, <2>2, <2>3
<1>2. CASE kind # "get"
  <2>1. HeaderEnd[kind] = 8
    BY <1>2, KindsAre DEF HeaderEnd
  <2>2. UpdateMessage[Reading(kind, 6, p)] = UpdateMessage[Reading(kind, 6 + 2, p)]
    BY <2>1, EmptyStep
  <2>3. UpdateMessage[Reading(kind, 0, p)] = UpdateMessage[Reading(kind, 3, p)]
    BY <2>1, KnownStep
  <2>4. UpdateMessage[Reading(kind, 3, p)] = UpdateMessage[Reading(kind, 6, p)]
    BY <1>2, <2>1, FieldStep
  <2> QED BY <2>1, <2>2, <2>3, <2>4
<1> QED BY <1>1, <1>2

(* Nothing is left at the end of what was received.                        *)
LEMMA NothingLeft ==
  ASSUME NEW kind \in Kinds, NEW p \in Nat, p <= Len(Request[kind])
  PROVE  Left(kind, p, p) = <<>>
<1>1. Request[kind] \in Seq(Symbols) /\ Len(Request[kind]) \in Nat
  BY TextType
<1> DEFINE s == Request[kind]
<1> HIDE DEF s
<1>2. p + 1 \in 1 .. Len(s) + 1 /\ p \in 0 .. Len(s) /\ ~(p + 1 <= p) /\ s \in Seq(Symbols)
  BY <1>1 DEF s
<1>3. SubSeq(s, p + 1, p) \in Seq(Symbols) /\ Len(SubSeq(s, p + 1, p)) = 0
  BY <1>2, PartOfText
<1>4. SubSeq(s, p + 1, p) = <<>>
  BY <1>3
<1> QED BY <1>4 DEF Left, s

(* What came before and what comes now.                                    *)
LEMMA JoinLeft ==
  ASSUME NEW kind \in Kinds, NEW c \in Nat, NEW q \in Nat, NEW p \in Nat,
         c <= q, q <= p, p <= Len(Request[kind])
  PROVE  Left(kind, c, q) \o Left(kind, q, p) = Left(kind, c, p)
<1> DEFINE s == Request[kind]
<1>1. s \in Seq(Symbols) /\ Len(s) \in Nat
  BY TextType
<1> HIDE DEF s
<1> DEFINE x == SubSeq(s, c + 1, q)
           y == SubSeq(s, q + 1, p)
           z == SubSeq(s, c + 1, p)
           w == x \o y
<1>2. x \in Seq(Symbols) /\ Len(x) = q - c /\ \A i \in 1 .. q - c : x[i] = s[c + i]
  BY <1>1 DEF s
<1>3. y \in Seq(Symbols) /\ Len(y) = p - q /\ \A i \in 1 .. p - q : y[i] = s[q + i]
  BY <1>1 DEF s
<1>4. z \in Seq(Symbols) /\ Len(z) = p - c /\ \A i \in 1 .. p - c : z[i] = s[c + i]
  BY <1>1 DEF s
<1>5. x = Left(kind, c, q) /\ y = Left(kind, q, p) /\ z = Left(kind, c, p)
  BY DEF Left, s
<1> HIDE DEF x, y, z
<1>6. w \in Seq(Symbols) /\ Len(w) = p - c
  BY <1>2, <1>3
<1>7. ASSUME NEW i \in 1 .. p - c PROVE w[i] = z[i]
  <2>1. CASE i <= q - c
    BY <1>2, <1>3, <1>4, <2>1
  <2>2. CASE i > q - c
    <3>1. i - (q - c) \in 1 .. p - q /\ q + (i - (q - c)) = c + i
      BY <2>2
    <3>2. w[i] = y[i - (q - c)]
      BY <1>2, <1>3, <2>2
    <3> QED BY <1>3, <1>4, <3>1, <3>2
  <2>3. i \in Int /\ q - c \in Int
    OBVIOUS
  <2> HIDE DEF w
  <2> QED BY <2>1, <2>2, <2>3
<1> HIDE DEF w
<1>8. w = z
  BY <1>4, <1>6, <1>7
<1> QED BY <1>5, <1>8 DEF w

-----------------------------------------------------------------------------
Joined(m, data) == [m EXCEPT !.rest = @ \o data]

(* The data of one more read, after what is left of the reads before.      *)
LEMMA MoreData ==
  ASSUME NEW kind \in Kinds, NEW q \in Cuts[kind], NEW p \in Nat, q <= p, p <= Len(Request[kind]),
         NEW c, c = IF q < HeaderEnd[kind] THEN q ELSE HeaderEnd[kind]
  PROVE  Joined(Partial(kind, q), Left(kind, q, p)) = Reading(kind, c, p)
<1> DEFINE m == Reading(kind, c, q)
           k == Reading(kind, c, p)
<1>1. c \in Nat /\ c <= q /\ q \in Nat
  <2>1. HeaderEnd[kind] \in Nat
    BY KindsAre DEF HeaderEnd
  <2> QED BY <2>1, CutsOf
<1>2. m = Partial(kind, q)
  BY DEF Partial
<1>3. m \in Messages /\ k \in Messages
  BY <1>1, ReadingType
<1>4. /\ m.rest = Left(kind, c, q) /\ k.rest = Left(kind, c, p)
      /\ m.header_lines = k.header_lines /\ m.body_length = k.body_length /\ m.body = k.body
      /\ m.chunk_length = k.chunk_length /\ m.is_chunked = k.is_chunked
      /\ m.is_close = k.is_close /\ m.state = k.state
  BY ReadingFields
<1> HIDE DEF m, k
<1>5. m.rest \o Left(kind, q, p) = k.rest
  <2>1. Left(kind, c, q) \o Left(kind, q, p) = Left(kind, c, p)
    BY <1>1, JoinLeft, ZenonT(60)
  <2>2. m.rest = Left(kind, c, q) /\ k.rest = Left(kind, c, p)
    BY <1>4
  <2> QED BY <2>1, <2>2, Zenon
<1> DEFINE n == [m EXCEPT !.rest = k.rest]
<1>6. n \in Messages
  BY <1>3 DEF Messages
<1>7. /\ n.rest = k.rest /\ n.header_lines = m.header_lines /\ n.body_length = m.body_length /\ n.body = m.body
      /\ n.chunk_length = m.chunk_length /\ n.is_chunked = m.is_chunked
      /\ n.is_close = m.is_close /\ n.state = m.state
  BY <1>3 DEF Messages
<1>8. [m EXCEPT !.rest = @ \o Left(kind, q, p)] = n
  BY <1>3, <1>5 DEF Messages
<1> HIDE DEF n
<1>9. n = k
  BY <1>3, <1>4, <1>6, <1>7, SameMessage
<1> QED BY <1>2, <1>8, <1>9 DEF k, Joined

(* PrepareTask on what UpdateMessage returns.                              *)
LEMMA PreparedIs ==
  ASSUME NEW m, NEW data, NEW k, Joined(m, data) = k
  PROVE  Prepared(m, data) = IF UpdateMessage[k].state = "Body" /\ UpdateMessage[k].body_length <= 0
                             THEN [UpdateMessage[k] EXCEPT !.state = "End"] ELSE UpdateMessage[k]
BY DEF Prepared, Joined

(* A read that ends in the header.                                         *)
LEMMA ReadHeader ==
  ASSUME NEW kind \in Kinds, NEW q \in Cuts[kind], NEW p \in Cuts[kind], q < p, p < HeaderEnd[kind]
  PROVE  Prepared(Partial(kind, q), Left(kind, q, p)) = Partial(kind, p)
<1>1. p \in {0, 3, 6} /\ q \in {0, 3, 6} /\ p \in Nat /\ p < Len(Request[kind]) /\ HeaderEnd[kind] \in Nat
  <2>1. HeaderEnd[kind] \in Nat
    BY KindsAre DEF HeaderEnd
  <2>2. p \in {0, 3, 6} /\ p < Len(Request[kind])
    BY CutsOf
  <2>3. q \in {0, 3, 6, 8, 9}
    BY CutsOf
  <2>4. q < HeaderEnd[kind]
    BY <2>1, <2>2, <2>3
  <2> QED BY <2>1, <2>2, <2>4, CutsOf
<1>2. q < HeaderEnd[kind] /\ p <= Len(Request[kind])
  BY <1>1, TextType
<1> DEFINE m == Reading(kind, p, p)
<1>3. m = Partial(kind, p)
  BY DEF Partial
<1>4. Joined(Partial(kind, q), Left(kind, q, p)) = Reading(kind, q, p)
  BY <1>1, <1>2, MoreData
<1>5. UpdateMessage[Reading(kind, q, p)] = UpdateMessage[m]
  BY <1>1, ToCut
<1>6. m \in Messages
  BY <1>1, <1>2, ReadingType
<1>7. m.state = "Header" /\ m.rest = <<>>
  BY <1>1, <1>2, ReadingFields, NothingLeft DEF StateAt
<1> HIDE DEF m
<1>8. UpdateMessage[m] = m
  BY <1>6, <1>7, UpdateLoop DEF Stops, Returned
<1>9. Prepared(Partial(kind, q), Left(kind, q, p)) = m
  BY <1>4, <1>5, <1>7, <1>8, PreparedIs, Zenon
<1> QED BY <1>3, <1>9

(* A read that ends in the body of a request with a length.                *)
LEMMA ReadSome ==
  ASSUME NEW q \in Cuts["post"], NEW p \in {8, 9}, q < p
  PROVE  Prepared(Partial("post", q), Left("post", q, p)) = Partial("post", p)
<1>0. "post" \in Kinds /\ HeaderEnd["post"] = 8 /\ Len(Request["post"]) = 10
  BY KindsAre, PostText DEF HeaderEnd
<1> DEFINE c == IF q < 8 THEN q ELSE 8
           m == Reading("post", 8, p)
<1>1. q \in {0, 3, 6, 8} /\ p \in Nat /\ p <= Len(Request["post"])
  BY <1>0, CutsOf
<1>2. Joined(Partial("post", q), Left("post", q, p)) = Reading("post", c, p)
  <2>1. c = (IF q < HeaderEnd["post"] THEN q ELSE HeaderEnd["post"]) /\ q <= p
    BY <1>0, <1>1
  <2> HIDE DEF c
  <2> QED BY <1>0, <1>1, <2>1, MoreData
<1>3. UpdateMessage[Reading("post", c, p)] = UpdateMessage[m]
  <2>1. CASE q = 8
    BY <2>1
  <2>2. CASE q \in {0, 3, 6}
    <3>1. c = q
      BY <2>2
    <3>2. q < HeaderEnd["post"] /\ HeaderEnd["post"] <= p
      BY <1>0, <2>2
    <3>3. UpdateMessage[Reading("post", q, p)] = UpdateMessage[Reading("post", HeaderEnd["post"], p)]
      BY <1>0, <1>1, <2>2, <3>2, ToBody
    <3> HIDE DEF c
    <3> QED BY <1>0, <3>1, <3>3
  <2> QED BY <1>1, <2>1, <2>2
<1> HIDE DEF c
<1>4. m = Partial("post", p)
  BY <1>0 DEF Partial
<1>5. m \in Messages
  <2>1. 8 \in Nat /\ 8 <= p
    OBVIOUS
  <2> QED BY <1>0, <1>1, <2>1, ReadingType
<1>6. m.rest = Left("post", 8, p) /\ m.state = "Body" /\ m.is_chunked = FALSE /\ m.body_length = 2
  <2>1. StateAt("post", 8) = "Body" /\ IsChunkedAt("post", 8) = FALSE /\ LengthAt("post", 8) = 2
    BY <1>0 DEF StateAt, IsChunkedAt, LengthAt
  <2> QED BY <2>1, ReadingFields
<1>7. Len(m.rest) = p - 8
  <2>1. Request["post"] \in Seq(Symbols)
    BY <1>0, TextType
  <2> DEFINE s == Request["post"]
  <2>2. s \in Seq(Symbols) /\ Len(s) = 10 /\ 8 + 1 \in 1 .. Len(s) + 1 /\ p \in 0 .. Len(s)
    BY <1>0, <2>1
  <2> HIDE DEF s
  <2>3. Len(SubSeq(s, 8 + 1, p)) = IF 8 + 1 <= p THEN p - (8 + 1) + 1 ELSE 0
    BY <2>2, PartOfText
  <2>4. m.rest = SubSeq(s, 8 + 1, p)
    BY <1>6 DEF Left, s
  <2> QED BY <2>3, <2>4
<1> HIDE DEF m
<1>8. ReadPlainBody(m) = m
  <2>1. (IF m.body_length = 0 THEN Len(m.rest) ELSE m.body_length) = 2 /\ ~(2 <= Len(m.rest))
    BY <1>6, <1>7
  <2>2. [m EXCEPT !.body_length = 2] = m
    BY <1>5, <1>6 DEF Messages
  <2> QED BY <2>1, <2>2 DEF ReadPlainBody
<1>9. UpdateMessage[m] = m
  BY <1>5, <1>6, <1>8, UpdateLoop DEF Stops, Returned
<1>10. ~(m.body_length <= 0)
  BY <1>6
<1>11. Prepared(Partial("post", q), Left("post", q, p)) = m
  <2> DEFINE k == Reading("post", c, p)
  <2>1. UpdateMessage[k] = m
    BY <1>3, <1>9
  <2>2. Prepared(Partial("post", q), Left("post", q, p)) =
          IF UpdateMessage[k].state = "Body" /\ UpdateMessage[k].body_length <= 0
          THEN [UpdateMessage[k] EXCEPT !.state = "End"] ELSE UpdateMessage[k]
    BY <1>2, PreparedIs
  <2> HIDE DEF k
  <2> QED BY <1>10, <2>1, <2>2
<1> QED BY <1>4, <1>11

(* A read that ends with the request, which has no body.                   *)
LEMMA ReadNoBody ==
  ASSUME NEW kind \in {"get", "closing"}, NEW q \in Cuts[kind], NEW p, p = Len(Request[kind])
  PROVE  IsWhole(kind, Prepared(Partial(kind, q), Left(kind, q, p)))
<1>0. kind \in Kinds /\ HeaderEnd[kind] = p /\ p \in Nat /\ p >= 5
  <2>1. kind \in Kinds
    BY KindsAre
  <2>2. p = TextEnd[kind]
    BY <2>1, Lengths
  <2>3. CASE kind = "get"
    BY <2>1, <2>2, <2>3 DEF HeaderEnd, TextEnd
  <2>4. CASE kind = "closing"
    BY <2>1, <2>2, <2>4 DEF HeaderEnd, TextEnd
  <2> QED BY <2>3, <2>4
<1> DEFINE m == Reading(kind, p, p)
<1>1. q \in {0, 3, 6} /\ q < p /\ q <= p
  <2>1. q < Len(Request[kind])
    BY <1>0, CutsOf
  <2> QED BY <1>0, <2>1, CutsOf
<1>2. Joined(Partial(kind, q), Left(kind, q, p)) = Reading(kind, q, p)
  <2>1. q = IF q < HeaderEnd[kind] THEN q ELSE HeaderEnd[kind]
    BY <1>0, <1>1
  <2> QED BY <1>0, <1>1, <2>1, MoreData
<1>3. UpdateMessage[Reading(kind, q, p)] = UpdateMessage[m]
  BY <1>0, <1>1, ToBody
<1>4. m \in Messages
  BY <1>0, ReadingType
<1>5. /\ m.rest = <<>> /\ m.state = "Body" /\ m.is_chunked = FALSE /\ m.body_length = 0
      /\ m.body = <<>> /\ m.header_lines = << <<"known">> >> /\ m.is_close = (kind = "closing")
  <2>1. /\ StateAt(kind, p) = "Body" /\ IsChunkedAt(kind, p) = FALSE /\ LengthAt(kind, p) = 0
        /\ BodyAt(kind, p) = <<>> /\ LinesAt(p) = << <<"known">> >> 
    BY <1>0 DEF StateAt, IsChunkedAt, LengthAt, BodyAt, LinesAt
  <2>2. IsCloseAt(kind, p) = (kind = "closing")
    <3>1. CASE kind = "closing"
      <4>2. HeaderEnd["closing"] = 8
        BY DEF HeaderEnd
      <4>1. p >= 6
        BY <1>0, <3>1, <4>2
      <4> QED BY <3>1, <4>1 DEF IsCloseAt
    <3>2. CASE kind # "closing"
      BY <3>2 DEF IsCloseAt
    <3> QED BY <3>1, <3>2
  <2>3. Left(kind, p, p) = <<>>
    BY <1>0, NothingLeft
  <2>4. /\ m.rest = Left(kind, p, p) /\ m.state = StateAt(kind, p) /\ m.is_chunked = IsChunkedAt(kind, p)
        /\ m.body_length = LengthAt(kind, p) /\ m.body = BodyAt(kind, p)
        /\ m.header_lines = LinesAt(p) /\ m.is_close = IsCloseAt(kind, p)
    BY ReadingFields
  <2> HIDE DEF m
  <2> QED BY <2>1, <2>2, <2>3, <2>4, Zenon
<1> HIDE DEF m
<1>8. ReadPlainBody(m) = m
  <2>1. Len(m.rest) = 0
    BY <1>5
  <2>2. (IF m.body_length = 0 THEN Len(m.rest) ELSE m.body_length) = 0 /\ ~(0 > 0)
    BY <1>5, <2>1
  <2>3. [m EXCEPT !.body_length = 0] = m
    BY <1>4, <1>5 DEF Messages
  <2> QED BY <2>2, <2>3 DEF ReadPlainBody
<1>9. UpdateMessage[m] = m
  BY <1>4, <1>5, <1>8, UpdateLoop DEF Stops, Returned
<1> DEFINE n == [m EXCEPT !.state = "End"]
<1>10. Prepared(Partial(kind, q), Left(kind, q, p)) = n
  <2> DEFINE k == Reading(kind, q, p)
  <2>1. UpdateMessage[k] = m
    BY <1>3, <1>9
  <2>2. Prepared(Partial(kind, q), Left(kind, q, p)) =
          IF UpdateMessage[k].state = "Body" /\ UpdateMessage[k].body_length <= 0
          THEN [UpdateMessage[k] EXCEPT !.state = "End"] ELSE UpdateMessage[k]
    BY <1>2, PreparedIs
  <2>3. m.state = "Body" /\ m.body_length <= 0
    BY <1>5
  <2> HIDE DEF k
  <2> QED BY <2>1, <2>2, <2>3, Zenon
<1>11. /\ n \in Messages /\ n.state = "End" /\ n.header_lines = m.header_lines /\ n.body = m.body
       /\ n.is_close = m.is_close /\ n.rest = m.rest
  BY <1>4 DEF Messages
<1>12. BodyOf(kind) = <<>> /\ kind # "chunked"
  BY DEF BodyOf
<1> HIDE DEF n
<1>13. IsWhole(kind, n)
  BY <1>5, <1>11, <1>12, Zenon DEF IsWhole
<1> QED BY <1>10, <1>13

(* The last read of a request with a length.                               *)
LEMMA ReadBody ==
  ASSUME NEW q \in Cuts["post"]
  PROVE  IsWhole("post", Prepared(Partial("post", q), Left("post", q, 10)))
<1>0. "post" \in Kinds /\ HeaderEnd["post"] = 8 /\ Len(Request["post"]) = 10 /\ Request["post"] \in Seq(Symbols)
  BY KindsAre, PostText, TextType DEF HeaderEnd
<1> DEFINE c == IF q < 8 THEN q ELSE 8
           m == Reading("post", 8, 10)
<1>1. q \in {0, 3, 6, 8, 9} /\ 10 \in Nat /\ 10 <= Len(Request["post"])
  BY <1>0, CutsOf
<1>2. Joined(Partial("post", q), Left("post", q, 10)) = Reading("post", c, 10)
  <2>1. c = (IF q < HeaderEnd["post"] THEN q ELSE HeaderEnd["post"]) /\ q <= 10
    BY <1>0, <1>1
  <2> HIDE DEF c
  <2> QED BY <1>0, <1>1, <2>1, MoreData
<1>3. UpdateMessage[Reading("post", c, 10)] = UpdateMessage[m]
  <2>1. CASE q \in {8, 9}
    BY <2>1
  <2>2. CASE q \in {0, 3, 6}
    <3>1. c = q
      BY <2>2
    <3>2. q < HeaderEnd["post"] /\ HeaderEnd["post"] <= 10
      BY <1>0, <2>2
    <3>3. UpdateMessage[Reading("post", q, 10)] = UpdateMessage[Reading("post", HeaderEnd["post"], 10)]
      BY <1>0, <1>1, <2>2, <3>2, ToBody
    <3> HIDE DEF c
    <3> QED BY <1>0, <3>1, <3>3
  <2> QED BY <1>1, <2>1, <2>2
<1> HIDE DEF c
<1>5. m \in Messages
  <2>1. 8 \in Nat /\ 8 <= 10
    OBVIOUS
  <2> QED BY <1>0, <1>1, <2>1, ReadingType
<1>6. /\ m.rest = Left("post", 8, 10) /\ m.state = "Body" /\ m.is_chunked = FALSE /\ m.body_length = 2
      /\ m.body = <<>> /\ m.header_lines = << <<"known">> >> /\ m.is_close = FALSE
  <2>1. /\ StateAt("post", 8) = "Body" /\ IsChunkedAt("post", 8) = FALSE /\ LengthAt("post", 8) = 2
        /\ BodyAt("post", 8) = <<>> /\ LinesAt(8) = << <<"known">> >> /\ IsCloseAt("post", 8) = FALSE
    BY <1>0 DEF StateAt, IsChunkedAt, LengthAt, BodyAt, LinesAt, IsCloseAt
  <2>2. /\ m.rest = Left("post", 8, 10) /\ m.state = StateAt("post", 8) /\ m.is_chunked = IsChunkedAt("post", 8)
        /\ m.body_length = LengthAt("post", 8) /\ m.body = BodyAt("post", 8)
        /\ m.header_lines = LinesAt(8) /\ m.is_close = IsCloseAt("post", 8)
    BY ReadingFields
  <2> HIDE DEF m
  <2> QED BY <2>1, <2>2, Zenon
<1> DEFINE r == Left("post", 8, 10)
<1>7. r \in Seq(Symbols) /\ Len(r) = 2 /\ r[1] = "d1" /\ r[2] = "d2"
  <2> DEFINE s == Request["post"]
  <2>1. s \in Seq(Symbols) /\ Len(s) = 10 /\ s[9] = "d1" /\ s[10] = "d2"
    BY <1>0, PostText
  <2> HIDE DEF s
  <2>2. 8 + 1 \in 1 .. Len(s) + 1 /\ 10 \in 0 .. Len(s) /\ 10 - (8 + 1) + 1 = 2 /\ 8 + 1 <= 10
    BY <2>1
  <2>3. /\ SubSeq(s, 8 + 1, 10) \in Seq(Symbols) /\ Len(SubSeq(s, 8 + 1, 10)) = IF 8 + 1 <= 10 THEN 10 - (8 + 1) + 1 ELSE 0
        /\ \A i \in 1 .. 10 - (8 + 1) + 1 : SubSeq(s, 8 + 1, 10)[i] = s[8 + 1 + i - 1]
    BY <2>1, <2>2, PartOfText
  <2>4. r = SubSeq(s, 8 + 1, 10)
    BY DEF Left, s
  <2> HIDE DEF r
  <2>5. r \in Seq(Symbols) /\ Len(r) = 2 /\ \A i \in 1 .. 2 : r[i] = s[8 + i]
    BY <2>2, <2>3, <2>4
  <2> QED BY <2>1, <2>5
<1> HIDE DEF m, r
<1>8. r = <<"d1", "d2">>
  BY <1>7
<1> DEFINE n == [m EXCEPT !.body = <<"d1", "d2">>, !.rest = <<>>, !.state = "End"]
<1>9. ReadPlainBody(m) = n
  <2>1. (IF m.body_length = 0 THEN Len(m.rest) ELSE m.body_length) = 2 /\ 2 > 0 /\ 2 <= Len(m.rest) /\ m.rest = r
    BY <1>6, <1>7 DEF r
  <2>2. [m EXCEPT !.body_length = 2] = m
    BY <1>5, <1>6 DEF Messages
  <2>3. SubSeq(m.rest, 1, 2) = r
    BY <1>7, <2>1
  <2>4. SubSeq(m.rest, 2 + 1, Len(m.rest)) = <<>>
    <3>1. 2 + 1 \in 1 .. Len(r) + 1 /\ 2 \in 0 .. Len(r) /\ ~(2 + 1 <= 2)
      BY <1>7
    <3>2. SubSeq(r, 2 + 1, 2) \in Seq(Symbols) /\ Len(SubSeq(r, 2 + 1, 2)) = IF 2 + 1 <= 2 THEN 2 - (2 + 1) + 1 ELSE 0
      BY <1>7, <3>1, PartOfText
    <3>3. SubSeq(r, 2 + 1, 2) = <<>>
      BY <3>1, <3>2
    <3> QED BY <1>7, <2>1, <3>3
  <2>5. m.body \o SubSeq(m.rest, 1, 2) = <<"d1", "d2">>
    <3>1. <<>> \o r = r
      BY <1>7
    <3> QED BY <1>6, <1>8, <2>3, <3>1
  <2>6. ReadPlainBody(m) = [m EXCEPT !.body  = m.body \o SubSeq(m.rest, 1, 2),
                       !.rest  = SubSeq(m.rest, 2 + 1, Len(m.rest)),
                       !.state = "End"]
    BY <2>1, <2>2 DEF ReadPlainBody
  <2> QED BY <2>4, <2>5, <2>6
<1>10. UpdateMessage[m] = n
  BY <1>5, <1>6, <1>9, UpdateLoop DEF Stops, Returned
<1>11. /\ n \in Messages /\ n.state = "End" /\ n.header_lines = m.header_lines /\ n.body = <<"d1", "d2">>
       /\ n.is_close = m.is_close /\ n.rest = <<>>
  <2>1. <<"d1", "d2">> \in Seq(Symbols) /\ <<>> \in Seq(Symbols)
    BY DEF Symbols
  <2> QED BY <1>5, <2>1 DEF Messages
<1> HIDE DEF n
<1>12. Prepared(Partial("post", q), Left("post", q, 10)) = n
  <2> DEFINE k == Reading("post", c, 10)
  <2>1. UpdateMessage[k] = n
    BY <1>3, <1>10
  <2>2. Prepared(Partial("post", q), Left("post", q, 10)) =
          IF UpdateMessage[k].state = "Body" /\ UpdateMessage[k].body_length <= 0
          THEN [UpdateMessage[k] EXCEPT !.state = "End"] ELSE UpdateMessage[k]
    BY <1>2, PreparedIs
  <2>3. n.state # "Body"
    BY <1>11
  <2> HIDE DEF k
  <2> QED BY <2>1, <2>2, <2>3, Zenon
<1>13. BodyOf("post") = <<"d1", "d2">>
  BY DEF BodyOf
<1>14. IsWhole("post", n)
  BY <1>6, <1>11, <1>13, Zenon DEF IsWhole
<1> QED BY <1>12, <1>14

(* The last read of a chunked request.                                     *)
LEMMA ReadChunks ==
  ASSUME NEW q \in Cuts["chunked"]
  PROVE  IsWhole("chunked", Prepared(Partial("chunked", q), Left("chunked", q, 20)))
<1>0. /\ "chunked" \in Kinds /\ HeaderEnd["chunked"] = 8 /\ Len(Request["chunked"]) = 20
      /\ Request["chunked"] \in Seq(Symbols)
  BY KindsAre, ChunkedText, TextType DEF HeaderEnd
<1> DEFINE m == Reading("chunked", 18, 20)
<1>1. q \in {0, 3, 6} /\ 20 \in Nat /\ 20 <= Len(Request["chunked"]) /\ q < 8 /\ q <= 20
  BY <1>0 DEF Cuts
<1>2. Joined(Partial("chunked", q), Left("chunked", q, 20)) = Reading("chunked", q, 20)
  <2>1. q = (IF q < HeaderEnd["chunked"] THEN q ELSE HeaderEnd["chunked"])
    BY <1>0, <1>1
  <2> QED BY <1>0, <1>1, <2>1, MoreData
<1>3. UpdateMessage[Reading("chunked", q, 20)] = UpdateMessage[m]
  <2>1. q < HeaderEnd["chunked"] /\ HeaderEnd["chunked"] <= 20
    BY <1>0, <1>1
  <2>2. UpdateMessage[Reading("chunked", q, 20)] = UpdateMessage[Reading("chunked", HeaderEnd["chunked"], 20)]
    BY <1>0, <1>1, <2>1, ToBody
  <2>3. UpdateMessage[Reading("chunked", 8, 20)] = UpdateMessage[Reading("chunked", 8 + 3, 20)]
    BY ChunkLengthStep
  <2>4. UpdateMessage[Reading("chunked", 15, 20)] = UpdateMessage[Reading("chunked", 15 + 3, 20)]
    BY ChunkLengthStep
  <2>5. 8 + 3 = 11 /\ 15 + 3 = 18
    OBVIOUS
  <2> QED BY <1>0, <2>2, <2>3, <2>4, <2>5, ChunkStep
<1>5. m \in Messages
  <2>1. 18 \in Nat /\ 18 <= 20
    OBVIOUS
  <2> QED BY <1>0, <1>1, <2>1, ReadingType
<1>6. /\ m.rest = Left("chunked", 18, 20) /\ m.state = "End"
      /\ m.body = <<"d1", "d2">> /\ m.header_lines = << <<"known">> >> /\ m.is_close = FALSE
  <2>1. /\ StateAt("chunked", 18) = "End" 
        /\ BodyAt("chunked", 18) = <<"d1", "d2">> /\ LinesAt(18) = << <<"known">> >> /\ IsCloseAt("chunked", 18) = FALSE
    BY <1>0 DEF StateAt, BodyAt, LinesAt, IsCloseAt
  <2>2. /\ m.rest = Left("chunked", 18, 20) /\ m.state = StateAt("chunked", 18)
        /\ m.body = BodyAt("chunked", 18)
        /\ m.header_lines = LinesAt(18) /\ m.is_close = IsCloseAt("chunked", 18)
    BY ReadingFields
  <2> HIDE DEF m
  <2> QED BY <2>1, <2>2, Zenon
<1>7. Left("chunked", 18, 20) = Eol
  <2> DEFINE s == Request["chunked"]
             r == Left("chunked", 18, 20)
  <2>1. s \in Seq(Symbols) /\ Len(s) = 20 /\ s[19] = "cr" /\ s[20] = "lf"
    BY <1>0, ChunkedText
  <2> HIDE DEF s
  <2>2. 18 + 1 \in 1 .. Len(s) + 1 /\ 20 \in 0 .. Len(s) /\ 20 - (18 + 1) + 1 = 2 /\ 18 + 1 <= 20
    BY <2>1
  <2>3. /\ SubSeq(s, 18 + 1, 20) \in Seq(Symbols) /\ Len(SubSeq(s, 18 + 1, 20)) = IF 18 + 1 <= 20 THEN 20 - (18 + 1) + 1 ELSE 0
        /\ \A i \in 1 .. 20 - (18 + 1) + 1 : SubSeq(s, 18 + 1, 20)[i] = s[18 + 1 + i - 1]
    BY <2>1, <2>2, PartOfText
  <2>4. r = SubSeq(s, 18 + 1, 20)
    BY DEF Left, s
  <2> HIDE DEF r
  <2>5. r \in Seq(Symbols) /\ Len(r) = 2 /\ \A i \in 1 .. 2 : r[i] = s[18 + i]
    BY <2>2, <2>3, <2>4
  <2>6. r[1] = "cr" /\ r[2] = "lf"
    BY <2>1, <2>5
  <2>7. r = Eol
    BY <2>5, <2>6 DEF Eol
  <2> QED BY <2>7 DEF r
<1> HIDE DEF m
<1>8. UpdateMessage[m] = m
  BY <1>5, <1>6, UpdateLoop DEF Stops, Returned
<1>9. Prepared(Partial("chunked", q), Left("chunked", q, 20)) = m
  <2> DEFINE k == Reading("chunked", q, 20)
  <2>1. UpdateMessage[k] = m
    BY <1>3, <1>8
  <2>2. Prepared(Partial("chunked", q), Left("chunked", q, 20)) =
          IF UpdateMessage[k].state = "Body" /\ UpdateMessage[k].body_length <= 0
          THEN [UpdateMessage[k] EXCEPT !.state = "End"] ELSE UpdateMessage[k]
    BY <1>2, PreparedIs
  <2>3. m.state # "Body"
    BY <1>6
  <2> HIDE DEF k
  <2> QED BY <2>1, <2>2, <2>3, Zenon
<1>10. BodyOf("chunked") = <<"d1", "d2">>
  BY DEF BodyOf
<1>11. IsWhole("chunked", m)
  BY <1>5, <1>6, <1>7, <1>10, Zenon DEF IsWhole
<1> QED BY <1>9, <1>11

(* A clean read takes a request from one cut to the next, or to its end.   *)
THEOREM CleanRead ==
  ASSUME NEW kind \in Kinds, NEW q \in Cuts[kind], NEW p \in 1 .. Len(Request[kind]),
         q < p, IsCleanCut(kind, p)
  PROVE  IF p = Len(Request[kind])
         THEN IsWhole(kind, Prepared(Partial(kind, q), Left(kind, q, p)))
         ELSE /\ p \in Cuts[kind]
              /\ Prepared(Partial(kind, q), Left(kind, q, p)) = Partial(kind, p)
<1>1. p = Len(Request[kind]) \/ p \in Cuts[kind]
  BY CleanCuts
<1>2. CASE p = Len(Request[kind])
  <2>1. CASE kind \in {"get", "closing"}
    BY <1>2, <2>1, ReadNoBody
  <2>2. CASE kind = "post"
    <3>1. p = 10
      BY <1>2, <2>2, PostText
    <3> QED BY <1>2, <2>2, <3>1, ReadBody
  <2>3. CASE kind = "chunked"
    <3>1. p = 20
      BY <1>2, <2>3, ChunkedText
    <3> QED BY <1>2, <2>3, <3>1, ReadChunks
  <2> QED BY <2>1, <2>2, <2>3, KindsAre
<1>3. CASE p # Len(Request[kind])
  <2>1. p \in Cuts[kind]
    BY <1>1, <1>3
  <2>2. CASE p < HeaderEnd[kind]
    BY <1>3, <2>1, <2>2, ReadHeader
  <2>3. CASE ~(p < HeaderEnd[kind])
    <3>1. p >= HeaderEnd[kind]
      <4>1. HeaderEnd[kind] \in Nat
        BY KindsAre DEF HeaderEnd
      <4> QED BY <2>3, <4>1
    <3>2. kind = "post" /\ p \in {8, 9}
      BY <2>1, <3>1, CutsOf
    <3> QED BY <1>3, <2>1, <3>2, ReadSome
  <2> QED BY <2>2, <2>3
<1> QED BY <1>2, <1>3

(* The beginning of a request, and a request that is not complete.         *)
LEMMA PartialFacts ==
  ASSUME NEW kind \in Kinds
  PROVE  /\ Partial(kind, 0) = NewMessage /\ 0 \in Cuts[kind]
         /\ \A q \in Cuts[kind] : Partial(kind, q).state # "End" /\ Partial(kind, q) \in Messages
<1>0. HeaderEnd[kind] \in Nat /\ HeaderEnd[kind] > 0 /\ (kind = "chunked" => HeaderEnd[kind] = 8)
  BY KindsAre DEF HeaderEnd
<1>1. 0 \in Cuts[kind]
  BY KindsAre DEF Cuts
<1>2. Partial(kind, 0) = NewMessage
  <2>1. Partial(kind, 0) = Reading(kind, 0, 0)
    BY <1>0 DEF Partial
  <2>2. Left(kind, 0, 0) = <<>>
    BY NothingLeft, TextType
  <2>3. LinesAt(0) = <<>> /\ LengthAt(kind, 0) = 0 /\ BodyAt(kind, 0) = <<>> /\ ChunkAt(kind, 0) = 0
        /\ IsChunkedAt(kind, 0) = FALSE /\ IsCloseAt(kind, 0) = FALSE /\ StateAt(kind, 0) = "Header"
    BY <1>0 DEF LinesAt, LengthAt, BodyAt, ChunkAt, IsChunkedAt, IsCloseAt, StateAt
  <2> QED BY <2>1, <2>2, <2>3, Zenon DEF Reading, NewMessage
<1>3. ASSUME NEW q \in Cuts[kind] PROVE Partial(kind, q).state # "End" /\ Partial(kind, q) \in Messages
  <2> DEFINE c == IF q < HeaderEnd[kind] THEN q ELSE HeaderEnd[kind]
  <2>1. c \in Nat /\ c <= q /\ q \in Nat /\ c <= HeaderEnd[kind] /\ q <= Len(Request[kind])
    <3>1. q \in {0, 3, 6, 8, 9} /\ q < Len(Request[kind])
      BY CutsOf
    <3> QED BY <1>0, <3>1, TextType
  <2>2. Partial(kind, q) = Reading(kind, c, q)
    BY DEF Partial
  <2> HIDE DEF c
  <2>3. StateAt(kind, c) # "End"
    BY <1>0, <2>1 DEF StateAt
  <2> QED BY <2>1, <2>2, <2>3, ReadingType, ReadingFields
<1> QED BY <1>1, <1>2, <1>3
=============================================================================
