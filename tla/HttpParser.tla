----------------------------- MODULE HttpParser -----------------------------
(***************************************************************************)
(* The incremental parser of requests (http/http_parser.rl) with the       *)
(* callbacks by which HttpConnection collects a request (connection.cc).   *)
(*                                                                         *)
(* The input is a sequence of tokens, the smallest pieces that the grammar *)
(* below tells apart; it reaches http_parser_execute in segments that may  *)
(* end after any token.  A field that is being read is marked with the     *)
(* place where it begins in the segment.                                   *)
(***************************************************************************)
EXTENDS Integers, Sequences, SequencesExt

CONSTANTS
  MAX_FIELD_SIZE,
  Methods,         \* tokens for methods
  UriTokens,       \* tokens that may be in a path, a query or a fragment
  NameTokens       \* tokens that may be in a header's name

Versions == <<"HTTP/1.0", "HTTP/1.1">>
CRLF == "crlf"

\* A value for every field.
PerField(Op(_)) ==
  [header_field |-> Op("header_field"), header_value |-> Op("header_value"),
   uri |-> Op("uri"), path |-> Op("path"), query_string |-> Op("query_string"),
   fragment |-> Op("fragment")]
Unmarked == PerField(LAMBDA f : 0)
NoText == PerField(LAMBDA f : <<>>)
Fields == DOMAIN Unmarked

\* Zero for "0" and for what is no digit.
DigitValue(t) ==
  SelectInSeq(<<"1", "2", "3", "4", "5", "6", "7", "8", "9">>, LAMBDA d : d = t)
IsDigit(t) == t = "0" \/ DigitValue(t) > 0

\* RESET_PARSER.
ResetParser(P) ==
  [P EXCEPT !.chunk_size = 0, !.eating = FALSE, !.mark = Unmarked,
            !.method = "", !.chunked = FALSE, !.minor = 0, !.keep_alive = -1,
            !.content_length = 0]

\* http_parser_init.  name, value: what the state remembers of the current
\* header; line: header_line_complete is due; stop: fbreak; text, headers and
\* chunk: tmp_request_ with last_header_key_ and last_header_value_; done:
\* the requests completed in this call.
http_parser_init ==
  [cs |-> "request", error |-> FALSE, stop |-> FALSE, line |-> FALSE,
   name |-> <<>>, value |-> <<>>,
   mark |-> Unmarked, size |-> Unmarked,
   method |-> "", minor |-> 0, content_length |-> 0, keep_alive |-> -1,
   chunked |-> FALSE, chunk_size |-> 0, eating |-> FALSE,
   text |-> NoText, headers |-> <<>>, chunk |-> <<>>, done |-> <<>>]

-----------------------------------------------------------------------------
(* Marks and callbacks.                                                    *)

mark(P, f, p) == [P EXCEPT !.mark[f] = p, !.size[f] = 0]

\* append_field, append_value, append_uri, ...: the text of the fields due.
Appended(P, due, seg, p) ==
  PerField(LAMBDA f : P.text[f] \o (IF f \in due THEN SubSeq(seg, P.mark[f], p - 1)
                                    ELSE <<>>))

\* CALLBACK for the fields fs.
Callback(P, fs, seg, p) ==
  LET due == {f \in fs : P.mark[f] > 0}
  IN  IF P.error \/ \E f \in due : P.size[f] + p - P.mark[f] > MAX_FIELD_SIZE
      THEN [P EXCEPT !.error = TRUE]
      ELSE [P EXCEPT !.size = PerField(LAMBDA f : P.size[f] + (IF f \in due THEN p - P.mark[f]
                                                              ELSE 0)),
                     !.text = Appended(P, due, seg, p)]

\* The actions at the end of fields.
Leave(P, fs, seg, p) ==
  [Callback(P, fs, seg, p) EXCEPT !.mark = PerField(LAMBDA f : IF f \in fs THEN 0
                                                              ELSE P.mark[f])]

finish_header_line(P) ==
  IF ~P.line THEN P
  ELSE [P EXCEPT !.headers = Append(@, <<P.text["header_field"], P.text["header_value"]>>),
                 !.text["header_field"] = <<>>, !.text["header_value"] = <<>>,
                 !.line = FALSE]

http_parser_should_keep_alive(P) ==
  IF P.keep_alive = -1 THEN P.minor # 0 ELSE P.keep_alive = 1

\* END_REQUEST, with finish_parse up to the matching of the rule.
EndRequest(P) ==
  ResetParser(
    [P EXCEPT !.done = Append(@, [method |-> P.method, minor |-> P.minor,
                                  length |-> P.content_length,
                                  keep_alive |-> http_parser_should_keep_alive(P),
                                  uri |-> P.text["uri"], path |-> P.text["path"],
                                  query_string |-> P.text["query_string"],
                                  fragment |-> P.text["fragment"],
                                  headers |-> P.headers, chunk |-> P.chunk]),
              !.text = NoText, !.headers = <<>>, !.chunk = <<>>,
              !.cs = "request"])

\* A body with a length is left in the buffer.
body_logic(P) ==
  IF P.chunked THEN [P EXCEPT !.cs = "chunks"]
  ELSE [EndRequest(P) EXCEPT !.stop = P.content_length > 0]

-----------------------------------------------------------------------------
(* The grammar: the token at p in state cs.                                *)

HeaderEnds(P) ==
  [P EXCEPT !.keep_alive = CASE P.name # <<"Connection">> -> @
                             [] P.value = <<"close">> -> 0
                             [] P.value = <<"Keep-Alive">> -> 1
                             [] OTHER -> @,
            !.chunked = @ /\ ~(P.name = <<"Transfer-Encoding">>
                               /\ P.value = <<"identity">>),
            !.line = TRUE, !.cs = "headers"]

\* A token of a value; Content-Length counts as long as there are digits.
ValueToken(P, t) ==
  [P EXCEPT !.value = Append(@, t), !.cs = "in value",
            !.content_length =
              IF P.name = <<"Content-Length">> /\ IsDigit(t)
                   /\ \A i \in DOMAIN P.value : IsDigit(P.value[i])
              THEN 10 * @ + DigitValue(t) ELSE @]

Step(P, seg, p) ==
  LET t == seg[p]
      Go(Q, cs) == [Q EXCEPT !.cs = cs]
      left(fs) == Leave(P, fs, seg, p)
  IN  CASE P.cs = "request" /\ t \in Methods -> Go([P EXCEPT !.method = t], "method")
        [] P.cs = "method" /\ t = " " -> Go(P, "target")
        [] P.cs = "target" /\ t = "/" -> Go(mark(mark(P, "uri", p), "path", p), "path")
        [] P.cs \in {"path", "in query", "in fragment"} /\ t \in UriTokens -> P
        [] P.cs = "path" /\ t = "?" -> Go(left({"path"}), "query")
        [] P.cs = "query" /\ t \in UriTokens -> Go(mark(P, "query_string", p), "in query")
        [] P.cs = "fragment" /\ t \in UriTokens -> Go(mark(P, "fragment", p), "in fragment")
        [] P.cs \in {"path", "query", "in query"} /\ t \in {" ", "#"} ->
             Go(left({"query_string", "path", "uri"}),
                IF t = " " THEN "version" ELSE "fragment")
        [] P.cs \in {"fragment", "in fragment"} /\ t = " " ->
             Go(left({"fragment"}), "version")
        [] P.cs = "version" /\ Contains(Versions, t) ->
             Go([P EXCEPT !.minor = SelectInSeq(Versions, LAMBDA v : v = t) - 1], "eol")
        [] P.cs = "eol" /\ t = CRLF -> Go(P, "headers")
        [] P.cs = "headers" /\ t \in NameTokens ->
             [mark(finish_header_line(P), "header_field", p)
                EXCEPT !.name = <<t>>, !.value = <<>>, !.cs = "name"]
        [] P.cs = "headers" /\ t = CRLF -> body_logic(finish_header_line(P))
        [] P.cs = "name" /\ t \in NameTokens -> [P EXCEPT !.name = Append(@, t)]
        [] P.cs = "name" /\ t = ":" ->
             [left({"header_field"})
                EXCEPT !.chunked = @ \/ P.name = <<"Transfer-Encoding">>, !.cs = "value"]
        [] P.cs = "value" /\ t = " " -> P
        [] P.cs = "value" /\ t \notin {" ", CRLF} ->
             ValueToken(mark(P, "header_value", p), t)
        [] P.cs = "in value" /\ t # CRLF -> ValueToken(P, t)
        [] P.cs \in {"value", "in value"} /\ t = CRLF -> HeaderEnds(left({"header_value"}))
        [] P.cs \in {"chunks", "last"} /\ t = "0" -> Go(P, "last")
        [] (P.cs \in {"chunks", "last"} /\ DigitValue(t) > 0) \/ (P.cs = "size" /\ IsDigit(t)) ->
             Go([P EXCEPT !.chunk_size = 16 * @ + DigitValue(t)], "size")
        [] P.cs = "size" /\ t = CRLF -> Go(P, "data")
        [] P.cs = "chunk end" /\ t = CRLF -> Go(P, "chunks")
        [] P.cs = "last" /\ t = CRLF -> Go(P, "trailer")
        [] P.cs \in {"trailer", "trailer name"} /\ t \in NameTokens -> Go(P, "trailer name")
        [] P.cs = "trailer name" /\ t = ":" -> Go(P, "trailer value")
        [] P.cs = "trailer value" -> IF t = CRLF THEN Go(P, "trailer") ELSE P
        [] P.cs = "trailer" /\ t = CRLF -> EndRequest(P)
        [] OTHER -> Go(P, "error")

-----------------------------------------------------------------------------
(* http_parser_execute.                                                    *)

http_parser_has_error(P) == P.error \/ P.cs = "error"

\* SKIP_CHUNK_DATA of n tokens.
SkipChunkData(P, seg, p, n) ==
  [P EXCEPT !.chunk = @ \o SubSeq(seg, p, p + n - 1), !.chunk_size = @ - n,
            !.eating = P.chunk_size > n]

SmallerOf(a, b) == IF a < b THEN a ELSE b

\* Op(x), with x evaluated once.
Apply(Op(_), x) == CHOOSE y \in {Op(v) : v \in {x}} : TRUE

\* The token at m.at, or the chunk data from there on.
Advance(m, seg) ==
  LET n == SmallerOf(m.parser.chunk_size, Len(seg) - m.at + 1)
  IN  IF m.parser.cs = "data"
      THEN [parser |-> [SkipChunkData(m.parser, seg, m.at, n) EXCEPT !.cs = "chunk end"],
            at |-> m.at + n]
      ELSE Apply(LAMBDA Q : [parser |-> Q, at |-> IF Q.cs = "error" THEN m.at ELSE m.at + 1],
                 Step(m.parser, seg, m.at))

\* Until the segment ends, fbreak or an error.
RECURSIVE Exec(_, _)
Exec(m, seg) ==
  IF m.at > Len(seg) \/ m.parser.stop \/ http_parser_has_error(m.parser) THEN m
  ELSE Apply(LAMBDA next : Exec(next, seg), Advance(m, seg))

ForgetsMarks(P) == P

\* A field that is not finished goes on at the start of the segment.
MovesMarks(P) == [P EXCEPT !.mark = PerField(LAMBDA f : IF P.mark[f] = 0 THEN 0 ELSE 1)]

\* Every field that is not finished gets what the segment has of it.
Executed(r, seg) ==
  LET Q == Callback(r.parser, Fields, seg, r.at)
  IN  [parser |-> [Q EXCEPT !.stop = FALSE], consumed |-> IF Q.error THEN 0 ELSE r.at - 1]

http_parser_execute(P, seg) ==
  LET n == IF P.eating THEN SmallerOf(Len(seg), P.chunk_size) ELSE 0
      eaten == IF P.eating THEN SkipChunkData(P, seg, 1, n) ELSE P
  IN  Apply(LAMBDA r : Executed(r, seg),
            Apply(LAMBDA m : Exec(m, seg), [parser |-> MovesMarks(eaten), at |-> n + 1]))
=============================================================================
