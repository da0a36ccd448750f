------------------------------ MODULE HttpText ------------------------------
(***************************************************************************)
(* HttpUtils (src/src/utils/http_utils.cpp): a JSON body is searched for   *)
(* its two fields, an answer is written as a response, its pieces as JSON  *)
(* in chunks.                                                              *)
(*                                                                         *)
(* ClientReads is the other end: what a client makes of a response by the  *)
(* rules of HTTP and of JSON strings.                                      *)
(***************************************************************************)
EXTENDS Text

CONSTANT
  Control   \* from control characters without an escape of their own to hex digits

KeyMaxTokens == <<Quote, "max_tokens", Quote>>
KeyMessage == <<Quote, "message", Quote>>

(* Mutant: the number is looked for after the body's first colon.          *)
MaxTokensColonFirst(jsonBody) == find(jsonBody, <<":">>, 1)

MaxTokensColon(jsonBody) ==
  find(jsonBody, <<":">>, find(jsonBody, KeyMaxTokens, 1))

(* Without max_tokens the number is looked for from the body's start, as   *)
(* npos + 1 is the first position.                                         *)
parseJsonMessage(jsonBody) ==
  LET colonPos == find(jsonBody, <<":">>, find(jsonBody, KeyMessage, 1))
      quoteStart == find(jsonBody, <<Quote>>, colonPos)
      quoteEnd == IF quoteStart = npos THEN npos
                  ELSE find(jsonBody, <<Quote>>, quoteStart + 1)
  IN [max_tokens |-> stoi(From(jsonBody, MaxTokensColon(jsonBody) + 1)),
      ok |-> quoteEnd # npos,
      message |-> IF quoteEnd = npos THEN <<>>
                  ELSE SubSeq(jsonBody, quoteStart + 1, quoteEnd - 1)]

-----------------------------------------------------------------------------
(* Those of backspace, form feed and tab are like the two of line ends.    *)
Escapes == [c \in {Quote, Backslash, CR, LF} |->
              CASE c = CR -> "r" [] c = LF -> "n" [] OTHER -> c]

(* Mutant: a backslash is passed on as it is.                              *)
EscapeNoBackslash(c) ==
  IF c \in DOMAIN Escapes \ {Backslash} THEN <<Backslash, Escapes[c]>>
  ELSE IF c \in DOMAIN Control THEN <<Backslash, "u">> \o Control[c]
  ELSE <<c>>

Escape(c) ==
  IF c \in DOMAIN Escapes THEN <<Backslash, Escapes[c]>>
  ELSE IF c \in DOMAIN Control THEN <<Backslash, "u">> \o Control[c]
  ELSE <<c>>

build_json_response_chunk(s, is_last) ==
  <<"{", Quote, "chunk", Quote, ":", Quote>> \o FlattenSeq([i \in DOMAIN s |-> Escape(s[i])])
    \o <<Quote, IF is_last THEN "is_last: true}" ELSE "is_last: false}">>

buildHttpChunk(data) == Numeral(Len(data), 16) \o CRLF \o data \o CRLF

final_chunk == <<"0">> \o CRLF \o CRLF

StatusLine(statusCode) == <<"HTTP/1.1 ">> \o Numeral(statusCode, 10) \o CRLF

buildHttpResponse(statusCode, body) ==
  StatusLine(statusCode) \o <<"Content-Length: ">> \o Numeral(Len(body), 10) \o CRLF
    \o <<"Connection: close">> \o CRLF \o CRLF \o body

buildHttpChunkedResponseHeader(statusCode) ==
  StatusLine(statusCode) \o <<"Transfer-Encoding: chunked">> \o CRLF \o CRLF

-----------------------------------------------------------------------------
(* The client.  A JSON string ends at the first quotation mark that is not *)
(* escaped.                                                                *)
Unescape(s) ==
  LET end == Len(s) + 1
      escaped(i) == CHOOSE c \in DOMAIN Escapes : Escapes[c] = s[i]
      coded(i) == CHOOSE c \in DOMAIN Control : Control[c] = SubSeq(s, i, i + 3)
      text[i \in 1 .. end] ==
        IF i = end \/ s[i] = Quote THEN <<>>
        ELSE IF s[i] # Backslash THEN <<s[i]>> \o text[i + 1]
        ELSE IF i + 5 < end /\ s[i + 1] = "u" THEN <<coded(i + 2)>> \o text[i + 6]
        ELSE IF i + 1 < end /\ \E c \in DOMAIN Escapes : Escapes[c] = s[i + 1]
          THEN <<escaped(i + 1)>> \o text[i + 2]
        ELSE <<"invalid">>
  IN text[1]

broken == [text |-> <<"broken">>, is_last |-> FALSE]

(* A chunk is a line with its size, as many bytes, and CR LF; one of size  *)
(* 0 is the last.                                                          *)
ReadChunks(s) ==
  LET chunks[i \in 1 .. Len(s) + 1] ==
        LET line == find(s, CRLF, i)
            size == Value(SubSeq(s, i, line - 1), 16)
            data == SubSeq(s, line + 2, line + 1 + size) IN
          IF line = npos \/ size \notin Nat \/ ~OccursAt(s, line + 2 + size, CRLF) THEN <<broken>>
          ELSE IF size = 0 THEN IF From(s, i) = final_chunk THEN <<>> ELSE <<broken>>
          ELSE <<[text |-> Unescape(From(data, 7)), is_last |-> Last(data) = "is_last: true}"]>>
                 \o chunks[line + size + 4]
  IN chunks[1]

(* A response in chunks, or with a length; the rest of what was received   *)
(* must be its body.                                                       *)
ClientReads(response) ==
  LET body == From(response, find(response, CRLF \o CRLF, 1) + 4)
      length == find(response, <<"Content-Length: ">>, 1) + 1
      chunked == find(response, <<"Transfer-Encoding: chunked">>, 1) # npos
  IN [status |-> Value(SubSeq(response, 2, RunEnd(response, 2, Decimals)), 10),
      content |-> IF chunked THEN ReadChunks(body)
                  ELSE IF Value(SubSeq(response, length, RunEnd(response, length, Decimals)), 10) = Len(body)
                    THEN body ELSE <<"broken">>]
=============================================================================
