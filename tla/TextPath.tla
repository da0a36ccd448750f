------------------------------ MODULE TextPath ------------------------------
(***************************************************************************)
(* The text of one request on its way: read from the socket in pieces of   *)
(* any size (readAndParseHttpRequest), searched for its fields             *)
(* (handleClient), encoded by a worker that has loaded its vocabulary      *)
(* (TinyLLM), and answered with the prompt and a token, or an error.       *)
(*                                                                         *)
(* The request line and the headers are one symbol: what they say is in    *)
(* the record client.  A vocabulary is its words and characters as they    *)
(* were saved.                                                             *)
(***************************************************************************)
EXTENDS HttpText, Tokenizer

CONSTANTS
  Clients,   \* from vocabularies to the sets of clients that come
  BUF        \* the size of the buffer given to recv

Process == "POST /process"
Ping == "GET /ping"
String == Seq(STRING)

(* What a client means: a request of the route, its fields, a message in   *)
(* characters, the number an option, and bytes after the body.             *)
Requests ==
  [route : STRING, has_length : BOOLEAN, has_message : BOOLEAN, message : Seq(String),
   max_tokens : Seq(Int), message_first : BOOLEAN, more : String]

ASSUME TextAssumption ==
  /\ INT_MAX \in Nat /\ BUF \in Nat \ {0} /\ VOCAB_SIZE \in Nat
  /\ \A c \in DOMAIN Control : c \in STRING /\ Control[c] \in String /\ Len(Control[c]) = 4
  /\ \A c, d \in DOMAIN Control : Control[c] = Control[d] => c = d
  /\ \A v \in DOMAIN Clients :
       /\ v.words \in Seq(String) /\ v.chars \in Seq(String)
       /\ \A c \in Clients[v] :
            c \in Requests /\ (c.route = Process => c.has_message \/ c.max_tokens # <<>>)

VARIABLES
  vocab,         \* the words and characters of the saved file
  tokenizer,     \* what the worker loaded
  client,        \* the request as the client means it
  stream,        \* bytes sent to the server and not received yet
  gone,          \* whether the client closed before it was answered
  stage,         \* where the request is
  headerBuffer, body, remaining,   \* locals of readAndParseHttpRequest
  request,       \* the fields found
  token_ids,     \* the worker's
  answer,        \* the pieces the worker sent
  reply          \* what the server has sent

vars == <<vocab, tokenizer, client, stream, gone, stage, headerBuffer, body,
          remaining, request, token_ids, answer, reply>>

reading == <<stream, gone, headerBuffer, body, remaining>>
answering == <<request, token_ids, answer, reply>>

(* The body a client writes: its fields in either order, the optional one  *)
(* a sequence of length one or none.                                       *)
JsonBody(c) ==
  LET Number(n) == IF n < 0 THEN <<"-">> \o Numeral(-n, 10) ELSE Numeral(n, 10)
      message == KeyMessage \o <<":", " ">> \o Quoted(FlattenSeq(c.message))
      max_tokens == KeyMaxTokens \o <<":", " ">> \o Number(c.max_tokens[1])
      fields == IF ~c.has_message THEN max_tokens
                ELSE IF c.max_tokens = <<>> THEN message
                ELSE IF c.message_first THEN message \o <<",", " ">> \o max_tokens
                ELSE max_tokens \o <<",", " ">> \o message
  IN IF c.route = Process THEN <<"{">> \o fields \o <<"}">> ELSE <<>>

(* With bytes after the body when the client is not waiting for an answer. *)
Sent(c) == <<"HEADERS">> \o CRLF \o CRLF \o JsonBody(c) \o c.more

NoClient == [route |-> "none"]

Init ==
  /\ vocab \in DOMAIN Clients
  /\ tokenizer = load_vocab(<<>>)   \* maps are empty, ids not looked at
  /\ client = NoClient
  /\ stream = <<>> /\ gone = FALSE
  /\ stage = "start"
  /\ headerBuffer = <<>> /\ body = <<>> /\ remaining = 0
  /\ request = [max_tokens |-> 0, ok |-> FALSE, message |-> <<>>]
  /\ token_ids = <<>>
  /\ answer = <<>> /\ reply = <<>>

Load ==
  /\ stage = "start"
  /\ tokenizer' = load_vocab(save_vocab(vocab.words, vocab.chars))
  /\ stage' = "accept"
  /\ UNCHANGED <<vocab, client, reading, answering>>

Connect ==
  /\ stage = "accept"
  /\ \E c \in Clients[vocab] : client' = c /\ stream' = Sent(c)
  /\ stage' = "headers"
  /\ UNCHANGED <<vocab, tokenizer, gone, headerBuffer, body, remaining, answering>>

(* The client closes the connection with only a part sent: the part that   *)
(* was received, as what is still on its way may be received before.       *)
GoAway ==
  /\ stage \in {"headers", "body"} /\ stream # <<>>
  /\ stream' = <<>>
  /\ gone' = TRUE
  /\ UNCHANGED <<vocab, tokenizer, client, stage, headerBuffer, body, remaining, answering>>

-----------------------------------------------------------------------------
(* recv returns n bytes of what the client sent.                           *)
Recv(n, most) ==
  /\ n <= Len(stream) /\ n <= most /\ n <= BUF
  /\ stream' = From(stream, n + 1)

(* The error responses handleClient sends; their text is one symbol.       *)
Refuse(code, text) == reply' = buildHttpResponse(code, <<text>>)

Invalid == Refuse(400, "Invalid HTTP request")

contentLength == IF client.has_length THEN Len(JsonBody(client)) ELSE 0

(* The headers are complete: the body is there, or in part, or the request *)
(* is refused for want of a length.                                        *)
HeadersEnd(buffer, available) ==
  /\ find(buffer, CRLF \o CRLF, 1) # npos
  /\ headerBuffer' = <<>>
  /\ \/ /\ ~client.has_length /\ client.route = Process
        /\ stage' = "failed" /\ Invalid
        /\ UNCHANGED <<body, remaining>>
     \/ /\ client.has_length \/ client.route # Process
        /\ Len(available) >= contentLength
        /\ body' = SubSeq(available, 1, contentLength)
        /\ stage' = "read"
        /\ UNCHANGED <<remaining, reply>>
     \/ /\ Len(available) < contentLength
        /\ body' = available
        /\ remaining' = contentLength - Len(available)
        /\ stage' = "body"
        /\ UNCHANGED reply

RecvHeaders(n) ==
  LET buffer == headerBuffer \o SubSeq(stream, 1, n)
      headerEnd == find(buffer, CRLF \o CRLF, 1) IN
    /\ stage = "headers"
    /\ Recv(n, BUF)
    /\ \/ /\ headerEnd = npos
          /\ headerBuffer' = buffer
          /\ UNCHANGED <<body, remaining, stage, reply>>
       \/ HeadersEnd(buffer, From(buffer, headerEnd + 4))
    /\ UNCHANGED <<vocab, tokenizer, client, gone, request, token_ids, answer>>

-----------------------------------------------------------------------------
(* Mutant: the buffer is filled whatever remains of the body.              *)
RecvBodyGreedy(n) ==
  /\ stage = "body"
  /\ Recv(n, BUF)
  /\ body' = body \o SubSeq(stream, 1, n)
  /\ remaining' = remaining - n
  /\ stage' = IF remaining' > 0 THEN "body" ELSE "read"
  /\ UNCHANGED <<vocab, tokenizer, client, gone, headerBuffer, answering>>

(* Mutant: one byte more is waited for.                                    *)
RecvBodyMore(n) ==
  /\ stage = "body"
  /\ Recv(n, remaining + 1)
  /\ body' = body \o SubSeq(stream, 1, n)
  /\ remaining' = remaining - n
  /\ stage' = IF remaining' >= 0 THEN "body" ELSE "read"
  /\ UNCHANGED <<vocab, tokenizer, client, gone, headerBuffer, answering>>

RecvBody(n) ==
  /\ stage = "body"
  /\ Recv(n, remaining)
  /\ body' = body \o SubSeq(stream, 1, n)
  /\ remaining' = remaining - n
  /\ stage' = IF remaining' > 0 THEN "body" ELSE "read"
  /\ UNCHANGED <<vocab, tokenizer, client, gone, headerBuffer, answering>>

(* recv returns 0: nothing more will come.                                 *)
RecvFails ==
  /\ stage \in {"headers", "body"}
  /\ gone /\ stream = <<>>
  /\ stage' = "failed" /\ Invalid
  /\ UNCHANGED <<vocab, tokenizer, client, reading, request, token_ids, answer>>

-----------------------------------------------------------------------------
(* handleClient after the request was read.                                *)
Handle ==
  /\ stage = "read"
  /\ \/ /\ client.route = Process
        /\ request' = parseJsonMessage(body)
        /\ \/ /\ request'.ok
              /\ reply' = buildHttpChunkedResponseHeader(200)
              /\ stage' = "parsed"
           \/ /\ ~request'.ok
              /\ Refuse(400, "Invalid JSON or missing message field")
              /\ stage' = "done"
     \/ /\ client.route # Process
        /\ stage' = "done"
        /\ IF client.route = Ping THEN Refuse(200, "ok") ELSE Refuse(404, "Endpoint not found")
        /\ UNCHANGED request
  /\ UNCHANGED <<vocab, tokenizer, client, reading, token_ids, answer>>

(* TinyLLM::init.                                                          *)
EncodePrompt ==
  /\ stage = "parsed"
  /\ token_ids' = IF request.message = <<>> THEN token_ids
                  ELSE encode(tokenizer, request.message)
  /\ stage' = "encoded"
  /\ UNCHANGED <<vocab, tokenizer, client, reading, request, answer, reply>>

(* The ids the model chooses from.                                         *)
TokenIds ==
  0 .. Cardinality(DOMAIN tokenizer.word_to_id) + Cardinality(DOMAIN tokenizer.char_to_id) - 1

ChunkOf(p) == buildHttpChunk(build_json_response_chunk(p.text, p.is_last))

(* The prompt comes back, then the word of one token, and the end.         *)
Reply ==
  /\ stage = "encoded"
  /\ \E id \in TokenIds :
       answer' = <<[text |-> request.message, is_last |-> FALSE],
                   [text |-> decode(tokenizer, id), is_last |-> TRUE]>>
  /\ reply' = reply \o ChunkOf(answer'[1]) \o ChunkOf(answer'[2]) \o final_chunk
  /\ stage' = "done"
  /\ UNCHANGED <<vocab, tokenizer, client, reading, request, token_ids>>

ReadStep == RecvFails \/ \E n \in 1 .. BUF : RecvHeaders(n) \/ RecvBody(n)

Next == Load \/ Connect \/ GoAway \/ ReadStep \/ Handle \/ EncodePrompt \/ Reply

Spec == Init /\ [][Next]_vars /\ WF_vars(ReadStep)

-----------------------------------------------------------------------------
(* load_vocab finds, by searching and by regular expressions, the maps the *)
(* training script saved as JSON.                                          *)
VocabLoaded ==
  stage # "start" => tokenizer = TrainedVocab(vocab.words, vocab.chars)

(* However recv cuts it, the body read is the body sent, no more, no less; *)
(* reading fails only if the client left or gave no length.                *)
ReadWhole ==
  /\ stage \in {"read", "parsed", "encoded"} => body = JsonBody(client)
  /\ stage = "failed" => gone \/ (client.route = Process /\ ~client.has_length)

(* Once bytes are sent reading comes to an end: no byte is waited for that *)
(* the client did not announce.                                            *)
ReadingEnds == stage = "headers" ~> stage \notin {"headers", "body"}

(* A text that JSON writes as it is.                                       *)
Plain(text) == Quote \notin ToSet(text) /\ Backslash \notin ToSet(text)

(* The fields found are the client's, whatever their order, and even when  *)
(* a message is the name of a field; a number missing or no int is 0,      *)
(* and a body without a message is refused.                                *)
FieldsAsSent ==
  /\ stage = "parsed" /\ Plain(FlattenSeq(client.message)) =>
       /\ request.message = FlattenSeq(client.message)
       /\ request.max_tokens =
            IF client.max_tokens = <<>> \/ client.max_tokens[1] \notin Ints THEN 0
            ELSE client.max_tokens[1]
  /\ stage = "done" /\ client.route = Process =>
       (ClientReads(reply).status = 200 <=> client.has_message)

(* A prompt of characters of the vocabulary gets the ids the model was     *)
(* trained with, although the worker matches bytes.                        *)
EncodesAsTrained ==
  stage = "encoded" /\ client.message # <<>> /\ Plain(FlattenSeq(client.message)) =>
    token_ids = RefEncode(vocab.words, vocab.chars, client.message)

(* A response reads, by the rules of HTTP and JSON, as what the worker     *)
(* sent, to the byte and no further, or as one error text.                 *)
ReplyReads ==
  /\ answer # <<>> => ClientReads(reply) = [status |-> 200, content |-> answer]
  /\ stage \in {"failed", "done"} /\ answer = <<>> =>
       ClientReads(reply).content \notin {<<>>, <<"broken">>}
=============================================================================
