---------------------------- MODULE MCTextPath ----------------------------
(* Texts for TLC: an alphabet with a capital, a character of two bytes,    *)
(* punctuation, a blank, and the symbols of the end-of-text marker.        *)
EXTENDS TextPath

E9 == <<"c3", "a9">>
MCCapitals == [A |-> "a"]
MCPunctuation == {".", ":", "{", "}", Quote}
MCWhitespace == {" ", LF}
MCEndoftext == <<"<", "|", ">">>
MCControl == [x \in {"01"} |-> <<"0", "0", "0", "1">>]

S(text) == [i \in DOMAIN text |-> <<text[i]>>]

VStory == [words |-> << <<"a">>, <<".">>, <<"a", "b">>, <<Quote>>, <<"a", "c3", "a9">> >>,
           chars |-> <<E9, <<Quote>>, <<".">>, <<"<">>, <<"a">>, <<"b">> >>]
VBraces == [words |-> << <<"{">>, <<"a">>, <<"}">>, <<":">>, <<"7">> >>,
            chars |-> << <<"a">>, <<"{">>, <<"}">>, <<"f0", "9f", "98", "80">> >>]

Client(message) ==
  [route |-> Process, has_length |-> TRUE, has_message |-> TRUE, message |-> message,
   max_tokens |-> <<12>>, message_first |-> TRUE, more |-> <<>>]

Short(n) == SeqOf({<<"a">>, <<"A">>, E9, <<".">>, <<" ">>}, n)
Others == {S(<<"a", "<", "|", ">", "b">>), S(<<"<", "|", ">", "<", "|", ">">>), S(<<"<", "|", " ">>),
           S(<<"b", "z", "a">>), S(<<"a", ":", "7">>), S(<<"message">>), S(<<"max_tokens">>),
           S(<<"a", LF, "01">>), S(<<"b", Quote, "b">>), S(<<"b", Backslash>>)}

StoryClients ==
  {Client(m) : m \in Short(4) \cup Others}
    \cup {[Client(S(m)) EXCEPT !.max_tokens = t, !.message_first = f, !.more = x] :
            m \in {<<>>, <<"b">>, <<"message">>, <<"max_tokens">>},
            t \in {<<>>, <<0>>, <<-3>>, <<99>>, <<100>>, <<-100>>, <<-101>>},
            f \in BOOLEAN, x \in {<<>>, <<"X", "X">>}}
    \cup {[Client(<<>>) EXCEPT !.route = r, !.has_length = l, !.has_message = FALSE] :
            r \in {Process, Ping, "GET /other"}, l \in BOOLEAN}

MCClients == [v \in {VStory, VBraces} |->
                IF v = VStory THEN StoryClients
                ELSE {Client(m) : m \in {S(<<"{", "7">>), << <<"f0", "9f", "98", "80">>, <<"}">> >>}}]
=============================================================================
