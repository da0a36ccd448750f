----------------------------- MODULE Tokenizer -----------------------------
(***************************************************************************)
(* HybridTokenizer (src/src/llm/simple_tokenizer.cpp): reading the         *)
(* vocabulary's file, encoding a text, decoding a token.  The model was    *)
(* trained with src/script/tokenizer_basic.py, which writes that file: its *)
(* save_vocab, and its encode as reference, are at the end.                *)
(*                                                                         *)
(* A character is the sequence of its bytes in UTF-8.                      *)
(***************************************************************************)
EXTENDS Text

CONSTANTS
  Capitals,                  \* from upper-case to lower-case bytes
  Punctuation, Whitespace,   \* sets of bytes
  endoftext,                 \* "<|endoftext|>"
  VOCAB_SIZE                 \* words the script was told to keep

EOS == <<"<", "E", "O", "S", ">">>

-----------------------------------------------------------------------------
(* Where the loop over braces ends, begun at pos with one of them open:    *)
(* after the brace that closes it.                                         *)
Closing(content, pos) ==
  LET braces(b, i) == Cardinality({k \in pos .. i : content[k] = b})
      closed == {i \in pos .. Len(content) : braces("}", i) = braces("{", i) + 1}
  IN IF closed = {} THEN npos ELSE Least(closed) + 1

extract_object(content, key) ==
  LET search == <<Quote, key, Quote, ":", " ">>
      key_pos == find(content, search, 1)
      brace_pos == IF key_pos = npos THEN npos
                   ELSE find(content, <<"{">>, key_pos + Len(search))
      end == Closing(content, brace_pos + 1)
  IN IF brace_pos = npos \/ end = npos THEN <<>>
     ELSE SubSeq(content, brace_pos + 1, end - 2)

(* Mutant: the next quotation mark ends a string.                          *)
StringEndsNext(s, i) == {find(s, <<Quote>>, i + 1)} \ {npos}

(* The quotation marks that may end a string begun by the one at i: those  *)
(* between are escaped.                                                    *)
StringEnds(s, i) ==
  LET quotes == {j \in i + 1 .. Len(s) : s[j] = Quote}
      bare == {j \in quotes : s[j - 1] # Backslash}
  IN {j \in quotes : \A k \in bare : k >= j}

(* The two regular expressions, at one place: "key": 7 and "7": "word".    *)
StrKeyEnds(s, i) ==
  {j \in StringEnds(s, i) :
     OccursAt(s, j + 1, <<":", " ">>) /\ j + 3 <= Len(s) /\ s[j + 3] \in Decimals}

NumberAfter(s, i) == SubSeq(s, i, RunEnd(s, i, Decimals))

(* A backslash hides the next character, a quotation mark or a backslash   *)
(* that comes in its place; any other is lost and the backslash stays.     *)
unescape_json_string(s) ==
  LET char(i) == IF s[i] = Backslash /\ i < Len(s) /\ s[i + 1] \in {Quote, Backslash}
                   THEN s[i + 1] ELSE s[i]
      res[i \in 1 .. Len(s) + 2] ==
        IF i > Len(s) THEN <<>>
        ELSE <<char(i)>> \o res[IF s[i] = Backslash THEN i + 2 ELSE i + 1]
  IN res[1]

(* A map with one key more, unless it has it.                              *)
WithKey(map, key, value) ==
  [x \in DOMAIN map \cup {key} |-> IF x \in DOMAIN map THEN map[x] ELSE value]

(* The maps, with each match from a place on assigned in turn.             *)
StrKeys(s) ==
  LET map[i \in 1 .. Len(s) + 1] ==
        IF i > Len(s) THEN <<>>
        ELSE IF s[i] # Quote \/ StrKeyEnds(s, i) = {} THEN map[i + 1]
        ELSE LET j == Greatest(StrKeyEnds(s, i))
                 key == unescape_json_string(SubSeq(s, i + 1, j - 1)) IN
               WithKey(map[RunEnd(s, j + 3, Decimals) + 1], key, Value(NumberAfter(s, j + 3), 10))
  IN map[1]

IntKeys(s) ==
  LET map[i \in 1 .. Len(s) + 1] ==
        LET q == i + Len(NumberAfter(s, i + 1)) + 1 IN
          IF i > Len(s) THEN <<>>
          ELSE IF s[i] # Quote \/ q = i + 1 \/ ~OccursAt(s, q, <<Quote, ":", " ", Quote>>)
                    \/ StringEnds(s, q + 3) = {}
            THEN map[i + 1]
          ELSE LET j == Greatest(StringEnds(s, q + 3))
                   word == unescape_json_string(SubSeq(s, q + 4, j - 1)) IN
                 WithKey(map[j + 1], Value(NumberAfter(s, i + 1), 10), word)
  IN map[1]

(* The third expression, "name": 7, takes a single digit and undoes no     *)
(* escapes.                                                                *)
SpecialKeys(s) ==
  LET map[i \in 1 .. Len(s) + 1] ==
        LET j == find(s, <<Quote>>, i + 1) IN
          IF i > Len(s) THEN <<>>
          ELSE IF s[i] # Quote \/ j \in {npos, i + 1} \/ j \notin StrKeyEnds(s, i) THEN map[i + 1]
          ELSE WithKey(map[j + 4], SubSeq(s, i + 1, j - 1), Value(<<s[j + 3]>>, 10))
  IN map[1]

(* The first number after its key; 0 stands for what was there before.     *)
LoadedSize(content) ==
  LET search == <<Quote, "vocab_size", Quote, ":", " ">>
      vs_pos == find(content, search, 1)
      starts == {i \in vs_pos + Len(search) .. Len(content) : content[i] \in Decimals}
  IN IF vs_pos = npos \/ starts = {} THEN 0 ELSE Value(NumberAfter(content, Least(starts)), 10)

load_vocab(content) ==
  LET special == SpecialKeys(extract_object(content, "special_tokens"))
      id(token) == IF token \in DOMAIN special THEN special[token] ELSE -1
  IN [word_to_id |-> StrKeys(extract_object(content, "word_to_id")),
      id_to_word |-> IntKeys(extract_object(content, "id_to_word")),
      char_to_id |-> StrKeys(extract_object(content, "char_to_id")),
      id_to_char |-> IntKeys(extract_object(content, "id_to_char")),
      pad_id |-> id(<<"<PAD>">>), unk_id |-> id(<<"<UNK>">>),
      bos_id |-> id(<<"<BOS>">>), eos_id |-> id(EOS),
      char_start_id |-> id(<<"<CHAR_START>">>), char_end_id |-> id(<<"<CHAR_END>">>),
      vocab_size |-> LoadedSize(content)]

-----------------------------------------------------------------------------
to_lower(str) ==
  [i \in DOMAIN str |-> IF str[i] \in DOMAIN Capitals THEN Capitals[str[i]] ELSE str[i]]

(* What the loop of replace makes of the text from a position on.          *)
replace(str, from, to) ==
  LET result[pos \in 1 .. Len(str) + 1] ==
        LET hit == find(str, from, pos)
        IN IF hit = npos THEN From(str, pos)
           ELSE SubSeq(str, pos, hit - 1) \o to \o result[hit + Len(from)]
  IN result[1]

(* Punctuation is put between spaces, then words are split at whitespace.  *)
tokenize_words(text) ==
  LET spaced == FlattenSeq([i \in DOMAIN text |->
                  IF text[i] \in Punctuation THEN <<" ", text[i], " ">> ELSE <<text[i]>>])
      read(r, c) == IF c \in Whitespace
                      THEN [words |-> Append(r.words, r.token), token |-> <<>>]
                      ELSE [r EXCEPT !.token = Append(@, c)]
      end == FoldLeft(read, [words |-> <<>>, token |-> <<>>], spaced)
  IN SelectSeq(Append(end.words, end.token), LAMBDA token : token # <<>>)

(* Mutant: a character is one byte.                                        *)
MatchesByte(tokenizer, word, i) ==
  {n \in 1 .. 1 : SubSeq(word, i, i) \in DOMAIN tokenizer.char_to_id}

(* The lengths, of four bytes at most, of the characters that match at i.  *)
Matches(tokenizer, word, i) ==
  {n \in 1 .. 4 : /\ i + n - 1 <= Len(word)
                  /\ SubSeq(word, i, i + n - 1) \in DOMAIN tokenizer.char_to_id}

CharIds(tokenizer, word) ==
  LET ids[i \in 1 .. Len(word) + 1] ==
        IF i > Len(word) THEN <<>>
        ELSE IF Matches(tokenizer, word, i) = {} THEN <<tokenizer.unk_id>> \o ids[i + 1]
        ELSE LET n == Greatest(Matches(tokenizer, word, i))
                 char == SubSeq(word, i, i + n - 1) IN
               <<tokenizer.char_to_id[char] + Cardinality(DOMAIN tokenizer.word_to_id)>>
                 \o ids[i + n]
  IN ids[1]

encode_word_or_chars(tokenizer, word) ==
  IF word \in DOMAIN tokenizer.word_to_id THEN <<tokenizer.word_to_id[word]>>
  ELSE <<tokenizer.char_start_id>> \o CharIds(tokenizer, word) \o <<tokenizer.char_end_id>>

(* With add_special_tokens, its default.                                   *)
encode(tokenizer, text) ==
  LET words == tokenize_words(replace(to_lower(text), endoftext, EOS))
  IN <<tokenizer.bos_id>>
       \o FlattenSeq([i \in DOMAIN words |-> encode_word_or_chars(tokenizer, words[i])])
       \o <<tokenizer.eos_id>>

(* Of one token; an id without a word makes an empty one.                  *)
decode(tokenizer, id) ==
  <<" ">> \o (IF id \in DOMAIN tokenizer.id_to_word THEN tokenizer.id_to_word[id] ELSE <<>>)

-----------------------------------------------------------------------------
(* The reference.  A vocabulary is its words in the order of their         *)
(* frequency and its characters in theirs.                                 *)

special_tokens == << <<"<PAD>">>, <<"<UNK>">>, <<"<BOS>">>, EOS, <<"<CHAR_START>">>, <<"<CHAR_END>">> >>
pad_id == 0
unk_id == 1
bos_id == 2
eos_id == 3
char_start_id == 4
char_end_id == 5

AllWords(words) == special_tokens \o words

(* The trained tokenizer.                                                  *)
TrainedVocab(words, chars) ==
  LET toId(s) == [x \in ToSet(s) |-> SelectInSeq(s, LAMBDA y : y = x) - 1]
      fromId(s) == [id \in 0 .. Len(s) - 1 |-> s[id + 1]] IN
    [word_to_id |-> toId(AllWords(words)), id_to_word |-> fromId(AllWords(words)),
     char_to_id |-> toId(chars), id_to_char |-> fromId(chars),
     pad_id |-> pad_id, unk_id |-> unk_id, bos_id |-> bos_id, eos_id |-> eos_id,
     char_start_id |-> char_start_id, char_end_id |-> char_end_id,
     vocab_size |-> VOCAB_SIZE]

(* A quoted JSON string.                                                   *)
Quoted(s) ==
  <<Quote>> \o FlattenSeq([i \in DOMAIN s |->
                 IF s[i] \in {Quote, Backslash} THEN <<Backslash, s[i]>> ELSE <<s[i]>>])
    \o <<Quote>>

save_vocab(words, chars) ==
  LET id(i) == Numeral(i - 1, 10)
      toId(s) == FlattenSeq([i \in DOMAIN s |-> Quoted(s[i]) \o <<":", " ">> \o id(i) \o <<",">>])
      toWord(s) == FlattenSeq([i \in DOMAIN s |-> Quoted(id(i)) \o <<":", " ">> \o Quoted(s[i]) \o <<",">>])
      object(name, text) == <<Quote, name, Quote, ":", " ", "{">> \o text \o <<"}", ",">>
  IN <<"{">> \o object("word_to_id", toId(AllWords(words)))
       \o object("id_to_word", toWord(AllWords(words)))
       \o object("char_to_id", toId(chars))
       \o object("id_to_char", toWord(chars))
       \o <<Quote, "vocab_size", Quote, ":", " ">> \o Numeral(VOCAB_SIZE, 10) \o <<",">>
       \o object("special_tokens", toId(special_tokens)) \o <<"}">>

(* encode of the trained tokenizer, on characters: a word is a punctuation *)
(* character, or a run of others that no such character could be added to. *)
RefEncode(words, chars, text) ==
  LET vocab == TrainedVocab(words, chars)
      lower == [i \in DOMAIN text |-> to_lower(text[i])]
      marker == [i \in DOMAIN endoftext |-> <<endoftext[i]>>]
      marks == {i \in DOMAIN lower : OccursAt(lower, i, marker)}
      inMark(i) == \E m \in marks : i \in m + 1 .. m + Len(marker) - 1
      prepared == FlattenSeq([i \in DOMAIN lower |->
                    IF i \in marks THEN [k \in 1 .. 5 |-> <<EOS[k]>>]
                    ELSE IF inMark(i) THEN <<>> ELSE <<lower[i]>>])
      punct(i) == prepared[i][1] \in Punctuation
      inside(i) == i \in DOMAIN prepared /\ prepared[i][1] \notin Whitespace /\ ~punct(i)
      runEnd(i) == Least({j \in i .. Len(prepared) : ~inside(j + 1)})
      code(c) == IF c \in DOMAIN vocab.char_to_id
                   THEN vocab.char_to_id[c] + Cardinality(DOMAIN vocab.word_to_id) ELSE unk_id
      word(w) == IF FlattenSeq(w) \in DOMAIN vocab.word_to_id
                   THEN <<vocab.word_to_id[FlattenSeq(w)]>>
                   ELSE <<char_start_id>> \o [k \in DOMAIN w |-> code(w[k])] \o <<char_end_id>>
      at(i) == IF punct(i) THEN word(<<prepared[i]>>)
               ELSE IF inside(i) /\ ~inside(i - 1) THEN word(SubSeq(prepared, i, runEnd(i)))
               ELSE <<>>
  IN <<bos_id>> \o FlattenSeq([i \in DOMAIN prepared |-> at(i)]) \o <<eos_id>>
=============================================================================
