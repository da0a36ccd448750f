-------------------------------- MODULE Text --------------------------------
(***************************************************************************)
(* std::string as the server uses it.  Text is a sequence of symbols: a    *)
(* byte, or a run of bytes nothing looks into, named by a string.          *)
(* Positions start at 1 and 0 is npos.                                     *)
(***************************************************************************)
EXTENDS Integers, FiniteSets, Sequences, SequencesExt

CONSTANT INT_MAX

Ints == -INT_MAX - 1 .. INT_MAX
npos == 0
Quote == "\""
Backslash == "\\"
CR == "\r"
LF == "\n"
CRLF == <<CR, LF>>

Digits == <<"0", "1", "2", "3", "4", "5", "6", "7", "8", "9",
            "a", "b", "c", "d", "e", "f">>
Decimals == {Digits[i] : i \in 1 .. 10}

Least(S) == CHOOSE n \in S : \A m \in S : n <= m
Greatest(S) == CHOOSE n \in S : \A m \in S : n >= m

OccursAt(s, i, sub) ==
  i + Len(sub) - 1 <= Len(s) /\ SubSeq(s, i, i + Len(sub) - 1) = sub

(* find, from a position that may itself be npos.                          *)
find(s, sub, from) ==
  LET hits == {i \in from .. Len(s) : s[i] = sub[1] /\ OccursAt(s, i, sub)}
  IN IF from = npos \/ hits = {} THEN npos ELSE Least(hits)

From(s, pos) == SubSeq(s, pos, Len(s))

(* The end of the run of symbols of S that starts at i; i - 1 if empty.    *)
RunEnd(s, i, S) ==
  LET stops == {j \in i .. Len(s) : s[j] \notin S}
  IN IF stops = {} THEN Len(s) ELSE Least(stops) - 1

(* The number that digits stand for, from the first one on.                *)
Value(s, base) ==
  LET digit(d) == SelectInSeq(Digits, LAMBDA x : x = d) - 1
      value[k \in 0 .. Len(s)] == IF k = 0 THEN 0 ELSE value[k - 1] * base + digit(s[k])
  IN value[Len(s)]

Numeral(n, base) ==
  LET last(k) == <<Digits[(k % base) + 1]>>
      numeral[k \in 0 .. n] == IF k < base THEN last(k) ELSE numeral[k \div base] \o last(k)
  IN numeral[n]

(* stoi; 0 stands for its exceptions, which every caller turns into 0.     *)
stoi(s) ==
  LET begin == RunEnd(s, 1, {" "}) + 1
      minus == begin <= Len(s) /\ s[begin] = "-"
      first == IF minus THEN begin + 1 ELSE begin
      value == Value(SubSeq(s, first, RunEnd(s, first, Decimals)), 10)
      number == IF minus THEN -value ELSE value
  IN IF number \in Ints THEN number ELSE 0
=============================================================================
