---------------------------- MODULE Transformer ----------------------------
(***************************************************************************)
(* The forward pass and the loading of weights (src/src/llm/               *)
(* transformer.cpp), as operators, beside the network the weights were     *)
(* trained in (src/script/transformer_tiny.py).                            *)
(*                                                                         *)
(* What the two must agree on is which number meets which: the server      *)
(* computes on flat arrays with indices of its own, the script on matrices.*)
(* So numbers are the integers modulo a prime P, with functions that may   *)
(* be any for those of analysis; rounding is left out.  A Tensor's data is *)
(* a sequence, item k of it is at place k + 1; a matrix of the script is a *)
(* sequence of rows.                                                       *)
(***************************************************************************)
EXTENDS Integers, Sequences, FiniteSetsExt

CONSTANTS
  vocab_size, n_embd, n_head, n_layer, max_context,
  P,                \* numbers are 0 .. P - 1
  Exp, Erf, Sqrt,   \* [Num -> Num]: exp, (1 + erf(x / sqrt 2)) / 2, sqrt(x + eps)
  Sin, Cos,         \* [position -> [pair of columns -> Num]]
  Scale             \* [size -> Num]: one divided by its square root

Num == 0 .. P - 1
head_size == n_embd \div n_head

ASSUME TransformerAssumption ==
  /\ vocab_size \in Nat \ {0} /\ n_embd \in Nat \ {0} /\ n_head \in Nat \ {0}
  /\ n_layer \in Nat /\ max_context \in Nat \ {0}
  /\ n_embd % 2 = 0 /\ n_embd % n_head = 0
  /\ P \in Nat \ {0, 1}
  /\ \A b \in Num \ {0} : \E c \in Num : (c * b) % P = 1   \* P is prime
  /\ Exp \in [Num -> Num] /\ Erf \in [Num -> Num] /\ Sqrt \in [Num -> Num]
  /\ Sin \in [0 .. max_context - 1 -> [0 .. n_embd \div 2 - 1 -> Num]]
  /\ Cos \in [0 .. max_context - 1 -> [0 .. n_embd \div 2 - 1 -> Num]]
  /\ Scale \in [{head_size, n_embd} -> Num]

(* A loop that adds up the items of a sequence.                            *)
Total(s) ==
  LET sum[k \in 0 .. Len(s)] == IF k = 0 THEN 0 ELSE sum[k - 1] + s[k]
  IN sum[Len(s)] % P

SumOver(n, term(_)) == Total([i \in 1 .. n |-> term(i - 1)])
Divide(a, b) == IF b = 0 THEN 0 ELSE CHOOSE c \in Num : (c * b) % P = a
Infinity == P   \* -Infinity is less than every number

(* data.resize(n) and a loop over it; SubSeq makes TLC compute it once.    *)
Vector(n, item(_)) == SubSeq([k \in 1 .. n |-> item(k - 1)], 1, n)
Item(data, k) == data[k + 1]
Fill(n, x) == Vector(n, LAMBDA k : x)

-----------------------------------------------------------------------------
(* load_weights.  An export is the lines of metadata.txt, cut into words,  *)
(* no two for one parameter, and the files, by parameter.                  *)

IsMatrix(line) == Len(line) = 5   \* name, shape of two, type, size
IsVector(line) == Len(line) = 4   \* name, shape of one, type, size
Size(line) == line[Len(line)]

(* The tensor is kept: the line is well-formed, the file is there and      *)
(* brings as many numbers as the line says.                                *)
Readable(export, line) ==
  /\ IsMatrix(line) \/ IsVector(line)
  /\ line[1] \in DOMAIN export.files
  /\ Len(export.files[line[1]]) >= Size(line)

Loaded(export, name) ==
  \E line \in export.metadata : line[1] = name /\ Readable(export, line)

Tensor(export, name) ==
  LET line == CHOOSE l \in export.metadata : l[1] = name /\ Readable(export, l)
  IN [shape |-> IF IsMatrix(line) THEN <<line[2], line[3]>> ELSE <<line[2]>>,
      data |-> SubSeq(export.files[name], 1, Size(line))]

(* set_weight, set_gamma, set_beta: what the constructor put there stays   *)
(* if there is no tensor of this name or its shape is another.             *)
Set(export, name, shape, initial) ==
  IF Loaded(export, name) /\ Tensor(export, name).shape = shape
    THEN Tensor(export, name).data ELSE initial

LinearWeight(export, name, in, out) == Set(export, name, <<out, in>>, Fill(out * in, 0))
LayerNormWeights(export, weight, bias) ==
  [gamma |-> Set(export, weight, <<n_embd>>, Fill(n_embd, 1)),
   beta |-> Set(export, bias, <<n_embd>>, Fill(n_embd, 0))]

(* Parameters have the names of the script: of the network, of a block, of *)
(* a head in a block.                                                      *)
HeadWeights(export, l, h) ==
  [key |-> LinearWeight(export, <<l, h, "key.weight">>, n_embd, head_size),
   query |-> LinearWeight(export, <<l, h, "query.weight">>, n_embd, head_size),
   value |-> LinearWeight(export, <<l, h, "value.weight">>, n_embd, head_size)]

BlockWeights(export, l) ==
  [ln1 |-> LayerNormWeights(export, <<l, "ln1.weight">>, <<l, "ln1.bias">>),
   ln2 |-> LayerNormWeights(export, <<l, "ln2.weight">>, <<l, "ln2.bias">>),
   fc1 |-> LinearWeight(export, <<l, "ffwd.net.0.weight">>, n_embd, 4 * n_embd),
   fc2 |-> LinearWeight(export, <<l, "ffwd.net.2.weight">>, 4 * n_embd, n_embd),
   heads |-> Vector(n_head, LAMBDA h : HeadWeights(export, l, h)),
   proj |-> LinearWeight(export, <<l, "sa.proj.weight">>, n_embd, n_embd)]

load_weights(export) ==
  [embedding |-> Set(export, <<"token_embedding.weight">>, <<vocab_size, n_embd>>,
                     Fill(vocab_size * n_embd, 0)),
   blocks |-> Vector(n_layer, LAMBDA l : BlockWeights(export, l)),
   ln_f |-> LayerNormWeights(export, <<"ln_f.weight">>, <<"ln_f.bias">>),
   lm_head |-> LinearWeight(export, <<"lm_head.weight">>, n_embd, vocab_size)]

-----------------------------------------------------------------------------
(* Transformer::forward; seq is the number of tokens.                      *)

EmbeddingForward(weight, ids) ==
  Vector(Len(ids) * n_embd,
         LAMBDA k : Item(weight, Item(ids, k \div n_embd) * n_embd + (k % n_embd)))

(* The constructor's table, sine and cosine in turn.                       *)
SinusoidalGlobalPE ==
  Vector(max_context * n_embd,
         LAMBDA k : LET pos == k \div n_embd
                        pair == (k % n_embd) \div 2
                    IN IF k % 2 = 0 THEN Sin[pos][pair] ELSE Cos[pos][pair])

AddVectors(x, y) == Vector(Len(x), LAMBDA k : (Item(x, k) + Item(y, k)) % P)

LayerNormForward(ln, x, seq) ==
  LET Mean(t) == Divide(SumOver(n_embd, LAMBDA c : Item(x, t * n_embd + c)), n_embd % P)
      mean == Vector(seq, Mean)
      Diff(t, c) == (Item(x, t * n_embd + c) - Item(mean, t)) % P
      stddev == Vector(seq, LAMBDA t :
        Sqrt[Divide(SumOver(n_embd, LAMBDA c : Diff(t, c) * Diff(t, c)), n_embd % P)])
  IN Vector(seq * n_embd, LAMBDA k :
       (Divide(Diff(k \div n_embd, k % n_embd), Item(stddev, k \div n_embd))
          * Item(ln.gamma, k % n_embd) + Item(ln.beta, k % n_embd)) % P)

LinearForward(weight, in, out, x, seq) ==
  Vector(seq * out, LAMBDA k :
    SumOver(in, LAMBDA i : Item(x, (k \div out) * in + i) * Item(weight, (k % out) * in + i)))

(* Mutant: the mask begins one place late.                                 *)
IsMaskedLate(t1, t2) == t2 > t1 + 1

(* The causal mask: t2 from t1 + 1.                                        *)
IsMasked(t1, t2) == t2 > t1

Scores(q, k, seq) ==
  Vector(seq * seq, LAMBDA i :
    IF IsMasked(i \div seq, i % seq) THEN -Infinity
    ELSE (SumOver(head_size, LAMBDA h : Item(q, (i \div seq) * head_size + h)
                                      * Item(k, (i % seq) * head_size + h))
            * Scale[head_size]) % P)

SoftmaxRows(score, seq) ==
  LET max_val == Vector(seq, LAMBDA t1 : Max({Item(score, t1 * seq + t2) : t2 \in 0 .. seq - 1}))
      expv == Vector(seq * seq, LAMBDA i :
        IF Item(score, i) = -Infinity THEN 0
        ELSE Exp[(Item(score, i) - Item(max_val, i \div seq)) % P])
      sum == Vector(seq, LAMBDA t1 : SumOver(seq, LAMBDA t2 : Item(expv, t1 * seq + t2)))
  IN Vector(seq * seq, LAMBDA i : Divide(Item(expv, i), Item(sum, i \div seq)))

WeightedSums(wei, v, seq) ==
  Vector(seq * head_size, LAMBDA i :
    SumOver(seq, LAMBDA t2 : Item(wei, (i \div head_size) * seq + t2)
                           * Item(v, t2 * head_size + (i % head_size))))

HeadForward(head, x, seq) ==
  LET k == LinearForward(head.key, n_embd, head_size, x, seq)
      q == LinearForward(head.query, n_embd, head_size, x, seq)
      v == LinearForward(head.value, n_embd, head_size, x, seq)
  IN WeightedSums(SoftmaxRows(Scores(q, k, seq), seq), v, seq)

MultiHeadForward(block, x, seq) ==
  LET head_out == Vector(n_head, LAMBDA h : HeadForward(Item(block.heads, h), x, seq))
      concat == Vector(seq * n_embd, LAMBDA k :
        LET h == (k % n_embd) \div head_size
            d == (k % n_embd) % head_size
        IN Item(Item(head_out, h), (k \div n_embd) * head_size + d))
  IN LinearForward(block.proj, n_embd, n_embd, concat, seq)

Gelu(x) == (x * Erf[x]) % P

FeedForwardForward(block, x, seq) ==
  LET hidden == LinearForward(block.fc1, n_embd, 4 * n_embd, x, seq)
  IN LinearForward(block.fc2, 4 * n_embd, n_embd,
                   Vector(Len(hidden), LAMBDA i : Gelu(Item(hidden, i))), seq)

BlockForward(block, x, seq) ==
  LET y == AddVectors(x, MultiHeadForward(block, LayerNormForward(block.ln1, x, seq), seq))
  IN AddVectors(y, FeedForwardForward(block, LayerNormForward(block.ln2, y, seq), seq))

forward(model, ids) ==
  LET seq == Len(ids)
      through[l \in 0 .. n_layer] ==
        IF l = 0 THEN AddVectors(EmbeddingForward(model.embedding, ids), SinusoidalGlobalPE)
        ELSE BlockForward(Item(model.blocks, l - 1), through[l - 1], seq)
  IN LinearForward(model.lm_head, n_embd, vocab_size,
                   LayerNormForward(model.ln_f, through[n_layer], seq), seq)

=============================================================================
