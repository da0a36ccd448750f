-------------------------- MODULE TinyTransformer --------------------------
(***************************************************************************)
(* The network the weights come from (src/script/transformer_tiny.py), on  *)
(* matrices: a matrix is a sequence of rows.                               *)
(* Dropout is the identity once the model is trained.  A checkpoint gives  *)
(* a parameter's name a matrix or a vector.                                *)
(***************************************************************************)
EXTENDS Transformer, SequencesExt

Over(n, term(_)) == Total([i \in 1 .. n |-> term(i)])
Row(n, item(_)) == SubSeq([i \in 1 .. n |-> item(i)], 1, n)
Matrix(m, n, item(_, _)) == Row(m, LAMBDA i : Row(n, LAMBDA j : item(i, j)))

Plus(x, y) == Matrix(Len(x), n_embd, LAMBDA t, c : (x[t][c] + y[t][c]) % P)

nn_Linear(W, x) ==
  Matrix(Len(x), Len(W), LAMBDA t, o : Over(Len(W[o]), LAMBDA i : x[t][i] * W[o][i]))

nn_LayerNorm(weight, bias, x) ==
  LET Average(r) == Divide(Over(n_embd, LAMBDA c : r[c]), n_embd % P)
      Centered(r) == LET mu == Average(r) IN Row(n_embd, LAMBDA c : (r[c] - mu) % P)
      Normed(d) == LET sd == Sqrt[Average(Row(n_embd, LAMBDA c : d[c] * d[c]))]
                   IN Row(n_embd, LAMBDA c : (Divide(d[c], sd) * weight[c] + bias[c]) % P)
  IN Row(Len(x), LAMBDA t : Normed(Centered(x[t])))

sinusoidal_embeddings(T) ==
  Matrix(T, n_embd, LAMBDA t, c :
    IF c % 2 = 1 THEN Sin[t - 1][(c - 1) \div 2] ELSE Cos[t - 1][(c - 2) \div 2])

(* Token t attends to those up to itself.  The factor of the scores is a   *)
(* parameter of what follows, as the server has another than the script.   *)
ScoresOf(q, k, scale, t) ==
  Row(t, LAMBDA s : (Over(head_size, LAMBDA d : q[t][d] * k[s][d]) * scale) % P)

Softmax(r) ==
  LET top == Max({r[s] : s \in DOMAIN r})
      e == Row(Len(r), LAMBDA s : Exp[(r[s] - top) % P])
      sum == Over(Len(r), LAMBDA s : e[s])
  IN Row(Len(r), LAMBDA s : Divide(e[s], sum))

HeadOf(W, l, h, scale, x) ==
  LET k == nn_Linear(W[<<l, h, "key.weight">>], x)
      q == nn_Linear(W[<<l, h, "query.weight">>], x)
      v == nn_Linear(W[<<l, h, "value.weight">>], x)
      Attend(t) == LET wei == Softmax(ScoresOf(q, k, scale, t))
                   IN Row(head_size, LAMBDA d : Over(t, LAMBDA s : wei[s] * v[s][d]))
  IN Row(Len(x), Attend)

MultiHeadAttention(W, l, scale, x) ==
  LET out == Row(n_head, LAMBDA h : HeadOf(W, l, h - 1, scale, x))
      cat == Row(Len(x), LAMBDA t : FlattenSeq([h \in 1 .. n_head |-> out[h][t]]))
  IN nn_Linear(W[<<l, "sa.proj.weight">>], cat)

FeedForward(W, l, x) ==
  LET hidden == nn_Linear(W[<<l, "ffwd.net.0.weight">>], x)
  IN nn_Linear(W[<<l, "ffwd.net.2.weight">>],
               Matrix(Len(x), 4 * n_embd, LAMBDA t, c : Gelu(hidden[t][c])))

BlockOf(W, l, scale, x) ==
  LET y == Plus(x, MultiHeadAttention(W, l, scale,
                     nn_LayerNorm(W[<<l, "ln1.weight">>], W[<<l, "ln1.bias">>], x)))
  IN Plus(y, FeedForward(W, l, nn_LayerNorm(W[<<l, "ln2.weight">>], W[<<l, "ln2.bias">>], y)))

(* Logits, a row for every token.                                          *)
Network(W, scale, idx) ==
  LET tok_emb == Row(Len(idx), LAMBDA t : W[<<"token_embedding.weight">>][idx[t] + 1])
      x[l \in 0 .. n_layer] ==
        IF l = 0 THEN Plus(tok_emb, sinusoidal_embeddings(Len(idx)))
        ELSE BlockOf(W, l - 1, scale, x[l - 1])
  IN nn_Linear(W[<<"lm_head.weight">>],
               nn_LayerNorm(W[<<"ln_f.weight">>], W[<<"ln_f.bias">>], x[n_layer]))

(* The script's own factor: one by the square root of its width.           *)
TinyTransformer(W, idx) == Network(W, Scale[n_embd], idx)

-----------------------------------------------------------------------------
(* The parameters: of the network, of a block, of a head in a block.       *)

Layers == 0 .. n_layer - 1
OfHead == {"key.weight", "query.weight", "value.weight"}
OfNorm == {"ln1.weight", "ln1.bias", "ln2.weight", "ln2.bias"}
OfBlock == OfNorm \cup {"sa.proj.weight", "ffwd.net.0.weight", "ffwd.net.2.weight"}
Parameters ==
  {<<p>> : p \in {"token_embedding.weight", "ln_f.weight", "ln_f.bias", "lm_head.weight"}}
    \cup (Layers \X OfBlock)
    \cup (Layers \X (0 .. n_head - 1) \X OfHead)

(* The dimensions of a parameter: rows and columns, or one.                *)
Shape(name) ==
  CASE Last(name) \in OfNorm \cup {"ln_f.weight", "ln_f.bias"} -> <<n_embd>>
    [] Last(name) \in {"token_embedding.weight", "lm_head.weight"} -> <<vocab_size, n_embd>>
    [] Last(name) \in OfHead -> <<head_size, n_embd>>
    [] Last(name) = "sa.proj.weight" -> <<n_embd, n_embd>>
    [] Last(name) = "ffwd.net.0.weight" -> <<4 * n_embd, n_embd>>
    [] Last(name) = "ffwd.net.2.weight" -> <<n_embd, 4 * n_embd>>

(* The export of a checkpoint: train.ipynb writes a line and a file for    *)
(* every parameter, row after row.                                         *)
Numbers(shape) == IF Len(shape) = 1 THEN shape[1] ELSE shape[1] * shape[2]
MetadataLine(name) == <<name>> \o Shape(name) \o <<"float32", Numbers(Shape(name))>>
File(W, name) == IF Len(Shape(name)) = 1 THEN W[name] ELSE FlattenSeq(W[name])

Export(W) == [metadata |-> {MetadataLine(n) : n \in Parameters},
              files |-> [n \in Parameters |-> File(W, n)]]

(* A parameter as a constructor leaves it.                                 *)
Untrained(name) ==
  LET constant == IF Last(name) \in {"ln1.weight", "ln2.weight", "ln_f.weight"} THEN 1 ELSE 0
      shape == Shape(name)
  IN IF Len(shape) = 1 THEN Row(shape[1], LAMBDA i : constant)
     ELSE Matrix(shape[1], shape[2], LAMBDA i, j : constant)
=============================================================================
