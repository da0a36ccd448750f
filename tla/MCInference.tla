---------------------------- MODULE MCInference ----------------------------
(* Small networks for TLC, with numbers modulo 13 that have no pattern.    *)
EXTENDS Inference

Scatter(x) == LET y == x % 997 IN (y * y * (y + 5) + 7 * y + x \div 5 + x \div 11) % P

MCExp == [x \in Num |-> (x * x + 3) % P]
MCErf == [x \in Num |-> Scatter(x + 2)]
MCSqrt == [x \in Num |-> 1 + (Scatter(x + 31) % (P - 1))]
MCSin == [pos \in 0 .. 3 |-> [pair \in 0 .. 1 |-> Scatter(3 * pos + 17 * pair)]]
MCCos == [pos \in 0 .. 3 |-> [pair \in 0 .. 1 |-> Scatter(7 * pos + 5 * pair + 1)]]
MCScale == [n \in {2, 4} |-> n + 1]

Order == FoldSet(LAMBDA name, names : Append(names, name), <<>>, Parameters)
Place(name) == CHOOSE i \in DOMAIN Order : Order[i] = name
Number(seed, name, i, j) == Scatter(97 * seed + 41 * Place(name) + 7 * i + 3 * j)
Checkpoint(seed) ==
  [name \in Parameters |->
     IF Len(Shape(name)) = 1 THEN Row(n_embd, LAMBDA i : Number(seed, name, i, 0))
     ELSE Matrix(Shape(name)[1], Shape(name)[2], LAMBDA i, j : Number(seed, name, i, j))]
MCCheckpoints == {Checkpoint(seed) : seed \in 1 .. 2}

MCFaults ==
  {[kind |-> "none"]}
    \cup {[kind |-> "lost", name |-> n] :
            n \in {<<"token_embedding.weight">>, <<0, "ln1.weight">>, <<0, 1, "key.weight">>}}
    \cup {[kind |-> "short", name |-> <<1, "ffwd.net.0.weight">>]}
    \cup {[kind |-> "spoiled", name |-> <<"ln_f.bias">>]}
    \cup {[kind |-> "reshaped", name |-> n] :
            n \in {<<"token_embedding.weight">>, <<1, "sa.proj.weight">>}}

\* as encode leaves them: between <BOS> and <EOS>
MCPrompts == {<<2, 3>>, <<2, 4, 3>>, <<2, 4, 1, 4, 3>>}
=============================================================================
