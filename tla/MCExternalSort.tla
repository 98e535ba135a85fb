--------------------------- MODULE MCExternalSort ---------------------------
(***************************************************************************)
(* Small inputs for ExternalSort: all inputs of up to MaxSize values, and  *)
(* some of three chunks whose buffers fit.  And an input four times the    *)
(* memory: 68 values in 17, which leaves two values of each chunk after    *)
(* whole buffers, as 4 MiB in 1 MiB do.                                    *)
(***************************************************************************)
EXTENDS ExternalSort

CONSTANTS MaxSize

Shuffled == {[i \in 1..18 |-> ((i * k) % 3) + 1] : k \in {1, 2}}
              \cup {[i \in 1..18 |-> IF i > 8 THEN 1 ELSE 2]}

MCInputs == UNION {[1..n -> {1, 2}] : n \in 0..MaxSize} \cup Shuffled

ExampleValues == 0..67
ExampleInputs == {[i \in 1..68 |-> (i * 29) % 68]}
=============================================================================
