----------------------------- MODULE MCEmbeddings -----------------------------
(* A small catalog: a series and a concept, or two rows under one context. *)
EXTENDS Embeddings, TLC

CONSTANTS series, concept, geography, subdomain

OneOfEach == [r \in {series, concept} |-> IF r = series THEN 1 ELSE 2]
TheirContexts == [r \in {series, concept} |-> IF r = series THEN geography ELSE subdomain]

EmbeddingSymmetry == Permutations(Jobs) \cup Permutations(Names)
===============================================================================
