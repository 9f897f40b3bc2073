--------------------------- MODULE MCLookupTable ---------------------------
(* Instances of LookupTable for TLC. *)
EXTENDS LookupTable

CONSTANTS a, b, c, d, e

(* a, b and c share their lower bits, d and e share the last slot of every  *)
(* table; only the higher bits of b and c tell them apart.                  *)
MCHash == [s \in {a, b, c, d, e} |->
             CASE s = a -> 4 [] s = b -> 36 [] s = c -> 1028 [] s = d -> 15 [] s = e -> 47]

UpTo(n, S) == {T \in SUBSET S : T # {} /\ Cardinality(T) <= n}

(* Both ends of the integers, neighbours, and collisions modulo 4 and 8.    *)
MCIntDict == {[k \in T |-> k] : T \in UpTo(4, {-8, -7, -4, -1, 0, 1, 4, 7})}
MCStrDict == {[k \in T |-> k] : T \in UpTo(4, {a, b, c, d, e})}
MCFieldDict == UNION {{f \in [T -> 0..(Cardinality(T) - 1)] :
                          \A s, u \in T : f[s] = f[u] => s = u} : T \in UpTo(3, {a, b, c, d})}
MCAskedInt == -18..18
=============================================================================
