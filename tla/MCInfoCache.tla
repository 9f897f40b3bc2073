---------------------------- MODULE MCInfoCache ----------------------------
(* Instances of InfoCache for TLC. *)
EXTENDS InfoCache, TLC

CONSTANTS A, B

(* Two classes that name each other, A with a second, scalar field. *)
MutualFields == (A :> <<{B}, {}>>) @@ (B :> <<{A}>>)
MutualRequests == {{A}, {B}}

(* The same through a tagged union. *)
UnionCycleFields == (A :> <<{A, B}>>) @@ (B :> <<{A}>>)
UnionCycleRequests == {{B}, {A, B}}

(* A recursive tagged union, and a field after it. *)
UnionFields == (A :> <<{A, B}, {}>>) @@ (B :> <<{}>>)
UnionRequests == {{A}, {A, B}}

(* One class with a scalar field. *)
OneField == (A :> <<{}>>)
OneRequest == {{A}}
=============================================================================
