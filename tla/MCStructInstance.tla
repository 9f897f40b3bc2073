-------------------------- MODULE MCStructInstance --------------------------
(* Instances of StructInstance for TLC. *)
EXTENDS StructInstance, TLC

CONSTANTS a1, a2, o1, o2, n1, list, tuple

Base == [nfields |-> 3, nkwonly |-> 2, defaults |-> <<>>, n_trailing_defaults |-> 0,
         factories |-> {}, renamed |-> {}, frozen |-> TRUE, cache_hash |-> FALSE,
         forbid_unknown_fields |-> FALSE, check_types_on_init |-> FALSE, post_init |-> FALSE]

(* Two keyword-only fields, the last one required.                          *)
KwOnly == [Base EXCEPT !.defaults = <<n1, NODEFAULT>>, !.forbid_unknown_fields = TRUE]
(* A required field between defaults, and a factory at the end.             *)
Mixed == [Base EXCEPT !.defaults = <<tuple, NODEFAULT, list>>, !.n_trailing_defaults = 1,
                      !.factories = {3}, !.renamed = {1, 3}, !.cache_hash = TRUE]
(* One field that is assigned to from everywhere.                           *)
Hooked == [Base EXCEPT !.nfields = 1, !.nkwonly = 0, !.defaults = <<list>>,
                       !.n_trailing_defaults = 1, !.factories = {1}, !.frozen = FALSE,
                       !.check_types_on_init = TRUE, !.post_init = TRUE]
Frozen == [Hooked EXCEPT !.frozen = TRUE, !.cache_hash = TRUE, !.defaults = <<n1>>,
                         !.factories = {}]

MCClass == {KwOnly, Mixed, Hooked, Frozen}
MCHooked == {Hooked}

Symmetry == Permutations({a1, a2}) \cup Permutations({o1, o2})
=============================================================================
