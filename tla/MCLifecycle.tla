---------------------------- MODULE MCLifecycle ----------------------------
(* Creation and release over codes that agree and disagree in rate and     *)
(* length, share patterns, repeat them within one code, and together have  *)
(* more patterns than one code has edges.                                  *)
EXTENDS Lifecycle

\* K = 2, rate 1/3: four edges each.  `wide` adds patterns to those of
\* `plain`, `swapped` has those of `plain` in another order, `flat` repeats.
FewCodes ==
    [plain   |-> [K |-> 2, generators |-> <<{0}, {1}, {0, 1}>>],
     swapped |-> [K |-> 2, generators |-> <<{1}, {0}, {0, 1}>>],
     wide    |-> [K |-> 2, generators |-> <<{0}, {0}, {1}>>],
     flat    |-> [K |-> 2, generators |-> <<{0}, {0}, {0}>>],
     longer  |-> [K |-> 3, generators |-> <<{0}, {1}, {2}>>],
     faster  |-> [K |-> 2, generators |-> <<{0}, {1}>>]]

FewCalls ==
    [K : {1, 2, 9, 10}, generators : {<< >>, <<{0}, {1}>>}]

FewFamilies ==
    UNION {[1 .. k -> DOMAIN FewCodes \cup {Null}] : k \in 0 .. 2}
        \cup {<<a, b, c>> : a, b, c \in {"plain", "wide", "flat", Null}}

Channel(depth, drift, p_ins, p_erase) ==
    [decision_depth |-> depth, max_drift |-> drift, p_sub |-> 5,
     p_ins |-> p_ins, p_del |-> 1, p_erase |-> p_erase]

\* Accepted; refused by dv_decode_ctx_init; refused by dv_trellis_init.
FewParams ==
    {Channel(1, 1, 1, 0), Channel(0, 1, 1, 0), Channel(1, 1, 0, 0),
     Channel(1, 3, 1, 0)}

=============================================================================
