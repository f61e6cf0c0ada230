----------------------------- MODULE MCFredPreset -----------------------------
EXTENDS FredPreset, TLC
CONSTANTS i1, i2, t1, a, b, s

\* Two bootstraps on one day, the first of which may have been rolled back.
MCDayOf == (i1 :> 1) @@ (i2 :> 1)
\* A forecast of a later date with another value for what is stored, from a run
\* that may be gone by then; and two values for one key.
Row(p, d, v, run) == [key |-> <<s, p, d>>, row |-> [value |-> v, log |-> run]]
MCPosts == {<<Row(3, 2, b, Posted), Row(1, 1, b, i1)>>,
            <<Row(1, 1, b, t1), Row(1, 1, a, Posted)>>,
            <<Row(1, 1, b, Posted), Row(1, 1, a, Posted)>>}
MCAttempts == {i1, i2, t1, Posted}
===============================================================================
