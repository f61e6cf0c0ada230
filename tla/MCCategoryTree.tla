---------------------------- MODULE MCCategoryTree ----------------------------
EXTENDS CategoryTree
CONSTANTS t, u, c1, c2, s1, s2

\* A domain and a subdomain of it.
MCSeeds == {[node |-> t, kind |-> "topic", parent |-> NoNode],
            [node |-> u, kind |-> "topic", parent |-> t]}

\* Two concepts under one topic, as CPI_ALL_ITEMS and CPI_CORE are.
MCSpecs == << [concept |-> c1, parent |-> u, series |-> s1],
              [concept |-> c2, parent |-> u, series |-> s2] >>
===============================================================================
