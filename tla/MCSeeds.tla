-------------------------------- MODULE MCSeeds --------------------------------
EXTENDS Seeds

Mode(only, reset, dry) == [only |-> only, reset |-> reset, dry |-> dry]
MCModes == {Mode(Targets, FALSE, FALSE), Mode(Targets, TRUE, FALSE),
            Mode({"geography_memberships"}, FALSE, FALSE), Mode({"geographies"}, TRUE, FALSE),
            Mode({"provider_catalogs"}, TRUE, FALSE), Mode({"providers", "provider_catalogs"}, FALSE, TRUE)}
===============================================================================
