--------------------------- MODULE MC_GoldFeatures ---------------------------
EXTENDS GoldFeatures

MCDay == {"PASS", "PARTIAL"}
MCDemo == {"PASS"}
MCKinds == {"trade", "unpriced"}
MCAllKinds == AllKinds
MCQuotes == AllQuotes \ {[safe |-> FALSE, wide |-> TRUE]}
=============================================================================
