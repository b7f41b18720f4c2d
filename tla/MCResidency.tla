----------------------------- MODULE MCResidency -----------------------------
EXTENDS Residency
CONSTANTS h1, h2, s0, s1, lead, scout, judge, big, small, own

\* lead and scout name one model file, judge another.
MCBackendOf == [r \in {lead, scout, judge} |-> IF r = judge THEN small ELSE big]
MCHostLoras == [n \in {own} |-> judge]
=============================================================================
