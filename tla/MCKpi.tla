------------------------------- MODULE MCKpi -------------------------------
\* Two reps, two metrics worth everything or half, two recomputations.
EXTENDS Kpi, TLC

Drafts == {[weight |-> w, achieved |-> 100, near |-> 80] : w \in {50, 100}}
=============================================================================
