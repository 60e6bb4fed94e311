---------------------------- MODULE MCBillingSync ----------------------------
\* Instances of BillingSync for TLC: syncs, tests and resources as model values.
EXTENDS BillingSync, TLC

BillingSymmetry == Permutations(Syncs) \cup Permutations(Tests)
                   \cup Permutations(Resources)
==============================================================================
