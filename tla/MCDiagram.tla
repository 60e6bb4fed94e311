------------------------------ MODULE MCDiagram ------------------------------
\* Instances of Diagram for TLC: contents, requests and workers as model values.
EXTENDS Diagram, TLC

DiagramSymmetry == Permutations(Contents) \cup Permutations(Requests)
                   \cup Permutations(Workers)
==============================================================================
