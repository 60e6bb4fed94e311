----------------------------- MODULE VersionLog -----------------------------
(***************************************************************************)
(* What versioned documents promise, whether they are API groups or        *)
(* database schemas: each has a log of versions numbered 1, 2, 3, ... that *)
(* only ever grows at its end and whose entries never change.              *)
(***************************************************************************)
EXTENDS Integers

CONSTANTS
    Docs,       \* the documents
    Values      \* what a version is a version of

VARIABLE log        \* the entries [doc, number, value]

Of(d) == {e \in log : e.doc = d}
Used(d) == {e.number : e \in Of(d)}

\* Some versions may be there already, numbered without a gap or a repetition.
Init ==
    /\ \A d \in Docs : \A e \in Of(d) :
          /\ e.number \in Nat \ {0} /\ (e.number = 1 \/ e.number - 1 \in Used(d))
          /\ \A f \in Of(d) : f.number = e.number => f = e
    /\ {e.value : e \in log} \subseteq Values

Append(d, v) ==
    \E n \in ({1} \cup {m + 1 : m \in Used(d)}) \ Used(d) :
        log' = log \cup {[doc |-> d, number |-> n, value |-> v]}

Next == \E d \in Docs, v \in Values : Append(d, v)

Spec == Init /\ [][Next]_log
==============================================================================
