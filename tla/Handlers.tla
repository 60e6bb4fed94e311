------------------------------ MODULE Handlers ------------------------------
(***************************************************************************)
(* HTTP requests as lists of external calls, the frame the models of the   *)
(* API handlers share.  One statement, transaction step or storage call is *)
(* one atomic step; anything may happen between two of them.  A request is *)
(* used once.  It holds the values its handler read so far in mem.         *)
(***************************************************************************)
EXTENDS Integers, Sequences, FiniteSets

CONSTANTS
    Requests,   \* API requests; bound: each is used once
    InFlight,   \* bound: requests under way at once
    MayFail,    \* whether calls may fail and requests may be cut short
    NoMem       \* what a request holds before it arrives and after it ends

ASSUME HandlersAssumption == InFlight \in Nat /\ MayFail \in BOOLEAN

VARIABLES
    proc,       \* the requests
    clean       \* history: no two requests have overlapped and none has failed

ReqsInit ==
    /\ proc = [q \in Requests |-> [op |-> "none", todo |-> <<>>, mem |-> NoMem]]
    /\ clean = TRUE

At(q, call) == proc[q].todo # <<>> /\ Head(proc[q].todo) = call
Busy(q) == proc[q].todo # <<>>
Quiet == \A q \in Requests : ~Busy(q)
Op(q) == proc[q].op
Mem(q) == proc[q].mem

\* q has the calls todo left and holds mem.
Goes(q, todo, mem) ==
    /\ proc' = [proc EXCEPT ![q] = [op |-> proc[q].op, todo |-> todo,
                                    mem |-> IF todo = <<>> THEN NoMem ELSE mem]]
    /\ clean' = clean

\* The call at hand is done; Keeps also remembers what it returned.
Keeps(q, mem) == Goes(q, Tail(proc[q].todo), mem)
Proceeds(q) == Keeps(q, proc[q].mem)
Ends(q) == Goes(q, <<>>, NoMem)

Arrives(q, op, todo, mem) ==
    /\ proc[q].op = "none"
    /\ Cardinality({p \in Requests : Busy(p)}) < InFlight
    /\ proc' = [proc EXCEPT ![q] = [op |-> op, todo |-> todo, mem |-> mem]]
    /\ clean' = (clean /\ Quiet)

\* The call at hand fails and its handler goes on without it.
Skips(q) ==
    /\ MayFail
    /\ proc' = [proc EXCEPT ![q].todo = Tail(@),
                            ![q].mem = IF Len(proc[q].todo) = 1 THEN NoMem ELSE @]
    /\ clean' = FALSE

\* A call fails and the handler answers with the error, or the client goes
\* away and every later call finds its context cancelled.
Aborts(q) ==
    /\ MayFail /\ Busy(q)
    /\ proc' = [proc EXCEPT ![q].todo = <<>>, ![q].mem = NoMem]
    /\ clean' = FALSE

ReqsType(Ops, Calls, Mems) ==
    /\ proc \in [Requests -> [op : Ops \cup {"none"}, todo : Seq(Calls),
                              mem : Mems \cup {NoMem}]]
    /\ clean \in BOOLEAN
==============================================================================
