----------------------------- MODULE Knowledge -----------------------------
(***************************************************************************)
(* What joining promises about the list each host keeps: hosts learn, and  *)
(* forget only after a process died.  A fact is one version of a node.     *)
(***************************************************************************)
EXTENDS Integers

CONSTANTS Host, Fact

VARIABLES
    seen,      \* facts some host ever generated
    known,     \* facts in each host's list
    calm       \* no process has died

vars == <<seen, known, calm>>

\* Every fact of `facts' is in `by', in this or a later version.
CoveredBy(facts, by) ==
    \A f \in facts : \E g \in by : g.id = f.id /\ g.node_count >= f.node_count

Init ==
    /\ seen = {} /\ calm = TRUE
    /\ known = [h \in Host |-> {}]

\* A host generates a node, or a later version of its own.
Appear ==
    /\ seen \subseteq seen' /\ seen' \subseteq Fact
    /\ UNCHANGED <<known, calm>>

\* Only the list of h changes, and only to facts that exist.
Rewrites(h) == known'[h] \subseteq seen /\ known' = [known EXCEPT ![h] = known'[h]]

Learn(h) ==
    /\ Rewrites(h) /\ CoveredBy(known[h], known'[h])
    /\ UNCHANGED <<seen, calm>>

Forget(h) == Rewrites(h) /\ ~calm' /\ UNCHANGED seen

Next == Appear \/ \E h \in Host : Learn(h) \/ Forget(h)

Spec == Init /\ [][Next]_vars
=============================================================================
