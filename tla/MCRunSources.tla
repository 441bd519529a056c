---------------------------- MODULE MCRunSources ----------------------------
(* Model values for checking RunSources: two accounts in one group, a code of each of two
   users, a binding of each account, one that repeats the other's code, and a question. *)
EXTENDS RunSources, TLC

CONSTANTS t1, t2, ann, bob, p1, p2, k1, k2, bindAnn, bindBob, stealBob, askBob, job1

MCSenderOf == [m \in {bindAnn, bindBob, stealBob, askBob} |-> IF m = bindAnn THEN ann ELSE bob]
MCCodeIn == [m \in {bindAnn, bindBob, stealBob, askBob} |->
                CASE m = bindBob -> k2 [] m = askBob -> None [] OTHER -> k1]
MCCodeUser == [k \in {k1, k2} |-> IF k = k1 THEN p1 ELSE p2]
MCJobUser == [j \in {job1} |-> p1]
MCWebSession == [u \in {p1, p2} |-> <<"web", u>>]

Symmetry == Permutations({t1, t2})
=============================================================================
