------------------------------ MODULE MCStores ------------------------------
(***************************************************************************)
(* Instances for TLC of three modules in which processes or threads meet   *)
(* at shared files: the state cache of a run, the records of changes with  *)
(* their index, and the evidence of the capture proxy.  They share nothing *)
(* with each other, so one of them moves and the others stay as they were. *)
(***************************************************************************)
EXTENDS ChangeLog, StateCache, Capture, TLC

VARIABLE part       \* the module that moves

MCSources == [r \in Run |-> IF r = "new" THEN <<"a", "b">> ELSE <<"c">>]
MCEvents == [f \in Log |-> CASE f = "a" -> 2 [] f = "b" -> 1 [] OTHER -> 0]

\* The processes that write the records ask, too.
Symmetry == Permutations(Writer)

MCPayload == [c |-> {<<>>, <<<<"0", "r">>>>, <<<<"0">>, <<"r">>>>}, d |-> {<<<<"a">>>>}]
MCFraming == [c |-> {"length", "chunked", "none"}, d |-> {"length"}]
MCTrailers == {<<>>, <<"t", "r", "n">>}
MCNumeral == [n \in 0..2 |-> ToString(n)]

StoresInit ==
    /\ part \in {"cache", "changes", "proxy"}
    /\ Init /\ CacheInit /\ ProxyInit

StoresNext ==
    \/ part = "cache" /\ CacheNext /\ UNCHANGED <<part, vars, proxy_vars>>
    \/ part = "changes" /\ Next /\ UNCHANGED <<part, cache_vars, proxy_vars>>
    \/ part = "proxy" /\ ProxyNext /\ UNCHANGED <<part, vars, cache_vars>>

StoresSpec == StoresInit /\ [][StoresNext]_<<part, vars, cache_vars, proxy_vars>>
=============================================================================
