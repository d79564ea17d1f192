-------------------------------- MODULE Dict --------------------------------
(***************************************************************************)
(* What a/hash.c and a/bintree.c promise: a dictionary.  A put may fail    *)
(* and then changes nothing; NULL stands for "no value".                   *)
(***************************************************************************)
CONSTANTS Key, Val, NULL

VARIABLES
    dict,  \* dict[k]: the value of k, NULL when it has none
    done   \* the last call that returned, its arguments and its result

vars == <<dict, done>>

Init ==
    /\ dict = [k \in Key |-> NULL]
    /\ done = <<"init">>

Put(k, v) ==
    /\ dict' = [dict EXCEPT ![k] = v]
    /\ done' = <<"put", k, v>>

PutFail ==
    /\ done' = <<"failed put">>
    /\ UNCHANGED dict

Get(k) ==
    /\ done' = <<"get", k, dict[k]>>
    /\ UNCHANGED dict

Remove(k) ==
    /\ done' = <<"remove", k, dict[k]>>
    /\ dict' = [dict EXCEPT ![k] = NULL]

Delete(k) ==
    /\ done' = <<"delete", k>>
    /\ dict' = [dict EXCEPT ![k] = NULL]

Clean ==
    /\ done' = <<"clean">>
    /\ dict' = [k \in Key |-> NULL]

Next ==
    \/ \E k \in Key, v \in Val : Put(k, v)
    \/ PutFail
    \/ \E k \in Key : Get(k) \/ Remove(k) \/ Delete(k)
    \/ Clean

Spec == Init /\ [][Next]_vars
=============================================================================
