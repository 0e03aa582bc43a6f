----------------------------- MODULE MCSandbox -----------------------------
(* Bounded instance of Sandbox: a bind mount with a virtual one below it.  *)
EXTENDS SandboxCalls, TLC

MCPath == {<<"a">>, <<"a", "b">>}

MCProbe == {<<>>, <<"a">>, <<"b">>, <<"a", "b">>, <<"a", "b", "a">>, <<"a", "a", "b">>}

MCMount == {[root |-> <<"a">>, host |-> <<"h">>, virtual |-> FALSE],
            [root |-> <<"a", "b">>, host |-> <<"g">>, virtual |-> TRUE]}

\* The tasks but the first are alike.
Alike == Permutations(Task \ {First})

\* After a disturbance the last of the calls is begun and not followed to its end.
Explored == disturbed => calls < MaxCalls
=============================================================================
