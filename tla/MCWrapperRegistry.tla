------------------------- MODULE MCWrapperRegistry -------------------------
(***************************************************************************)
(* Small repositories for WrapperRegistry: module 1 holds a wrapper of the *)
(* model, module 2 a wrapper of the wrapper, an agent or a script, and     *)
(* module 3 a script.  The second repository calls what the first defines, *)
(* and has a wrapper of its own under the name of the first module.  Name  *)
(* 4 is outside both; the org pack knows it.                               *)
(***************************************************************************)
EXTENDS WrapperRegistry, TLC

CONSTANTS home, guest, small, large

Call(callee, model) ==
    [method |-> 1, callee |-> callee, calls |-> 1, model |-> model,
     returned |-> TRUE, loop |-> FALSE, test |-> FALSE]

Def(kind, signals, body) ==
    [def |-> TRUE, kind |-> kind, signals |-> signals, ctor |-> FALSE,
     body |-> body]

Script(body) == [Def("function", 0, body) EXCEPT !.def = FALSE]

\* A wrapper of the model: with a model of its own, or with that of its caller.
Raw(model) == Def("function", 1, <<Call(LLM, model)>>)

\* A class with a method that calls the model and one that calls the first.
Client == [Def("class", 1, <<Call(LLM, Unset), [Call(1, Unset) EXCEPT !.method = 2]>>)
              EXCEPT !.ctor = TRUE]

Weak == Def("function", 1, <<[Call(LLM, small) EXCEPT !.test = TRUE]>>)

\* Two definitions that call each other.
Back == Def("function", 1, <<Call(2, small)>>)
Forth == Def("function", 1, <<Call(LLM, large), Call(1, large)>>)

Outside == Def("function", 1, <<Call(1, Unset)>>)

Agent == Def("function", 1, <<[Call(1, large) EXCEPT !.loop = TRUE]>>)

Built(inner, outer, user) == {<<i, o, u, None>> : i \in inner, o \in outer, u \in user}

OneRepo ==
    home :> LET users == {Script(<<Call(2, Unset), Call(1, large)>>), Script(<<Call(4, small)>>)}
            IN  Built({Raw(small), Raw(Param), Client, Weak, Back}, {Outside, Forth, Agent}, users)
                \cup Built({Raw(small)}, {Script(<<>>)}, users)

TwoRepos ==
    OneRepo @@
    guest :> Built({Raw(large)}, {None}, {Script(<<Call(1, Unset), Call(2, large)>>)})

Gateway ==
    [kind |-> "class", attribution |-> "passthrough", model |-> Unset, methods |-> {},
     ctor |-> FALSE, hash |-> None, source |-> "org_pack"]

MCOrgPack == <<None, None, None, Gateway>>
=============================================================================
