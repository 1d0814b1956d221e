---------------------------- MODULE MCFramework ----------------------------
(***************************************************************************)
(* Repositories for FrameworkScan, each of two or three modules with two   *)
(* or three texts: one repository for each way the modules of an agentic   *)
(* program meet.                                                           *)
(***************************************************************************)
EXTENDS FrameworkScan, TLC

MCModuleOrder == <<"app", "lib", "web">>
MCSlug == [triage |-> "triage", writer |-> "writer", Writer |-> "writer", editor |-> "editor",
           plan |-> "plan", act |-> "act", stop |-> "stop", helper |-> "helper"]

Lit(s)        == [n |-> "lit", s |-> s]
Ref(m, x)     == [n |-> "ref", mod |-> m, var |-> x]
Client        == [n |-> "adapter", chat |-> FALSE, cls |-> "client", model |-> "", endpoint |-> ""]
Adapter(name) == [n |-> "adapter", chat |-> TRUE, cls |-> "azure", model |-> name, endpoint |-> "eu"]

Const(x, e)    == [c |-> "const", var |-> x, e |-> e]
Agent(x, name, model, tools, handoffs) ==
    [c |-> "agent", var |-> x, name |-> name, model |-> model, tools |-> tools, handoffs |-> handoffs]
Generic(x, kwargs, prompt, tools) ==
    [c |-> "generic", var |-> x, name |-> x, kwargs |-> kwargs, prompt |-> prompt, tools |-> tools]
Kwarg(role, e) == [role |-> role, e |-> e]
Mark(agent)    == [c |-> "mark", agent |-> agent]
Node(name, fn) == [c |-> "node", name |-> name, fn |-> fn]
Route(from, to, guard)   == [c |-> "route", from |-> from, to |-> to, guard |-> guard]
Task(agent, tools)       == [c |-> "task", agent |-> agent, tools |-> tools]
Crew(agents, managed)    == [c |-> "crew", agents |-> agents, hierarchical |-> managed]
Tools(tools)             == [c |-> "tools", tools |-> tools]
State                    == [c |-> "state"]
Server(x, label, asks)   == [c |-> "server", var |-> x, label |-> label, approval |-> asks]
Func(x, sink, effects, calls) ==
    [c |-> "def", var |-> x, sink |-> sink, wrapper |-> FALSE, effects |-> effects, calls |-> calls,
     tool |-> "", model |-> Lit("gpt")]
Wrapper(x)     == [Func(x, "sdk", {}, <<>>) EXCEPT !.wrapper = TRUE]
Decorated(x, effects, calls) == [Func(x, "none", effects, calls) EXCEPT !.tool = x]
ToolClass(x, effects) == [c |-> "class", var |-> x, tool |-> x, effects |-> effects, calls |-> <<>>, sink |-> "none"]

Text(imports, body) == [imports |-> imports, body |-> body]

(* Handoffs that wind between two modules, entrypoints in a third, tools   *)
(* and servers: the lines above an agent move, names and tools change.     *)
Handoffs ==
    [texts |->
        [app |-> {Text({"lib"}, <<Agent("t", "triage", <<Lit("gpt")>>, <<Ref("lib", "look")>>, <<Ref("lib", "w")>>)>>),
                  Text({"lib"}, <<State, Agent("t", "triage", <<Ref("lib", "model")>>, <<Ref("lib", "srv")>>,
                                               <<Ref("lib", "w"), Ref("lib", "e")>>)>>)},
         lib |-> {Text({"app"}, <<Func("look", "none", {"external_send"}, <<>>),
                                  Agent("w", "writer", <<Lit("gpt")>>, <<Ref("lib", "look")>>, <<Ref("lib", "e")>>),
                                  Agent("e", "editor", <<>>, <<>>, <<Ref("lib", "w"), Ref("app", "t")>>)>>),
                  Text({}, <<Const("model", Adapter("gpt")), Server("srv", "files", TRUE),
                             Agent("w", "writer", <<>>, <<Ref("lib", "srv")>>, <<>>)>>)},
         web |-> {Absent, Text({"app"}, <<Mark(Ref("app", "t"))>>), Text({"lib"}, <<Mark(Ref("lib", "w"))>>)}],
     configs |-> {{}, {"files", "mail"}}]

(* Nodes of a graph, promoted while their functions call a model, and the  *)
(* routes between them.                                                    *)
Nodes3 ==
    [texts |->
        [app |-> {Text({}, <<Func("plan", "sdk", {}, <<>>), Func("act", s, {}, <<>>), Node("plan", Ref("app", "plan")),
                             Node("", Ref("app", "act")), Route("plan", <<"act", "stop">>, "done"),
                             Route("act", <<"plan">>, "")>>) : s \in {"sdk", "embedding", "none"}}
                 \cup {Text({}, <<Func("act", "http", {}, <<>>), Node("", Ref("app", "act")),
                                  Node("plan", Ref("app", "act"))>>)},
         lib |-> {Text({}, <<Func("stop", "sdk", {}, <<>>)>>), Text({}, <<Func("stop", "http", {}, <<>>)>>)},
         web |-> {Text({}, <<Agent("w", "writer", <<Lit("gpt")>>, <<>>, <<>>),
                             Agent("e", "editor", <<Lit("gpt")>>, <<>>, <<>>),
                             Route("writer", <<"editor">>, "ok")>>),
                  Text({}, <<Agent("w", "writer", <<Lit("gpt")>>, <<>>, <<>>),
                             Route("writer", <<"editor", "writer">>, "")>>)}],
     configs |-> {{}}]

(* A crew and its tasks, tools that call helpers of other modules, and     *)
(* agents that no pack knows.                                              *)
Crews ==
    [texts |->
        [app |-> {Text({"lib"}, <<Task(Ref("lib", "w"), <<Ref("lib", "send")>>),
                                  Crew(<<Ref("lib", "w"), Ref("lib", "e"), Ref("lib", "w")>>, managed),
                                  Tools(<<Ref("lib", "send"), Ref("lib", "run")>>)>>) : managed \in BOOLEAN},
         lib |-> {Text({"web"}, <<Agent("w", "writer", <<Ref("web", "model")>>, <<>>, <<>>),
                                  Agent("e", "editor", <<>>, <<Ref("web", "run")>>, <<>>),
                                  Func("send", "none", {"external_send"}, <<Ref("web", "run"), Ref("web", "del")>>)>>),
                  Text({"web"}, <<Agent("w", "writer", <<>>, <<Ref("lib", "send")>>, <<>>),
                                  Decorated("send", {}, <<Ref("web", "run")>>), ToolClass("run", {"code_exec"})>>)},
         web |-> {Text({}, <<Const("model", e), Func("run", "none", {}, <<Ref("web", "del"), Ref("web", "run")>>),
                             Func("del", "none", {"admin_mutation"}, <<>>),
                             Generic("helper", <<Kwarg("other", Lit("other")), Kwarg("model", Ref("web", "model"))>>,
                                     TRUE, <<Ref("web", "run")>>)>>)
                  : e \in {Client, Adapter(""), Adapter("gpt")}}],
     configs |-> {{}}]

(* Modules that use the same names: agents of one name, in three modules   *)
(* and twice in one, and an entrypoint of that name.                       *)
Names ==
    [texts |->
        [app |-> {Text({}, <<Agent("w", "writer", <<Lit("gpt")>>, <<>>, <<>>)>>), Text({}, <<State>>)},
         lib |-> {Text({}, <<Agent("w", "Writer", <<Lit("gpt")>>, <<>>, <<>>),
                             Agent("v", "writer", <<>>, <<>>, <<Ref("lib", "w")>>)>>),
                  Text({}, <<State, Func("act", "sdk", {}, <<>>), Node("writer", Ref("lib", "act")),
                             Node("writer", Ref("lib", "act"))>>)},
         web |-> {Absent, Text({"lib"}, <<Agent("w", "writer", <<>>, <<>>, <<>>), Mark(Ref("web", "w"))>>)}],
     configs |-> {{}}]

(* Modules that hold the function behind another module's node, a helper   *)
(* that calls a model over HTTP, and a wrapper.                            *)
Helpers ==
    [texts |->
        [app |-> {Text({"lib"}, <<Node("plan", Ref("lib", "plan")), Agent("e", "editor", <<>>, <<Ref("lib", "act")>>, <<>>),
                                  Route("plan", <<"editor">>, "")>>),
                  Text({"lib"}, <<State, Node("plan", Ref("lib", "plan"))>>)},
         lib |-> {Text({}, <<Func("plan", "sdk", {}, <<>>), Func("act", "http", {}, <<>>)>>),
                  Text({}, <<Wrapper("plan"), Func("act", "none", {}, <<>>)>>)}],
     configs |-> {{}, {"files"}}]

(* For each condition of a separated tree a repository that lacks only it: *)
(* lib or web is carried while app changes, or the other way round.        *)
Beside(app, others) == [texts |-> [app |-> app] @@ others, configs |-> {{}}]
Moving(text) == {text, [text EXCEPT !.body = <<State>> \o @]}
Writers(name, other) ==
    Text({}, <<Func("act", "sdk", {}, <<>>), Node(name, Ref("lib", "act")), Node(other, Ref("lib", "act"))>>)
Senders(effects, other) == Text({}, <<Decorated("send", effects, <<>>), Decorated("send", other, <<>>)>>)

RemoteNode == Beside(Moving(Text({"lib"}, <<Node("plan", Ref("lib", "plan"))>>)),
                     [lib |-> {Text({}, <<Func("plan", "sdk", {}, <<>>)>>)}])
RemoteRoute == Beside({Text({}, <<State>>), Text({}, <<Agent("t", "triage", <<>>, <<>>, <<>>),
                                                       Agent("e", "editor", <<>>, <<>>, <<>>)>>)},
                      [web |-> {Text({}, <<Route("triage", <<"editor">>, "")>>)}])
ImportedCaller == Beside(Moving(Text({"lib"}, <<Agent("e", "editor", <<>>, <<Ref("lib", "act")>>, <<>>)>>)),
                         [lib |-> {Text({}, <<Func("act", "http", {}, <<>>)>>)}])
TwoSpellings == Beside(Moving(Text({}, <<>>)), [lib |-> {Writers("writer", "Writer"), Writers("Writer", "writer")}])
OneToolTwice == Beside(Moving(Text({}, <<>>)),
                       [lib |-> {Senders({}, {"code_exec"}), Senders({"code_exec"}, {})}])
WaitingWrapper == Beside(Moving(Text({}, <<>>)), [lib |-> {Text({}, <<Wrapper("plan")>>)}])

NotApart == {RemoteNode, RemoteRoute, ImportedCaller, TwoSpellings, OneToolTwice, WaitingWrapper}

MCRepositories == {Handoffs, Nodes3, Crews, Names, Helpers} \cup NotApart
SharedNames    == {Names}
=============================================================================
