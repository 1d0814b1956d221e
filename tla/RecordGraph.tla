---------------------------- MODULE RecordGraph ----------------------------
(***************************************************************************)
(* From facts to the record: aiscan/graph/build.py and queries.py, the     *)
(* record of inventory/emit.py and what derive/engine.py derives from it.  *)
(*                                                                         *)
(* Facts come as a sequence.  An entity becomes a node of the graph, a     *)
(* binding an edge.  Of the record the agents are kept with their          *)
(* components and transfers, the usages, the MCP servers and the verdict;  *)
(* of what is derived the role, the capabilities that follow from the      *)
(* effects of tools, the tools in reach, and liveness.                     *)
(***************************************************************************)
EXTENDS FrameworkAgents

(***************************************************************************)
(* build_graph                                                             *)
(***************************************************************************)
Methods == <<"ctor", "declared", "mcp", "model", "promotion", "refs", "shape", "state", "task", "usage">>
Rank(f) == CHOOSE i \in DOMAIN Methods : Methods[i] = f.method

(* Of the facts with one id the first, in the order of their methods,      *)
(* gives the node its content; evidence, methods and files are united.     *)
Merged(facts, id) ==
    LET same  == {i \in DOMAIN facts : facts[i].k # "edge" /\ facts[i].id = id}
        first == CHOOSE i \in same : \A j \in same \ {i} :
                    Rank(facts[i]) < Rank(facts[j]) \/ (Rank(facts[i]) = Rank(facts[j]) /\ i < j)
    IN  [facts[first] EXCEPT !.ev = UNION {ToSet(facts[i].ev) : i \in same},
                             !.method = {facts[i].method : i \in same},
                             !.src = {facts[i].src : i \in same}]

Nodes(facts) ==
    [id \in {f.id : f \in {g \in ToSet(facts) : g.k # "edge"}} |-> Merged(facts, id)]
OfKind(nodes, kind) == {id \in DOMAIN nodes : nodes[id].k = kind}

AllEdges(nodes, edges) == edges
Joined(nodes, edges) == {e \in edges : {e.from, e.to} \subseteq DOMAIN nodes}

UsageEdges(nodes) ==
    {[type |-> "uses_model", from |-> id, to |-> nodes[id].model, guard |-> "", ev |-> nodes[id].ev]
     : id \in OfKind(nodes, "usage")}

(* Edges that lead nowhere are dropped, edges that differ in their         *)
(* evidence only are one.                                                  *)
Key(e) == [type |-> e.type, from |-> e.from, to |-> e.to, guard |-> e.guard]
GraphOf(nodes, edges) ==
    [nodes |-> nodes,
     edges |-> [key \in {Key(e) : e \in edges} |-> UNION {e.ev : e \in {x \in edges : Key(x) = key}}]]
Bound(facts) ==
    {[type |-> f.type, from |-> f.from, to |-> f.to, guard |-> f.guard, ev |-> ToSet(f.ev)]
     : f \in {g \in ToSet(facts) : g.k = "edge"}}
Graph(facts) ==
    LET nodes == Nodes(facts)
    IN  GraphOf(nodes, Joined(nodes, Bound(facts) \cup UsageEdges(nodes)))

Neighbours(graph, id, type) == {e.to : e \in {x \in DOMAIN graph.edges : x.from = id /\ x.type = type}}

(***************************************************************************)
(* build_record                                                            *)
(***************************************************************************)
(* A tool is called by its name, or by its module too if another has it.   *)
ToolRecordId(graph, id) ==
    LET same == {t \in OfKind(graph.nodes, "tool") : graph.nodes[t].name = graph.nodes[id].name}
    IN  IF same = {id} THEN <<graph.nodes[id].name>> ELSE Tail(id)

AgentRecord(graph, id) ==
    LET models == Neighbours(graph, id, "bind_model")
        Transfers(type) == {Tail(to) : to \in Neighbours(graph, id, type)}
    IN  [entry    |-> graph.nodes[id].entry,
         model    |-> IF models = {} THEN <<>> ELSE The(models),
         moreModels |-> Cardinality(models) > 1,
         tools    |-> {ToolRecordId(graph, t) : t \in Neighbours(graph, id, "bind_tool")},
         servers  |-> {Tail(s) : s \in Neighbours(graph, id, "bind_mcp")},
         handoffs |-> Transfers("transfer:handoff"),
         routes   |-> Transfers("transfer:route")]

(* The sinks counted are those of the modules that were analysed.          *)
Verdict(nodes, sinkCount) ==
    IF \E kind \in {"agent", "usage", "mcp"} : OfKind(nodes, kind) # {} THEN "ai_detected"
    ELSE IF sinkCount > 0 THEN "ai_detected" ELSE "ai_signals_only"

RecordOf(graph, sinkCount) ==
    LET Of(kind) == OfKind(graph.nodes, kind)
    IN  [graph   |-> graph,
         agents  |-> [r \in {Tail(id) : id \in Of("agent")} |-> AgentRecord(graph, <<"agent">> \o r)],
         effects |-> [r \in {ToolRecordId(graph, t) : t \in Of("tool")} |->
                        graph.nodes[CHOOSE t \in Of("tool") : ToolRecordId(graph, t) = r].effects],
         servers |-> {Tail(s) : s \in Of("mcp")},
         usages  |-> Of("usage"),
         verdict |-> Verdict(graph.nodes, sinkCount)]
Record(facts, sinkCount) == RecordOf(Graph(facts), sinkCount)

(***************************************************************************)
(* derive_record                                                           *)
(***************************************************************************)
HandoffsOf(agent) == Listed(agent.handoffs)
TransfersOf(agent) == Listed(agent.handoffs) \o Listed(agent.routes)

(* The agents that a work list reaches, each taken once.                   *)
Reach(agents, start) ==
    LET ids == DOMAIN agents \cup UNION {agents[a].handoffs \cup agents[a].routes : a \in DOMAIN agents}
        Next(a) == IF a \in DOMAIN agents THEN TransfersOf(agents[a]) ELSE <<>>
        seenAfter[work \in Seq(ids) \X SUBSET ids] ==
            LET stack == work[1]
                seen  == work[2]
                a     == Last(stack)
            IN  IF stack = <<>> THEN seen
                ELSE IF a \in seen THEN seenAfter[<<Front(stack), seen>>]
                ELSE seenAfter[<<Front(stack) \o Next(a), seen \cup {a}>>]
    IN  seenAfter[<<start, {}>>]

ReachableTools(agents, a) == UNION {agents[b].tools : b \in Reach(agents, <<a>>) \cap DOMAIN agents}
ReachedFromEntrypoints(agents) ==
    Reach(agents, Listed({a \in DOMAIN agents : agents[a].entry}))

Liveness(agents, a) ==
    IF agents[a].entry THEN "invoked"
    ELSE IF a \in ReachedFromEntrypoints(agents) THEN "reachable" ELSE "defined"

(* Handing off makes a supervisor, also of a router.                       *)
Role(agents, a) ==
    IF agents[a].handoffs # {} THEN "supervisor"
    ELSE IF agents[a].routes # {} THEN "router"
    ELSE IF \E b \in DOMAIN agents : a \in agents[b].handoffs \cup agents[b].routes THEN "worker"
    ELSE "solo"

CapabilityOf == [code_exec |-> "executes_code", admin_mutation |-> "mutates_identities",
                 external_send |-> "sends_external"]
Flags(record, a) ==
    {CapabilityOf[x] : x \in DOMAIN CapabilityOf \cap
                              UNION {record.effects[t] : t \in record.agents[a].tools \cap DOMAIN record.effects}}

AttachedAgents(record, s) == Cardinality({a \in DOMAIN record.agents : s \in record.agents[a].servers})

Derived(record) ==
    [agents |-> [a \in DOMAIN record.agents |->
                    [role |-> Role(record.agents, a), flags |-> Flags(record, a),
                     tools |-> ReachableTools(record.agents, a), liveness |-> Liveness(record.agents, a)]],
     orphanServers |-> {s \in record.servers : AttachedAgents(record, s) = 0}]
=============================================================================
