------------------------------ MODULE MCService ------------------------------
(* ServiceAnalysis for TLC: Services of every kind, up to three Pods with    *)
(* every mix of a few troubles, and endpoints that agree with them or not.   *)
EXTENDS ServiceAnalysis, MCPods

\* Pods that all name the port "http".
Behind(pods) == [i \in DOMAIN pods |-> pods[i] @@ [ports |-> {"http"}]]

PodLists == {<<>>, <<Up>>, <<Stuck(0), Stuck(1), Stuck(0)>>, <<Up, Unprobed, Unprobed>>,
             <<Killed, Revived, Killed>>, <<Looping, Unprobed, Killed>>}

MCScenarios ==
  {s \in [kind : {"ExternalName", "selector", "manual"}, targets : {{}, {"http", "grpc"}},
          ready : 0..1, notReady : 0..1,
          absent : {{}, {"service"}, {"discovery"}, {"discovery", "endpoints"}},
          pods : {Behind(l) : l \in PodLists}] :
     /\ s.kind # "selector" => s.pods = <<>>
     /\ s.absent # {} => Len(s.pods) <= 1
     /\ s.targets # {} => s.absent = {} /\ s.pods = Behind(<<Up>>)
     /\ Len(s.pods) = 3 => s.ready + s.notReady > 0}
=============================================================================
