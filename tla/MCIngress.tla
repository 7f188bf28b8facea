------------------------------ MODULE MCIngress ------------------------------
(* IngressAnalysis for TLC: Ingresses with and without an address, and up to three *)
(* paths to two Services in every state of their links.                            *)
EXTENDS IngressAnalysis, MCPods

To(n, port) == [service |-> n, port |-> port]
Behind(n, p) == p @@ [service |-> n]

Serving == [external |-> FALSE, selects |-> TRUE, ports |-> {"http"}, ready |-> 1, notReady |-> 0]
Empty == [Serving EXCEPT !.ready = 0]
Partly == [Serving EXCEPT !.notReady = 1]

\* An Ingress that a controller serves, with these paths, Services and Pods.
Served(paths, first, second, pods) ==
  [address |-> TRUE, old |-> TRUE, class |-> "named", paths |-> paths,
   services |-> <<first, second>>, pods |-> pods, absent |-> {}]

\* Every way to have no address, with a path whose Service works and with none.
Classes ==
  {[Served(paths, Serving, Serving, <<>>) EXCEPT
      !.address = FALSE, !.old = old, !.class = kind, !.absent = absent] :
     paths \in {<<>>, <<To(0, "http"), To(1, "http")>>}, old \in BOOLEAN,
     kind \in {"named", "annotated", "none"}, absent \in {{}, {O("class")}}}

\* One or two Services in every state, two paths to one of them.
Chains ==
  {Served(<<To(2, "http"), To(1, "http"), To(1, "http")>>, first, Serving, pods) :
     first \in {Empty, Partly, [Empty EXCEPT !.external = TRUE, !.selects = FALSE],
                [Empty EXCEPT !.external = TRUE],
                [Empty EXCEPT !.selects = FALSE], [Empty EXCEPT !.notReady = 1]},
     pods \in {<<>>, <<Behind(1, Killed)>>}}
  \cup {Served(<<To(1, "http"), To(1, "grpc")>>, first, Serving, <<Behind(1, Unprobed)>>) :
          first \in {Serving, Empty}}
  \cup {Served(<<To(1, "http")>>, Empty, Serving, <<Behind(1, Unprobed), Behind(1, Unprobed)>>)}
  \cup {Served(<<To(2, "http"), To(1, "http")>>, Empty, Empty, pods) :
          pods \in {<<Behind(1, Killed)>>, <<Behind(1, Unprobed), Behind(2, Killed)>>}}

\* Objects that are not there.
Without ==
  {[Served(<<To(1, "http"), To(2, "http")>>, Serving, Partly, <<>>) EXCEPT !.absent = absent] :
     absent \in {{O("ingress")}, {<<"service", 1>>}, {O("discovery")},
                 {O("discovery"), <<"endpoints", 1>>}}}

MCScenarios == Classes \cup Chains \cup Without

MCVolatile == {<<"pods", 1>>, <<"endpoints", 1>>}
=============================================================================
