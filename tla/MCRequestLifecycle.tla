------------------------- MODULE MCRequestLifecycle -------------------------
\* Two requests, and applications whose chains put the kinds of middleware that
\* replace requests and writers into each other, on every dispatch path.
EXTENDS RequestLifecycle, TLC

Chains == {<<>>, <<"plain">>, <<"clone", "value">>, <<"value", "clone">>, <<"wrap">>,
           <<"recover", "value">>, <<"recover", "etag">>, <<"etag", "recover">>,
           <<"metrics", "bind">>, <<"log", "etag">>, <<"clone", "bind", "wrap">>,
           <<"recover", "plain", "metrics">>}

Application(global, route, group, dynamic, hooks, redirect) ==
    {[bridge |-> b, redirect |-> redirect, hooks |-> hooks, global |-> global,
      route |-> route, group |-> group, dynamic |-> dynamic] : b \in BOOLEAN}

\* Middleware of the application, of a route, of a group, and of both.
Applications ==
    UNION ({Application(c, <<>>, FALSE, FALSE, h, FALSE) : c \in Chains, h \in {{}, Phase}}
           \cup {Application(<<>>, c, FALSE, d, {}, c = <<>>) : c \in Chains, d \in BOOLEAN}
           \cup {Application(<<>>, c, TRUE, FALSE, {}, FALSE) : c \in Chains}
           \cup {Application(<<"etag">>, c, TRUE, FALSE, {}, FALSE) :
                    c \in {<<>>, <<"bind">>, <<"log">>, <<"plain">>}})

Symmetry == Permutations(Request) \cup Permutations(Ctx) \cup Permutations(Wrapper)
=============================================================================
