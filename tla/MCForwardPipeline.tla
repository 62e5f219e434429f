-------------------------- MODULE MCForwardPipeline --------------------------
(* An instance of ForwardPipeline for TLC: all graphs of three unary vertices, *)
(* or of a unary and a binary one, and some larger or ill-typed ones.          *)
EXTENDS ForwardPipeline

Op(from, to) == [inputs |-> from, outputs |-> to]
Tokens == Op("tokens", "tokens")

Vertex(ports, op, targets, destination) ==
  [ports |-> ports, contract |-> op,
   edges |-> [i \in DOMAIN targets |-> [port |-> targets[i], contract |-> destination]]]
Plain(ports, targets) == Vertex(ports, Tokens, targets, Tokens)

Targets == {<<>>, <<1>>, <<2>>, <<3>>, <<1, 2>>, <<1, 3>>, <<2, 3>>, <<2, 2>>}
Small == {<<Plain(<<1>>, a), Plain(<<2>>, b), Plain(<<3>>, c)>> : a, b, c \in Targets}
         \cup {<<Plain(<<1>>, a), Plain(ports, b)>> :
                 a, b \in Targets, ports \in {<<2, 3>>, <<2, 2>>, <<1, 2>>}}

Merge   == <<Plain(<<1>>, <<3>>), Plain(<<2>>, <<4>>), Plain(<<3, 4>>, <<>>)>>
Diamond == <<Plain(<<1>>, <<2, 3>>), Plain(<<2>>, <<5>>), Plain(<<3>>, <<4>>), Plain(<<4, 5>>, <<>>)>>
Embed   == Op("text", "tokens")
Picked == {
  <<>>, Merge, Diamond,
  <<Vertex(<<1>>, Embed, <<2>>, Tokens), Plain(<<2>>, <<>>)>>,
  <<Plain(<<1>>, <<2>>), Vertex(<<2>>, Embed, <<>>, Embed)>>,
  <<Vertex(<<1>>, Embed, <<2>>, Embed), Vertex(<<2>>, Embed, <<>>, Embed)>>}

MCGraphs == Small \cup Picked
=============================================================================
