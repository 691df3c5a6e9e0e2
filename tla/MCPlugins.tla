----------------------------- MODULE MCPlugins ------------------------------
\* Instances of Plugins: every parser has the same broker, or its own;
\* one worker has two replies, the others have one.
EXTENDS PluginsProps, TLC

CONSTANTS b1, b2, p1, w1

OneBroker  == [p \in Parsers |-> b1]
TwoBrokers == [p \in Parsers |-> IF p = p1 THEN b1 ELSE b2]

\* With one broker the AMQP plugins are interchangeable.
Symmetry == Permutations(Parsers \ NetParsers)

TwoAndOne == [u \in Workers |-> IF u = w1 THEN 2 ELSE 1]
=============================================================================
