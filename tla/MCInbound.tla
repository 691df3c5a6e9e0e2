----------------------------- MODULE MCInbound ------------------------------
\* Instances of Inbound.
EXTENDS InboundProps
=============================================================================
