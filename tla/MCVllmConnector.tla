--------------------------- MODULE MCVllmConnector ---------------------------
EXTENDS VllmConnector

CONSTANTS a, b

\* Prompts that share prefixes, and equal blocks behind different ones.
MCPrompts == {<<a>>, <<a, b>>, <<a, b, b>>, <<b>>, <<b, a>>, <<a, a>>}
=============================================================================
