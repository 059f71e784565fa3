-------------------------- MODULE MCSglangConnector --------------------------
EXTENDS SglangConnector

CONSTANTS a, b

\* <<a, b>> whole and split behind <<a>>, a child below each, and a sibling.
MCPaths == {<< <<a, b>> >>, << <<a>> >>, << <<a>>, <<b>> >>, << <<a, b>>, <<a>> >>, << <<b>> >>}

MCPrompts == {<<a>>, <<a, b>>, <<a, b, a>>, <<b, a>>}
=============================================================================
