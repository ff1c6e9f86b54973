------------------------- MODULE MCAggregateSession -------------------------
EXTENDS AggregateSession
VideoOnly == {"video"}
NoChildren == {}
FirstChild == {1}
=============================================================================
