--------------------------- MODULE MCMessengerInput ---------------------------
EXTENDS MessengerInput

\* Cells: the default lets createStream's reply pass in one chunk and no other that
\* carries an object, the larger size all of them.
SomeSizes == {15, 24}
SomeStreams == {5}
SomeReplyIDs == {64}
TypeOne == {1}
HardAndSoft == {Hard, Soft}
SomeRefused == {"releaseStream"}
=============================================================================
