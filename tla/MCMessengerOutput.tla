--------------------------- MODULE MCMessengerOutput ---------------------------
EXTENDS MessengerOutput

\* NAL units: parameter sets, slices of a key frame and of another one, one of them
\* with two zeros inside.
Unit(long, nalu) == [long |-> long, nalu |-> nalu]
KeySample(long) == <<Unit(TRUE, <<103, 66, 192, 30>>), Unit(long, <<104, 206>>), Unit(long, <<101, 0, 0, 3>>)>>
SomeSamples == {KeySample(TRUE), KeySample(FALSE),
                <<Unit(FALSE, <<9>>)>> \o KeySample(TRUE),
                <<Unit(TRUE, <<65, 7>>), Unit(FALSE, <<65>>)>>}

\* In units of 1/128: 12.5, 1/2 and 13/128, which needs more places.
SomeRates == {1600, 64, 13}
SomeSizes == {11}
SomeIDs == {61, 317}
SomeStamps == {0, 16777215, 16777216}
BothCodecs == {"audioCodecs", "videoCodecs"}
=============================================================================
