-------------------------- MODULE MCPublishSession --------------------------
EXTENDS PublishSession
BothStreams == {"audio", "video"}
VideoOnly == {"video"}
NoStreams == {}
=============================================================================
