--------------------------- MODULE MCTopicManager ---------------------------
(* TopicManager on two or three producing threads and two topics.          *)
EXTENDS TopicManager

CONSTANTS p1, p2, p3, t1, t2

TwoProducers   == {p1, p2}
ThreeProducers == {p1, p2, p3}
OneName        == {t1}
TwoNames       == {t1, t2}
=============================================================================
