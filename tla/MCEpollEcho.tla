---------------------------- MODULE MCEpollEcho ----------------------------
(***************************************************************************)
(* One epoll client and one or two select or poll clients.  Three clients  *)
(* on two descriptors let accept fail and descriptors be reused.           *)
(***************************************************************************)
EXTENDS EpollEcho

CONSTANTS e1, s1, s2

OneEpoll   == {e1}
OneReply   == {s1}
TwoReply   == {s1, s2}
TwoKinds   == {e1, s1}
ThreeKinds == {e1, s1, s2}
=============================================================================
