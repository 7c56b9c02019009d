--------------------------- MODULE MCRoundService ---------------------------
(***************************************************************************)
(* One epoll client and two select or poll clients on two descriptors:     *)
(* accept fails, and descriptors are used again.  The server's answer does *)
(* not depend on the message, so the counter of the epoll client stands.   *)
(***************************************************************************)
EXTENDS RoundService

CONSTANTS e1, s1, s2

OneEpoll   == {e1}
TwoReply   == {s1, s2}
ThreeKinds == {e1, s1, s2}
=============================================================================
