------------------------ MODULE MCConnectionManager ------------------------
(* Small instances of ConnectionManager: three sockets, enough for one to   *)
(* leave before and one to be skipped behind the place a broadcast is at,   *)
(* and the kinds of messages that do and do not serialise.                  *)
EXTENDS ConnectionManager

CONSTANTS s1, s2, s3, kilimo, b1, b2, memberAdded, contributionCreated

MCSockets == {s1, s2, s3}
MCChamas == {kilimo}
MCBroadcasts == {b1, b2}
MCMessages == {memberAdded, contributionCreated}
MCUnserialisable == {contributionCreated}
=============================================================================
