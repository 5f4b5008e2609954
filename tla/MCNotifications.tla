--------------------------- MODULE MCNotifications ---------------------------
(* Small instance of Notifications: two processes, two organizations that    *)
(* are the personal workspaces of the two users (the first user is in his,   *)
(* the second in none, with a URL saved before there were workspaces), one   *)
(* URL, two scans of one event or one scan retried on either process, two    *)
(* route sessions.                                                           *)
EXTENDS Notifications, TLC

CONSTANTS u1, u2, o1, o2, x

MCOrgs == {o1, o2}
MCUsers == {u1, u2}
MCPersonal == [u \in MCUsers |-> IF u = u1 THEN o1 ELSE o2]
MCAccounts == [u \in MCUsers |-> IF u = u1 THEN [org |-> o1, url |-> None] ELSE [org |-> None, url |-> x]]
MCKinds == <<"completed">>
MCAlerts == Scans \X {"completed"}
MCSymmetry == Permutations(Readers) \cup Permutations(Creators) \cup Permutations(Scans)
=============================================================================
