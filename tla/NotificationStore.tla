--------------------------- MODULE NotificationStore ---------------------------
(***************************************************************************)
(* The notifications table: SqliteNotificationRepository and the routes    *)
(* that read and mark notifications.  Each request has a session of its    *)
(* own and runs on a thread; a session reads a row once, decides on what   *)
(* it read, and writes without having locked anything in between.          *)
(*                                                                         *)
(* Times and texts are left out: is_read and read_at always change         *)
(* together.  An alert is the rest of the dedupe identity (dedupe_key and  *)
(* type; the scope target of an organization's notification is fixed).     *)
(***************************************************************************)
EXTENDS Naturals, Sequences, FiniteSets

CONSTANTS Orgs,         \* organizations
          Alerts,       \* dedupe keys
          Readers,      \* sessions of the routes
          Creators,     \* sessions of the in-app adapter
          None,         \* no organization, alert, URL, ...
          MaxRequests   \* bound: requests other than scans

ASSUME SessionsAssumption == Readers \cap Creators = {} /\ MaxRequests \in Nat

VARIABLES rows,         \* the table, in order of id
          sess,         \* the sessions
          requests,     \* requests made
          raced         \* history: rows others wrote since the session read them

storeVars == <<rows, sess, requests, raced>>

Sessions == Readers \cup Creators
Ids == DOMAIN rows
Row == [org: Orgs, alert: Alerts, read: BOOLEAN]

(* What a session was asked and how far it is.  "reply" is the notification *)
(* a create returns, or the is_read (as 0 or 1) or the count a route does.  *)
NoReply == [kind |-> "none", n |-> 0]
Idle == [step |-> "idle", org |-> None, alert |-> None,
         seen |-> {}, was |-> FALSE, asked |-> FALSE, reply |-> NoReply]
Steps == {"idle", "look", "insert", "requery", "decide", "refresh", "markall", "done"}
Session == [step: Steps, org: Orgs \cup {None}, alert: Alerts \cup {None}, seen: SUBSET Nat,
            was: BOOLEAN, asked: BOOLEAN, reply: [kind: {"none", "row", "state", "count", "failed"}, n: Nat]]

Same(org, alert) == {i \in Ids : rows[i].org = org /\ rows[i].alert = alert}
Of(s) == Same(sess[s].org, sess[s].alert)
UnreadOf(org) == {i \in Ids : rows[i].org = org /\ ~rows[i].read}

StoreTypeOK ==
    /\ rows \in Seq(Row)
    /\ sess \in [Sessions -> Session]
    /\ requests \in 0..MaxRequests
    /\ raced \in [Sessions -> SUBSET Nat]
    /\ \A s \in Sessions : sess[s].seen \cup raced[s] \subseteq Ids

StoreInit ==
    /\ rows = <<>>
    /\ sess = [s \in Sessions |-> Idle]
    /\ requests = 0
    /\ raced = [s \in Sessions |-> {}]

Answer(s, kind, n) ==
    sess' = [sess EXCEPT ![s].step = "done", ![s].reply = [kind |-> kind, n |-> n]]

Bit(b) == IF b THEN 1 ELSE 0

-----------------------------------------------------------------------------
(* create: look, insert, and on a conflict return the row that won.         *)

StartCreate(s, org, alert) ==
    sess' = [sess EXCEPT ![s] = [Idle EXCEPT !.step = "look", !.org = org, !.alert = alert]]

Look(s) ==
    /\ sess[s].step = "look"
    /\ \/ \E i \in Of(s) : Answer(s, "row", i)
       \/ Of(s) = {} /\ sess' = [sess EXCEPT ![s].step = "insert"]
    /\ UNCHANGED <<rows, requests, raced>>

(* Mutant: no unique constraint backs the look-up.                           *)
InsertAlways(s) ==
    /\ sess[s].step = "insert"
    /\ rows' = Append(rows, [org |-> sess[s].org, alert |-> sess[s].alert, read |-> FALSE])
    /\ Answer(s, "row", Len(rows) + 1)
    /\ UNCHANGED <<requests, raced>>

(* uq_notification_dedupe decides between two sessions that both found none. *)
(* What fails after the commit (refresh) is raised with the row stored.      *)
Insert(s) ==
    /\ sess[s].step = "insert"
    /\ \/ /\ Of(s) = {}
          /\ rows' = Append(rows, [org |-> sess[s].org, alert |-> sess[s].alert, read |-> FALSE])
          /\ Answer(s, "row", Len(rows) + 1) \/ Answer(s, "failed", 0)
       \/ /\ Of(s) # {}
          /\ sess' = [sess EXCEPT ![s].step = "requery"]
          /\ UNCHANGED rows
    /\ UNCHANGED <<requests, raced>>

Requery(s) ==
    /\ sess[s].step = "requery"
    /\ \E i \in Of(s) : Answer(s, "row", i)
    /\ UNCHANGED <<rows, requests, raced>>

(* Any other database error is rolled back and raised.                      *)
CreateFails(s) ==
    /\ sess[s].step \in {"look", "insert", "requery"}
    /\ Answer(s, "failed", 0)
    /\ UNCHANGED <<rows, requests, raced>>

CreateStep(s) == Look(s) \/ Insert(s) \/ Requery(s) \/ CreateFails(s)

-----------------------------------------------------------------------------
(* The routes.                                                              *)

Request(s) ==
    /\ sess[s].step = "idle" /\ requests < MaxRequests
    /\ requests' = requests + 1
    /\ raced' = [raced EXCEPT ![s] = {}]

(* PATCH: get_by_id reads the row; one of another organization is not found. *)
Patch(s, org, i, asked) ==
    /\ Request(s)
    /\ rows[i].org = org
    /\ sess' = [sess EXCEPT ![s] = [Idle EXCEPT !.step = "decide", !.org = org, !.seen = {i},
                                    !.was = rows[i].read, !.asked = asked]]
    /\ UNCHANGED rows

(* The rows in S are written by session s.                                  *)
Mark(s, S, read) ==
    /\ rows' = [i \in Ids |-> IF i \in S THEN [rows[i] EXCEPT !.read = read] ELSE rows[i]]
    /\ raced' = [t \in Sessions |-> IF t = s THEN raced[t] ELSE raced[t] \cup (S \cap sess[t].seen)]

(* Mutant: the unread branch is not committed.                               *)
DecideUncommitted(s) ==
    /\ sess[s].step = "decide"
    /\ IF sess[s].asked /\ ~sess[s].was
       THEN Mark(s, sess[s].seen, TRUE)
       ELSE UNCHANGED <<rows, raced>>
    /\ sess' = [sess EXCEPT ![s].step = "refresh"]
    /\ UNCHANGED requests

(* mark_read returns early, and a commit writes nothing, when the row as it *)
(* was read is already what was asked; the session still holds that row.    *)
Decide(s) ==
    /\ sess[s].step = "decide"
    /\ IF sess[s].asked # sess[s].was
       THEN Mark(s, sess[s].seen, sess[s].asked)
       ELSE UNCHANGED <<rows, raced>>
    /\ sess' = [sess EXCEPT ![s].step = "refresh"]
    /\ UNCHANGED requests

(* db.refresh reads the row again for the reply.                            *)
Refresh(s) ==
    /\ sess[s].step = "refresh"
    /\ \E i \in sess[s].seen : Answer(s, "state", Bit(rows[i].read))
    /\ UNCHANGED <<rows, requests, raced>>

(* POST mark-all-read.                                                      *)
FindUnread(s, org) ==
    /\ Request(s)
    /\ sess' = [sess EXCEPT ![s] = [Idle EXCEPT !.step = "markall", !.org = org,
                                    !.seen = UnreadOf(org)]]
    /\ UNCHANGED rows

MarkAll(s) ==
    /\ sess[s].step = "markall"
    /\ IF sess[s].seen # {} THEN Mark(s, sess[s].seen, TRUE) ELSE UNCHANGED <<rows, raced>>
    /\ Answer(s, "count", Cardinality(sess[s].seen))
    /\ UNCHANGED requests

(* The reply is sent and the session closed.  A request that fails part-way *)
(* is one that takes no further step: what it had committed stays.          *)
Close(s) ==
    /\ sess[s].step = "done"
    /\ sess' = [sess EXCEPT ![s] = Idle]
    /\ raced' = [raced EXCEPT ![s] = {}]
    /\ UNCHANGED <<rows, requests>>

ReaderStep(s) ==
    \/ \E org \in Orgs, i \in Ids, asked \in BOOLEAN : Patch(s, org, i, asked)
    \/ \E org \in Orgs : FindUnread(s, org)
    \/ Decide(s) \/ Refresh(s) \/ MarkAll(s) \/ Close(s)

-----------------------------------------------------------------------------
(* A create is idempotent however many sessions race: an organization has   *)
(* at most one notification of an alert, and a create that did not fail     *)
(* returns it.                                                              *)
OneRowPerAlert ==
    /\ \A i, j \in Ids : rows[i].org = rows[j].org /\ rows[i].alert = rows[j].alert => i = j
    /\ \A s \in Creators : sess[s].reply.kind = "row" => Of(s) = {sess[s].reply.n}

(* PATCH replies with the state it was asked for, and mark-all-read leaves  *)
(* every row it counted read, unless another session wrote one of the rows  *)
(* after this session had read it.                                          *)
ReplyIsCurrentOrRaced ==
    /\ \A s \in Readers : sess[s].reply.kind = "state" =>
          sess[s].reply.n = Bit(sess[s].asked) \/ raced[s] # {}
    /\ \A s \in Readers : sess[s].reply.kind = "count" =>
          \A i \in sess[s].seen : rows[i].read \/ i \in raced[s]
=============================================================================
