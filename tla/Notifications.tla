---------------------------- MODULE Notifications ----------------------------
(***************************************************************************)
(* What happens to the result of a scan requested over HTTP: the scan      *)
(* route takes the user's organization and webhook URL from the database,  *)
(* dispatch_scan_notifications registers the URL as the destination of the *)
(* organization and publishes the events, and the subscriber               *)
(* NotificationService.handle_domain_event stores each alert in-app        *)
(* (NotificationStore) and posts it to the registered destination.         *)
(*                                                                         *)
(* Every server process has its own registry, and a process serves nothing *)
(* else while it dispatches; the database is shared.  A post is a call of  *)
(* dispatch_intent; whether it is admitted is the matter of WebhookDelivery *)
(* and changes nothing here, because its errors are swallowed.             *)
(***************************************************************************)
EXTENDS NotificationStore, Functions

CONSTANTS Users, Urls,
          Personal,     \* the personal workspace of each user
          Accounts,     \* the users table when the processes start
          Kinds,        \* events one scan publishes, as a sequence
          Scans,        \* scan ids
          MaxScans      \* bound: scans and retries of scans

ASSUME PersonalAssumption == Personal \in [Users -> Orgs] /\ None \notin Orgs \cup Urls
ASSUME AlertAssumption ==
    /\ Kinds \in Seq(Range(Kinds)) /\ Alerts = Scans \X Range(Kinds)
    /\ None \notin Scans \cup Users \cup Alerts
ASSUME BoundsAssumption == MaxScans \in Nat

VARIABLES user,         \* the users table
          dest,         \* _destinations of each process
          job,          \* the scan each process is dispatching
          drawn,        \* the user who drew each scan id
          scans,        \* scans and retries of scans made
          posts,        \* alerts posted
          lost,         \* history: alerts whose notification was not stored
          owned         \* history: URLs an organization's members had set

vars == <<storeVars, user, dest, job, drawn, scans, posts, lost, owned>>

(* The processes are the sessions that create notifications.                *)
Account == [org: Orgs \cup {None}, url: Urls \cup {None}]
ASSUME AccountsAssumption == Accounts \in [Users -> Account]

NoJob == [at |-> "idle", user |-> None, org |-> None, url |-> None, scan |-> None,
          events |-> <<>>, todo |-> <<>>]
Job == [at: {"idle", "captured", "publish", "inapp", "webhook"},
        user: Users \cup {None}, org: Orgs \cup {None}, url: Urls \cup {None},
        scan: Scans \cup {None}, events: {<<>>, Kinds}, todo: Seq(Range(Kinds))]
Post == [org: Orgs, url: Urls, alert: Alerts]
Serving(w) == job[w].at = "idle"

TypeOK ==
    /\ StoreTypeOK
    /\ user \in [Users -> Account]
    /\ dest \in [Creators -> [Orgs -> Urls \cup {None}]]
    /\ job \in [Creators -> Job]
    /\ drawn \in [Scans -> Users \cup {None}] /\ scans \in 0..MaxScans
    /\ posts \subseteq Post
    /\ lost \in [Creators -> SUBSET Alerts]
    /\ owned \in [Orgs -> SUBSET Urls]
    /\ \A w \in Creators : job[w].at = "inapp" <=> sess[w].step # "idle"

Init ==
    /\ StoreInit
    /\ user = Accounts
    /\ dest = [w \in Creators |-> [o \in Orgs |-> None]]
    /\ job = [w \in Creators |-> NoJob]
    /\ drawn = [id \in Scans |-> None] /\ scans = 0
    /\ posts = {}
    /\ lost = [w \in Creators |-> {}]
    /\ owned = [o \in Orgs |-> {Accounts[u].url : u \in {v \in Users : Accounts[v].org = o}} \ {None}]

-----------------------------------------------------------------------------
(* Accounts: POST /api/settings and /api/workspaces, requests as the others. *)

Becomes(u, org, url) ==
    /\ requests < MaxRequests /\ requests' = requests + 1
    /\ \E w \in Creators : Serving(w)
    /\ user[u] # [org |-> org, url |-> url]
    /\ user' = [user EXCEPT ![u] = [org |-> org, url |-> url]]
    /\ owned' = [o \in Orgs |-> IF o = org THEN owned[o] \cup ({url} \ {None}) ELSE owned[o]]
    /\ UNCHANGED <<rows, sess, raced, dest, job, drawn, scans, posts, lost>>

(* Saving a URL gives a user without organization a personal workspace.     *)
SaveUrl(u, url) ==
    Becomes(u, IF url # None /\ user[u].org = None THEN Personal[u] ELSE user[u].org, url)

(* Joining a workspace or creating one.                                     *)
JoinOrg(u, org) == Becomes(u, org, user[u].url)

-----------------------------------------------------------------------------
(* A scan.                                                                  *)

(* authed_user_ctx; without organization nothing is dispatched, but a user  *)
(* with a URL and none is given the personal workspace first.  The route    *)
(* draws a new id for every scan; the publisher lets a caller retry a scan  *)
(* under the id it has.                                                     *)
Solo(u) == user[u].org = None /\ user[u].url # None

Capture(w, u, id) ==
    LET org == IF Solo(u) THEN Personal[u] ELSE user[u].org IN
    /\ Serving(w) /\ org # None
    /\ scans < MaxScans /\ scans' = scans + 1
    /\ drawn[id] \in {u, None} /\ drawn' = [drawn EXCEPT ![id] = u]
    /\ user' = [user EXCEPT ![u].org = org]
    /\ owned' = IF Solo(u) THEN [owned EXCEPT ![org] = @ \cup {user[u].url}] ELSE owned
    /\ job' = [job EXCEPT ![w] = [NoJob EXCEPT !.at = "captured", !.user = u, !.org = org,
                                               !.url = user[u].url, !.scan = id]]
    /\ UNCHANGED <<storeVars, dest, posts, lost>>

(* Mutant: the URL is read again when the destination is registered.         *)
RegisterCurrent(w) ==
    /\ job[w].at = "captured"
    /\ LET url == user[job[w].user].url IN
       dest' = [dest EXCEPT ![w][job[w].org] = IF url # None THEN url ELSE @]
    /\ job' = [job EXCEPT ![w].at = "publish", ![w].events = Kinds, ![w].todo = Kinds]
    /\ UNCHANGED <<storeVars, user, drawn, scans, posts, lost, owned>>

(* register_destination, if the user has a URL; a clean scan gives no intent. *)
Register(w) ==
    /\ job[w].at = "captured"
    /\ dest' = [dest EXCEPT ![w][job[w].org] = IF job[w].url # None THEN job[w].url ELSE @]
    /\ \E events \in {<<>>, Kinds} :
       job' = [job EXCEPT ![w].at = "publish", ![w].events = events, ![w].todo = events]
    /\ UNCHANGED <<storeVars, user, drawn, scans, posts, lost, owned>>

(* EventBus.publish and the policy: an in-app intent and a webhook intent.  *)
Publish(w) ==
    /\ job[w].at = "publish" /\ job[w].todo # <<>>
    /\ job' = [job EXCEPT ![w].at = "inapp"]
    /\ StartCreate(w, job[w].org, <<job[w].scan, Head(job[w].todo)>>)
    /\ UNCHANGED <<rows, requests, raced, user, dest, drawn, scans, posts, lost, owned>>

InApp(w) ==
    /\ CreateStep(w)
    /\ UNCHANGED <<user, dest, job, drawn, scans, posts, lost, owned>>

(* Mutant: the session is left open.                                        *)
InAppDoneOpen(w) ==
    /\ job[w].at = "inapp" /\ sess[w].step = "done"
    /\ job' = [job EXCEPT ![w].at = "webhook"]
    /\ UNCHANGED <<storeVars, user, dest, drawn, scans, posts, lost, owned>>

(* Mutant: an in-app failure ends the handler.                              *)
InAppDoneOrAbort(w) ==
    /\ job[w].at = "inapp" /\ sess[w].step = "done"
    /\ job' = [job EXCEPT ![w].at = IF sess[w].reply.kind = "failed" THEN "publish" ELSE "webhook",
                          ![w].todo = IF sess[w].reply.kind = "failed" THEN Tail(@) ELSE @]
    /\ lost' = [lost EXCEPT ![w] = IF sess[w].reply.kind = "failed" THEN @ \cup {sess[w].alert} ELSE @]
    /\ Close(w)
    /\ UNCHANGED <<user, dest, drawn, scans, posts, owned>>

(* Whether it failed or not, the next intent is handled.                    *)
InAppDone(w) ==
    /\ job[w].at = "inapp" /\ sess[w].step = "done"
    /\ job' = [job EXCEPT ![w].at = "webhook"]
    /\ lost' = [lost EXCEPT ![w] = IF sess[w].reply.kind = "failed" THEN @ \cup {sess[w].alert} ELSE @]
    /\ Close(w)
    /\ UNCHANGED <<user, dest, drawn, scans, posts, owned>>

(* The destination is looked up now; without one there is no post.          *)
PostAlert(w) ==
    /\ job[w].at = "webhook"
    /\ posts' = posts \cup {p \in Post : /\ p.org = job[w].org
                                         /\ p.url = dest[w][p.org]
                                         /\ p.alert = <<job[w].scan, Head(job[w].todo)>>}
    /\ job' = [job EXCEPT ![w].at = "publish", ![w].todo = Tail(@)]
    /\ UNCHANGED <<storeVars, user, dest, drawn, scans, lost, owned>>

Finish(w) ==
    /\ job[w].at = "publish" /\ job[w].todo = <<>>
    /\ job' = [job EXCEPT ![w] = NoJob]
    /\ lost' = [lost EXCEPT ![w] = {}]
    /\ UNCHANGED <<storeVars, user, dest, drawn, scans, posts, owned>>

Scan(w) ==
    \/ \E u \in Users, id \in Scans : Capture(w, u, id)
    \/ Register(w) \/ Publish(w) \/ InApp(w) \/ InAppDone(w) \/ PostAlert(w) \/ Finish(w)

Route(s) == ReaderStep(s) /\ UNCHANGED <<user, dest, job, drawn, scans, posts, lost, owned>>

Next ==
    \/ \E w \in Creators : Scan(w)
    \/ \E s \in Readers : Route(s)
    \/ \E u \in Users : \/ \E url \in Urls \cup {None} : SaveUrl(u, url)
                        \/ \E org \in Orgs : JoinOrg(u, org)

Spec == Init /\ [][Next]_vars

-----------------------------------------------------------------------------
(* Each event a dispatch has gone through is one notification of the        *)
(* organization, unless its own insert failed, and was posted if the        *)
(* process knows a destination of the organization: neither channel's       *)
(* failure, a retry, nor the other processes take an alert from the other   *)
(* channel, and no race stores it twice.                                    *)
Handled(w) == {<<job[w].scan, job[w].events[i]>> : i \in 1..(Len(job[w].events) - Len(job[w].todo))}

EachAlertOnce ==
    /\ OneRowPerAlert
    /\ \A w \in Creators : \A a \in Handled(w) :
          /\ Same(job[w].org, a) # {} \/ a \in lost[w]
          /\ dest[w][job[w].org] # None =>
                [org |-> job[w].org, url |-> dest[w][job[w].org], alert |-> a] \in posts

(* Tenant isolation of the webhook channel: an organization's alerts go     *)
(* only to a URL that a user had set while a member of it, whatever members *)
(* do to their URLs and memberships while scans are running.  (That user    *)
(* may have left, or cleared the URL: a destination is never unregistered.) *)
UrlOfAMember == \A p \in posts : p.url \in owned[p.org]
=============================================================================
