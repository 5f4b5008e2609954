-------------------------- MODULE NotificationsProofs --------------------------
(***************************************************************************)
(* Proofs about Notifications and the table it writes to, for any          *)
(* organizations, users, server processes and route sessions.              *)
(*                                                                         *)
(* A session decides on rows it read a while ago, so CreatorOK and ReaderOK *)
(* say what is still known of those rows at each of its steps: a row is    *)
(* never removed or moved to another alert, and whoever else marks it is   *)
(* recorded in raced.  PipeInv says the same of a dispatch, whose URL was   *)
(* read before the scan and whose destination may be another member's.     *)
(***************************************************************************)
EXTENDS Notifications, FiniteSetTheorems, TLAPS

CreatorOK(s) ==
    /\ sess[s].step \in {"idle", "look", "insert", "requery", "done"}
    /\ sess[s].step # "idle" => sess[s].org \in Orgs /\ sess[s].alert \in Alerts
    /\ sess[s].step = "done" => sess[s].reply.kind \in {"row", "failed"}
    /\ sess[s].reply.kind \in {"none", "row", "failed"}
    /\ sess[s].reply.kind = "row" => sess[s].reply.n \in Of(s)

ReaderOK(s) ==
    /\ sess[s].step \in {"idle", "decide", "refresh", "markall", "done"}
    /\ sess[s].step # "done" => sess[s].reply.kind = "none"
    /\ sess[s].reply.kind \in {"none", "state", "count"}
    /\ sess[s].step = "decide" =>
          \E i : sess[s].seen = {i} /\ (rows[i].read = sess[s].was \/ i \in raced[s])
    /\ sess[s].step = "refresh" =>
          \E i : sess[s].seen = {i} /\ (rows[i].read = sess[s].asked \/ i \in raced[s])
    /\ sess[s].reply.kind = "state" => sess[s].reply.n = Bit(sess[s].asked) \/ raced[s] # {}
    /\ sess[s].reply.kind = "count" => \A i \in sess[s].seen : rows[i].read \/ i \in raced[s]

UniqueRows == \A i, j \in Ids : rows[i].org = rows[j].org /\ rows[i].alert = rows[j].alert => i = j

SessionsOK == /\ \A s \in Creators : CreatorOK(s)
              /\ \A s \in Readers : ReaderOK(s)

StoreInv == StoreTypeOK /\ UniqueRows /\ SessionsOK

-----------------------------------------------------------------------------
\* One session takes a step: what becomes of the rows and of the other sessions.

\* Rows are added, and those of S may be marked.
Grows(S) ==
    /\ rows' \in Seq(Row)
    /\ \A i \in Ids : /\ i \in Ids'
                      /\ rows'[i].org = rows[i].org /\ rows'[i].alert = rows[i].alert
                      /\ i \notin S => rows'[i].read = rows[i].read

\* Session s is now x, and the others are as they were, except for races over S.
Moves(s, x, S) ==
    /\ x \in Session
    /\ sess' = [sess EXCEPT ![s] = x]
    /\ raced' \in [Sessions -> SUBSET Nat]
    /\ \A t \in Sessions \ {s} : raced'[t] = raced[t] \cup (S \cap sess[t].seen)

LEMMA MovesIs ==
    ASSUME StoreInv, NEW s \in Sessions, NEW x, NEW S, Moves(s, x, S)
    PROVE  /\ sess' \in [Sessions -> Session] /\ sess'[s] = x
           /\ \A t \in Sessions \ {s} : sess'[t] = sess[t]
BY DEF StoreInv, StoreTypeOK, Moves

LEMMA Others ==
    ASSUME StoreInv, NEW s \in Sessions, NEW x, NEW S, Moves(s, x, S), Grows(S),
           NEW t \in Sessions \ {s}
    PROVE  /\ t \in Creators => CreatorOK(t)'
           /\ t \in Readers => ReaderOK(t)'
           /\ sess'[t].seen \cup raced'[t] \subseteq Ids'
<1>1. /\ sess'[t] = sess[t] /\ raced'[t] = raced[t] \cup (S \cap sess[t].seen)
      /\ sess[t].seen \cup raced[t] \subseteq Ids
  BY MovesIs DEF Moves, StoreInv, StoreTypeOK
<1>2. ASSUME t \in Creators PROVE CreatorOK(t)'
  <2>1. CreatorOK(t)
    BY <1>2 DEF StoreInv, SessionsOK
  <2>2. sess[t].reply.kind = "row" => sess[t].reply.n \in Of(t)'
    BY <1>1, <2>1 DEF CreatorOK, Of, Same, Grows
  <2> QED
    BY <1>1, <2>1, <2>2 DEF CreatorOK
<1>3. ASSUME t \in Readers PROVE ReaderOK(t)'
  <2>1. ReaderOK(t)
    BY <1>3 DEF StoreInv, SessionsOK
  <2>2. \A i \in sess[t].seen : rows'[i].read = rows[i].read \/ i \in raced'[t]
    BY <1>1 DEF Grows
  <2>3. \A i \in raced[t] : i \in raced'[t]
    BY <1>1
  <2>4. sess[t].step = "decide" =>
          \E i : sess[t].seen = {i} /\ (rows'[i].read = sess[t].was \/ i \in raced'[t])
    BY <2>1, <2>2, <2>3 DEF ReaderOK
  <2>5. sess[t].step = "refresh" =>
          \E i : sess[t].seen = {i} /\ (rows'[i].read = sess[t].asked \/ i \in raced'[t])
    BY <2>1, <2>2, <2>3 DEF ReaderOK
  <2>6. sess[t].reply.kind = "state" => sess[t].reply.n = Bit(sess[t].asked) \/ raced'[t] # {}
    BY <2>1, <2>3 DEF ReaderOK
  <2>7. sess[t].reply.kind = "count" => \A i \in sess[t].seen : rows'[i].read \/ i \in raced'[t]
    BY <2>1, <2>2, <2>3 DEF ReaderOK
  <2> QED
    BY <1>1, <2>1, <2>4, <2>5, <2>6, <2>7 DEF ReaderOK
<1>4. \A i \in Ids : i \in Ids'
  BY DEF Grows
<1> QED
  BY <1>1, <1>2, <1>3, <1>4

\* A step of one session keeps StoreInv if it keeps what is known of that session.
LEMMA SessionStep ==
    ASSUME StoreInv, NEW s \in Sessions, NEW x, NEW S, Moves(s, x, S), Grows(S), UniqueRows',
           requests' \in 0..MaxRequests, x.seen \cup raced'[s] \subseteq Ids',
           s \in Creators => CreatorOK(s)', s \in Readers => ReaderOK(s)'
    PROVE  StoreInv'
<1>1. \A t \in Sessions : /\ t \in Creators => CreatorOK(t)'
                          /\ t \in Readers => ReaderOK(t)'
                          /\ sess'[t].seen \cup raced'[t] \subseteq Ids'
  <2> SUFFICES ASSUME NEW t \in Sessions
               PROVE  /\ t \in Creators => CreatorOK(t)'
                      /\ t \in Readers => ReaderOK(t)'
                      /\ sess'[t].seen \cup raced'[t] \subseteq Ids'
    OBVIOUS
  <2>1. CASE t = s
    BY <2>1, MovesIs
  <2>2. CASE t # s
    BY <2>2, Others
  <2> QED
    BY <2>1, <2>2
<1>2. SessionsOK'
  BY <1>1 DEF SessionsOK, Sessions
<1>3. StoreTypeOK'
  BY <1>1, MovesIs DEF StoreTypeOK, Moves, Grows
<1> QED
  BY <1>2, <1>3 DEF StoreInv

\* Steps that write no row.
LEMMA SameRows == StoreInv /\ rows' = rows => /\ UniqueRows' /\ Grows({}) /\ Ids' = Ids
                                              /\ \A org, alert : Same(org, alert)' = Same(org, alert)
BY DEF StoreInv, StoreTypeOK, UniqueRows, Grows, Ids, Same

-----------------------------------------------------------------------------
\* What the updates of a session make of it.

SameRequest(x, s) == /\ x \in Session /\ x.org = sess[s].org /\ x.alert = sess[s].alert
                     /\ x.seen = sess[s].seen /\ x.was = sess[s].was /\ x.asked = sess[s].asked

Kind == {"none", "row", "state", "count", "failed"}

LEMMA AnswerIs ==
    ASSUME StoreInv, NEW s \in Sessions, NEW kind \in Kind, NEW n \in Nat, Answer(s, kind, n)
    PROVE  \E x : /\ sess' = [sess EXCEPT ![s] = x]
                  /\ SameRequest(x, s) /\ x.step = "done" /\ x.reply.kind = kind /\ x.reply.n = n
<1> DEFINE x == [sess[s] EXCEPT !.step = "done", !.reply = [kind |-> kind, n |-> n]]
<1>1. sess[s] \in Session /\ sess = [t \in Sessions |-> sess[t]]
  BY DEF StoreInv, StoreTypeOK
<1>2. sess' = [sess EXCEPT ![s] = x]
  BY <1>1 DEF Answer
<1>3. SameRequest(x, s) /\ x.step = "done" /\ x.reply.kind = kind /\ x.reply.n = n
  BY <1>1 DEF SameRequest, Session, Steps, Kind
<1> QED
  BY <1>2, <1>3

LEMMA StepIs ==
    ASSUME StoreInv, NEW s \in Sessions, NEW step \in Steps, sess' = [sess EXCEPT ![s].step = step]
    PROVE  \E x : /\ sess' = [sess EXCEPT ![s] = x]
                  /\ SameRequest(x, s) /\ x.step = step /\ x.reply = sess[s].reply
<1> DEFINE x == [sess[s] EXCEPT !.step = step]
<1>1. sess[s] \in Session /\ sess = [t \in Sessions |-> sess[t]]
  BY DEF StoreInv, StoreTypeOK
<1>2. sess' = [sess EXCEPT ![s] = x]
  BY <1>1
<1>3. SameRequest(x, s) /\ x.step = step /\ x.reply = sess[s].reply
  BY <1>1 DEF SameRequest, Session
<1> QED
  BY <1>2, <1>3

LEMMA IdleIs == /\ Idle \in Session /\ Idle.step = "idle" /\ Idle.reply.kind = "none" /\ Idle.seen = {}
BY DEF Idle, NoReply, Session, Steps

LEMMA Apart == /\ \A s \in Creators : s \in Sessions /\ s \notin Readers
               /\ \A s \in Readers : s \in Sessions /\ s \notin Creators
BY SessionsAssumption DEF Sessions

-----------------------------------------------------------------------------
\* Creating notifications.

\* A step of a creator that writes no row.
LEMMA CreatorMoves ==
    ASSUME StoreInv, NEW s \in Creators, NEW x, x \in Session, sess' = [sess EXCEPT ![s] = x],
           UNCHANGED <<rows, requests, raced>>, x.seen = sess[s].seen \/ x.seen = {},
           x.step \in {"idle", "look", "insert", "requery", "done"},
           x.step # "idle" => x.org \in Orgs /\ x.alert \in Alerts,
           x.step = "done" => x.reply.kind \in {"row", "failed"},
           x.reply.kind \in {"none", "row", "failed"},
           x.reply.kind = "row" => x.reply.n \in Same(x.org, x.alert)
    PROVE  StoreInv'
<1>1. s \in Sessions /\ s \notin Readers /\ requests \in 0..MaxRequests
  BY Apart DEF StoreInv, StoreTypeOK
<1>2. Moves(s, x, {})
  BY <1>1 DEF Moves, StoreInv, StoreTypeOK
<1>3. sess'[s] = x
  BY <1>1, <1>2, MovesIs
<1>4. CreatorOK(s)'
  BY <1>3, SameRows DEF CreatorOK, Of
<1>5. x.seen \cup raced'[s] \subseteq Ids'
  BY <1>1, SameRows DEF StoreInv, StoreTypeOK
<1> QED
  BY <1>1, <1>2, <1>4, <1>5, SameRows, SessionStep

LEMMA StartCreateStep ==
    ASSUME StoreInv, NEW s \in Creators, NEW org \in Orgs, NEW alert \in Alerts,
           StartCreate(s, org, alert), UNCHANGED <<rows, requests, raced>>
    PROVE  /\ StoreInv'
           /\ sess'[s].step = "look" /\ sess'[s].org = org /\ sess'[s].alert = alert
           /\ \A t \in Creators \ {s} : sess'[t] = sess[t]
<1> DEFINE x == [Idle EXCEPT !.step = "look", !.org = org, !.alert = alert]
<1>1. /\ x \in Session /\ x.step = "look" /\ x.org = org /\ x.alert = alert
      /\ x.seen = {} /\ x.reply.kind = "none"
  BY DEF Idle, NoReply, Session, Steps
<1>2. sess' = [sess EXCEPT ![s] = x]
  BY DEF StartCreate
<1> HIDE DEF x
<1>3. StoreInv'
  BY <1>1, <1>2, CreatorMoves
<1>4. sess'[s] = x /\ \A t \in Creators \ {s} : sess'[t] = sess[t]
  BY <1>2, Apart DEF StoreInv, StoreTypeOK, Sessions
<1> QED
  BY <1>1, <1>3, <1>4

\* What a step of a create does to its own session.
CreateGoesOn(s) ==
    /\ sess[s].step # "idle" /\ sess'[s].step # "idle"
    /\ sess'[s].org = sess[s].org /\ sess'[s].alert = sess[s].alert
    /\ \A t \in Creators \ {s} : sess'[t] = sess[t]
    /\ \A org, alert : Same(org, alert) \subseteq Same(org, alert)'

LEMMA LookStep == ASSUME StoreInv, NEW s \in Creators, Look(s) PROVE StoreInv' /\ CreateGoesOn(s)
<1>1. s \in Sessions /\ CreatorOK(s) /\ sess[s].step = "look" /\ UNCHANGED <<rows, requests, raced>>
  BY Apart DEF Look, StoreInv, SessionsOK
<1>2. \E x : /\ sess' = [sess EXCEPT ![s] = x] /\ SameRequest(x, s)
             /\ \/ x.step = "insert" /\ x.reply = sess[s].reply
                \/ x.step = "done" /\ x.reply.kind = "row" /\ x.reply.n \in Of(s)
  <2>1. CASE \E i \in Of(s) : Answer(s, "row", i)
    <3>1. PICK i \in Of(s) : Answer(s, "row", i)
      BY <2>1
    <3>2. i \in Nat /\ "row" \in Kind
      BY DEF Of, Same, Ids, StoreInv, StoreTypeOK, Kind
    <3> QED
      BY <1>1, <3>1, <3>2, AnswerIs
  <2>2. CASE sess' = [sess EXCEPT ![s].step = "insert"]
    <3>1. "insert" \in Steps
      BY DEF Steps
    <3>2. \E x : /\ sess' = [sess EXCEPT ![s] = x]
                 /\ SameRequest(x, s) /\ x.step = "insert" /\ x.reply = sess[s].reply
      BY <1>1, <2>2, <3>1, StepIs
    <3> QED
      BY <3>2
  <2> QED
    BY <2>1, <2>2 DEF Look
<1> PICK x : /\ sess' = [sess EXCEPT ![s] = x] /\ SameRequest(x, s)
             /\ \/ x.step = "insert" /\ x.reply = sess[s].reply
                \/ x.step = "done" /\ x.reply.kind = "row" /\ x.reply.n \in Of(s)
  BY <1>2
<1>3. StoreInv'
  BY <1>1, CreatorMoves DEF SameRequest, CreatorOK, Of
<1>4. sess'[s] = x /\ \A t \in Creators \ {s} : sess'[t] = sess[t]
  BY <1>1, Apart DEF StoreInv, StoreTypeOK, Sessions
<1> QED
  BY <1>1, <1>3, <1>4, SameRows DEF CreateGoesOn, SameRequest

LEMMA RequeryStep == ASSUME StoreInv, NEW s \in Creators, Requery(s) PROVE StoreInv' /\ CreateGoesOn(s)
<1>1. s \in Sessions /\ CreatorOK(s) /\ sess[s].step = "requery" /\ UNCHANGED <<rows, requests, raced>>
  BY Apart DEF Requery, StoreInv, SessionsOK
<1> PICK i \in Of(s) : Answer(s, "row", i)
  BY DEF Requery
<1>2. i \in Nat /\ "row" \in Kind
  BY DEF Of, Same, Ids, StoreInv, StoreTypeOK, Kind
<1> PICK x : /\ sess' = [sess EXCEPT ![s] = x]
             /\ SameRequest(x, s) /\ x.step = "done" /\ x.reply.kind = "row" /\ x.reply.n = i
  BY <1>1, <1>2, AnswerIs
<1>3. StoreInv'
  BY <1>1, CreatorMoves DEF SameRequest, CreatorOK, Of
<1>4. sess'[s] = x /\ \A t \in Creators \ {s} : sess'[t] = sess[t]
  BY <1>1, Apart DEF StoreInv, StoreTypeOK, Sessions
<1> QED
  BY <1>1, <1>3, <1>4, SameRows DEF CreateGoesOn, SameRequest

LEMMA CreateFailsStep ==
    ASSUME StoreInv, NEW s \in Creators, CreateFails(s) PROVE StoreInv' /\ CreateGoesOn(s)
<1>1. /\ s \in Sessions /\ CreatorOK(s) /\ sess[s].step # "idle" /\ UNCHANGED <<rows, requests, raced>>
      /\ "failed" \in Kind /\ 0 \in Nat /\ Answer(s, "failed", 0)
  BY Apart DEF CreateFails, StoreInv, SessionsOK, Kind
<1> PICK x : /\ sess' = [sess EXCEPT ![s] = x]
             /\ SameRequest(x, s) /\ x.step = "done" /\ x.reply.kind = "failed"
  BY <1>1, AnswerIs
<1>3. StoreInv'
  BY <1>1, CreatorMoves DEF SameRequest, CreatorOK
<1>4. sess'[s] = x /\ \A t \in Creators \ {s} : sess'[t] = sess[t]
  BY <1>1, Apart DEF StoreInv, StoreTypeOK, Sessions
<1> QED
  BY <1>1, <1>3, <1>4, SameRows DEF CreateGoesOn, SameRequest

LEMMA InsertStep == ASSUME StoreInv, NEW s \in Creators, Insert(s) PROVE StoreInv' /\ CreateGoesOn(s)
<1>1. /\ s \in Sessions /\ s \notin Readers /\ CreatorOK(s) /\ sess[s].step = "insert"
      /\ UNCHANGED <<requests, raced>> /\ sess[s].org \in Orgs /\ sess[s].alert \in Alerts
      /\ requests \in 0..MaxRequests
  BY Apart DEF Insert, StoreInv, StoreTypeOK, SessionsOK, CreatorOK
<1>2. CASE Of(s) # {}
  <2>1. UNCHANGED rows /\ sess' = [sess EXCEPT ![s].step = "requery"] /\ "requery" \in Steps
    BY <1>2 DEF Insert, Steps
  <2> PICK x : /\ sess' = [sess EXCEPT ![s] = x]
               /\ SameRequest(x, s) /\ x.step = "requery" /\ x.reply = sess[s].reply
    BY <1>1, <2>1, StepIs
  <2>2. StoreInv'
    BY <1>1, <2>1, CreatorMoves DEF SameRequest, CreatorOK, Of
  <2>3. sess'[s] = x /\ \A t \in Creators \ {s} : sess'[t] = sess[t]
    BY <1>1, Apart DEF StoreInv, StoreTypeOK, Sessions
  <2> QED
    BY <1>1, <2>1, <2>2, <2>3, SameRows DEF CreateGoesOn, SameRequest
<1>3. CASE Of(s) = {}
  <2> DEFINE row == [org |-> sess[s].org, alert |-> sess[s].alert, read |-> FALSE]
             n == Len(rows) + 1
  <2>1. /\ rows' = Append(rows, row) /\ n \in Nat /\ {"row", "failed"} \subseteq Kind
        /\ row \in Row /\ rows \in Seq(Row)
        /\ Answer(s, "row", n) \/ Answer(s, "failed", 0)
    BY <1>1, <1>3 DEF Insert, Kind, StoreInv, StoreTypeOK, Row
  <2> PICK x : /\ sess' = [sess EXCEPT ![s] = x]
               /\ SameRequest(x, s) /\ x.step = "done"
               /\ x.reply.kind = "failed" \/ (x.reply.kind = "row" /\ x.reply.n = n)
    <3>1. StoreInv /\ 0 \in Nat
      OBVIOUS
    <3>2. CASE Answer(s, "row", n)
      BY <1>1, <2>1, <3>1, <3>2, AnswerIs
    <3>3. CASE Answer(s, "failed", 0)
      BY <1>1, <2>1, <3>1, <3>3, AnswerIs
    <3> QED
      BY <2>1, <3>2, <3>3
  <2>2. row.org = sess[s].org /\ row.alert = sess[s].alert
    OBVIOUS
  <2> HIDE DEF row
  <2>3. /\ rows' \in Seq(Row) /\ Ids = 1..Len(rows) /\ Ids' = 1..n /\ rows'[n] = row
        /\ \A i \in Ids : i \in Ids' /\ i # n /\ rows'[i] = rows[i]
        /\ \A i \in Ids' : i \in Ids \/ i = n
    BY <2>1 DEF Ids
  <2>4. Grows({})
    BY <2>3 DEF Grows
  <2>5. UniqueRows'
    <3>1. \A i \in Ids : rows[i].org # row.org \/ rows[i].alert # row.alert
      BY <1>3, <2>2 DEF Of, Same
    <3> SUFFICES ASSUME NEW i \in Ids', NEW j \in Ids', rows'[i].org = rows'[j].org,
                        rows'[i].alert = rows'[j].alert
                 PROVE  i = j
      BY DEF UniqueRows
    <3>2. CASE i \in Ids /\ j \in Ids
      BY <2>3, <3>2 DEF StoreInv, UniqueRows
    <3>3. CASE i = n /\ j = n
      BY <3>3
    <3>4. CASE (i \in Ids /\ j = n) \/ (i = n /\ j \in Ids)
      BY <2>3, <3>1, <3>4
    <3> QED
      BY <2>3, <3>2, <3>3, <3>4
  <2>6. Moves(s, x, {})
    BY <1>1 DEF Moves, SameRequest, StoreInv, StoreTypeOK
  <2>7. sess'[s] = x /\ \A t \in Creators \ {s} : sess'[t] = sess[t]
    BY <1>1, Apart DEF StoreInv, StoreTypeOK, Sessions
  <2>8. n \in Of(s)'
    BY <2>2, <2>3, <2>7 DEF Of, Same, SameRequest
  <2>9. CreatorOK(s)'
    BY <1>1, <2>7, <2>8 DEF CreatorOK, SameRequest
  <2>10. x.seen \cup raced'[s] \subseteq Ids'
    BY <1>1, <2>3 DEF SameRequest, StoreInv, StoreTypeOK
  <2>11. StoreInv'
    BY <1>1, <2>4, <2>5, <2>6, <2>9, <2>10, SessionStep
  <2>12. \A org, alert : Same(org, alert) \subseteq Same(org, alert)'
    BY <2>3 DEF Same
  <2> QED
    BY <1>1, <2>7, <2>11, <2>12 DEF CreateGoesOn, SameRequest
<1> QED
  BY <1>2, <1>3
LEMMA CreateStepStep == ASSUME StoreInv, NEW s \in Creators, CreateStep(s) PROVE StoreInv' /\ CreateGoesOn(s)
BY LookStep, InsertStep, RequeryStep, CreateFailsStep DEF CreateStep

\* A session that is done, of either kind, is closed.
LEMMA CloseStep ==
    ASSUME StoreInv, NEW s \in Sessions, Close(s)
    PROVE  StoreInv' /\ \A t \in Sessions : sess'[t] = IF t = s THEN Idle ELSE sess[t]
<1>1. /\ sess' = [sess EXCEPT ![s] = Idle] /\ raced' = [raced EXCEPT ![s] = {}]
      /\ UNCHANGED <<rows, requests>>
      /\ requests' \in 0..MaxRequests
  BY DEF Close, StoreInv, StoreTypeOK
<1>2. Moves(s, Idle, {}) /\ raced'[s] = {}
  BY <1>1, IdleIs DEF Moves, StoreInv, StoreTypeOK
<1>3. sess'[s] = Idle /\ \A t \in Sessions \ {s} : sess'[t] = sess[t]
  BY <1>2, MovesIs
<1>4. CreatorOK(s)' /\ ReaderOK(s)'
  BY <1>3, IdleIs DEF CreatorOK, ReaderOK
<1>5. Idle.seen \cup raced'[s] \subseteq Ids'
  BY <1>2, IdleIs
<1>6. StoreInv'
  BY <1>1, <1>2, <1>4, <1>5, SameRows, SessionStep
<1> QED
  BY <1>3, <1>6

-----------------------------------------------------------------------------
\* The routes.

LEMMA RowsAre ==
    ASSUME StoreInv
    PROVE  /\ rows \in Seq(Row) /\ Ids = 1..Len(rows) /\ Len(rows) \in Nat
           /\ \A i \in Ids : i \in Nat /\ rows[i].read \in BOOLEAN
<1>1. rows \in Seq(Row) /\ Ids = 1..Len(rows) /\ Len(rows) \in Nat
  BY DEF StoreInv, StoreTypeOK, Ids
<1>2. \A i \in Ids : i \in Nat /\ rows[i] \in Row
  BY <1>1
<1> QED
  BY <1>1, <1>2 DEF Row

\* Readers leave alone what the creators know.
ReadersOnly ==
    /\ \A t \in Creators : sess'[t] = sess[t]
    /\ \A org, alert : Same(org, alert)' = Same(org, alert)

LEMMA ReaderMoves ==
    ASSUME StoreInv, NEW s \in Readers, NEW x, NEW S, Moves(s, x, S),
           rows' = [i \in Ids |-> IF i \in S THEN [rows[i] EXCEPT !.read = rows'[i].read] ELSE rows[i]],
           \A i \in Ids : rows'[i].read \in BOOLEAN,
           requests' \in 0..MaxRequests, x.seen \cup raced'[s] \subseteq Ids, ReaderOK(s)'
    PROVE  StoreInv' /\ ReadersOnly
<1>1. s \in Sessions /\ s \notin Creators
  BY Apart
<1>2. rows \in Seq(Row) /\ Ids = 1..Len(rows) /\ Len(rows) \in Nat
  BY DEF StoreInv, StoreTypeOK, Ids
<1>3. \A i \in Ids : /\ rows'[i] \in Row /\ rows'[i].org = rows[i].org /\ rows'[i].alert = rows[i].alert
                     /\ i \notin S => rows'[i].read = rows[i].read
  <2> SUFFICES ASSUME NEW i \in Ids
               PROVE  /\ rows'[i] \in Row /\ rows'[i].org = rows[i].org /\ rows'[i].alert = rows[i].alert
                      /\ i \notin S => rows'[i].read = rows[i].read
    OBVIOUS
  <2>1. rows[i] \in Row /\ rows'[i].read \in BOOLEAN
    BY <1>2
  <2>2. CASE i \in S
    <3>1. rows'[i] = [rows[i] EXCEPT !.read = rows'[i].read]
      BY <2>2
    <3> QED
      BY <2>1, <2>2, <3>1 DEF Row
  <2>3. CASE i \notin S
    BY <2>1, <2>3
  <2> QED
    BY <2>2, <2>3
<1>4. Ids' = Ids /\ rows' \in [1..Len(rows) -> Row]
  BY <1>2, <1>3 DEF Ids
<1>5. rows' \in Seq(Row)
  BY <1>2, <1>4
<1>6. Grows(S) /\ UniqueRows'
  BY <1>3, <1>4, <1>5 DEF Grows, UniqueRows, StoreInv
<1>7. StoreInv'
  BY <1>1, <1>4, <1>6, SessionStep
<1>8. \A t \in Creators : sess'[t] = sess[t]
  BY <1>1, MovesIs, Apart
<1>9. \A org, alert : Same(org, alert)' = Same(org, alert)
  BY <1>3, <1>4 DEF Same
<1> QED
  BY <1>7, <1>8, <1>9 DEF ReadersOnly

\* A step of a reader that writes no row.
LEMMA ReaderReads ==
    ASSUME StoreInv, NEW s \in Readers, NEW x, x \in Session, sess' = [sess EXCEPT ![s] = x],
           rows' = rows, raced' = raced \/ raced' = [raced EXCEPT ![s] = {}],
           requests' \in 0..MaxRequests, x.seen \subseteq Ids, ReaderOK(s)'
    PROVE  StoreInv' /\ ReadersOnly
<1>1. s \in Sessions
  BY Apart
<1>2. Moves(s, x, {}) /\ raced'[s] \subseteq Ids
  BY <1>1 DEF Moves, StoreInv, StoreTypeOK
<1>3. rows \in Seq(Row) /\ Ids = 1..Len(rows) /\ \A i \in Ids : rows[i].read \in BOOLEAN
  BY RowsAre
<1>4. rows' = [i \in Ids |-> IF i \in {} THEN [rows[i] EXCEPT !.read = rows'[i].read] ELSE rows[i]]
  BY <1>3
<1>5. \A i \in Ids : rows'[i].read \in BOOLEAN
  BY <1>3
<1>6. x.seen \cup raced'[s] \subseteq Ids
  BY <1>2
<1> QED
  BY <1>2, <1>4, <1>5, <1>6, ReaderMoves

LEMMA RequestIs ==
    ASSUME StoreInv, NEW s \in Readers, Request(s)
    PROVE  /\ requests' \in 0..MaxRequests /\ raced' = [raced EXCEPT ![s] = {}] /\ raced'[s] = {}
           /\ s \in Sessions
BY Apart, SessionsAssumption DEF Request, StoreInv, StoreTypeOK

LEMMA PatchStep ==
    ASSUME StoreInv, NEW s \in Readers, NEW org \in Orgs, NEW i \in Ids, NEW asked \in BOOLEAN,
           Patch(s, org, i, asked)
    PROVE  StoreInv' /\ ReadersOnly
<1> DEFINE x == [Idle EXCEPT !.step = "decide", !.org = org, !.seen = {i},
                             !.was = rows[i].read, !.asked = asked]
<1>1. rows[i].read \in BOOLEAN /\ i \in Nat
  BY RowsAre
<1>2. /\ x \in Session /\ x.step = "decide" /\ x.seen = {i} /\ x.was = rows[i].read
      /\ x.reply.kind = "none"
  BY <1>1 DEF Idle, NoReply, Session, Steps
<1>3. sess' = [sess EXCEPT ![s] = x] /\ rows' = rows
  BY DEF Patch
<1> HIDE DEF x
<1>4. /\ requests' \in 0..MaxRequests /\ raced' = [raced EXCEPT ![s] = {}] /\ s \in Sessions
  BY RequestIs DEF Patch
<1>5. sess'[s] = x
  BY <1>3, <1>4 DEF StoreInv, StoreTypeOK
<1>6. ReaderOK(s)'
  BY <1>2, <1>3, <1>5 DEF ReaderOK
<1> QED
  BY <1>2, <1>3, <1>4, <1>6, ReaderReads

LEMMA FindUnreadStep ==
    ASSUME StoreInv, NEW s \in Readers, NEW org \in Orgs, FindUnread(s, org)
    PROVE  StoreInv' /\ ReadersOnly
<1> DEFINE x == [Idle EXCEPT !.step = "markall", !.org = org, !.seen = UnreadOf(org)]
<1>1. UnreadOf(org) \subseteq Ids /\ Ids \subseteq Nat
  BY DEF UnreadOf, StoreInv, StoreTypeOK, Ids
<1>2. x \in Session /\ x.step = "markall" /\ x.seen \subseteq Ids /\ x.reply.kind = "none"
  BY <1>1 DEF Idle, NoReply, Session, Steps
<1>3. sess' = [sess EXCEPT ![s] = x] /\ rows' = rows
  BY DEF FindUnread
<1> HIDE DEF x
<1>4. /\ requests' \in 0..MaxRequests /\ raced' = [raced EXCEPT ![s] = {}] /\ s \in Sessions
  BY RequestIs DEF FindUnread
<1>5. sess'[s] = x
  BY <1>3, <1>4 DEF StoreInv, StoreTypeOK
<1>6. ReaderOK(s)'
  BY <1>2, <1>5 DEF ReaderOK
<1> QED
  BY <1>2, <1>3, <1>4, <1>6, ReaderReads
\* A marking of rows, as the other sessions will find it.
Marks(s, S, read) ==
    /\ rows' = [i \in Ids |-> IF i \in S THEN [rows[i] EXCEPT !.read = rows'[i].read] ELSE rows[i]]
    /\ \A i \in Ids : rows'[i].read = IF i \in S THEN read ELSE rows[i].read
    /\ \A i \in Ids : rows'[i].read \in BOOLEAN
    /\ raced' \in [Sessions -> SUBSET Nat] /\ raced'[s] = raced[s]
    /\ \A t \in Sessions \ {s} : raced'[t] = raced[t] \cup (S \cap sess[t].seen)

LEMMA MarkIs ==
    ASSUME StoreInv, NEW s \in Readers, NEW S \in SUBSET Ids, NEW read \in BOOLEAN, Mark(s, S, read)
    PROVE  Marks(s, S, read)
<1>1. rows' = [i \in Ids |-> IF i \in S THEN [rows[i] EXCEPT !.read = read] ELSE rows[i]]
  BY DEF Mark
<1>2. \A i \in Ids : i \in Nat /\ rows[i].read \in BOOLEAN /\ rows[i] \in Row
  BY RowsAre
<1>3. \A i \in Ids : rows'[i].read = IF i \in S THEN read ELSE rows[i].read
  <2> SUFFICES ASSUME NEW i \in Ids PROVE rows'[i].read = IF i \in S THEN read ELSE rows[i].read
    OBVIOUS
  <2>1. rows'[i] = IF i \in S THEN [rows[i] EXCEPT !.read = read] ELSE rows[i]
    BY <1>1
  <2> QED
    BY <1>2, <2>1 DEF Row
<1>4. rows' = [i \in Ids |-> IF i \in S THEN [rows[i] EXCEPT !.read = rows'[i].read] ELSE rows[i]]
  <2>1. \A i \in S : rows'[i].read = read
    BY <1>3
  <2> QED
    BY <1>1, <2>1
<1>5. s \in Sessions
  BY Apart
<1>6. /\ raced' \in [Sessions -> SUBSET Nat] /\ raced'[s] = raced[s]
      /\ \A t \in Sessions \ {s} : raced'[t] = raced[t] \cup (S \cap sess[t].seen)
  BY <1>2, <1>5 DEF Mark, StoreInv, StoreTypeOK
<1> QED
  BY <1>2, <1>3, <1>4, <1>6 DEF Marks

LEMMA DecideStep == ASSUME StoreInv, NEW s \in Readers, Decide(s) PROVE StoreInv' /\ ReadersOnly
<1>1. /\ s \in Sessions /\ ReaderOK(s) /\ sess[s].step = "decide" /\ "refresh" \in Steps
      /\ sess' = [sess EXCEPT ![s].step = "refresh"] /\ requests' \in 0..MaxRequests
      /\ sess[s].seen \cup raced[s] \subseteq Ids
  BY Apart DEF Decide, StoreInv, StoreTypeOK, SessionsOK, Steps
<1> PICK x : /\ sess' = [sess EXCEPT ![s] = x]
             /\ SameRequest(x, s) /\ x.step = "refresh" /\ x.reply = sess[s].reply
  BY <1>1, StepIs
<1>2. sess'[s] = x /\ x \in Session /\ x.seen = sess[s].seen /\ x.asked = sess[s].asked
      /\ x.reply.kind = "none"
  BY <1>1 DEF StoreInv, StoreTypeOK, SameRequest, ReaderOK
<1>3. /\ sess[s].was \in BOOLEAN /\ sess[s].asked \in BOOLEAN
  BY <1>1 DEF StoreInv, StoreTypeOK, Session
<1> PICK i : sess[s].seen = {i} /\ (rows[i].read = sess[s].was \/ i \in raced[s])
  BY <1>1 DEF ReaderOK
<1>4. CASE sess[s].asked = sess[s].was
  <2>1. UNCHANGED <<rows, raced>>
    BY <1>4 DEF Decide
  <2>2. ReaderOK(s)'
    BY <1>2, <1>4, <2>1 DEF ReaderOK
  <2> QED
    BY <1>1, <1>2, <2>1, <2>2, ReaderReads
<1>5. CASE sess[s].asked # sess[s].was
  <2>1. Mark(s, sess[s].seen, sess[s].asked) /\ sess[s].seen \in SUBSET Ids
    BY <1>1, <1>5 DEF Decide
  <2> DEFINE S == sess[s].seen
  <2>2. Marks(s, S, sess[s].asked)
    BY <1>3, <2>1, MarkIs
  <2>3. Moves(s, x, S)
    BY <1>2, <2>2 DEF Moves, Marks
  <2>4. rows'[i].read = sess[s].asked
    BY <1>1, <2>2 DEF Marks
  <2>5. ReaderOK(s)'
    BY <1>2, <2>4 DEF ReaderOK
  <2>6. x.seen \cup raced'[s] \subseteq Ids
    BY <1>1, <1>2, <2>2 DEF Marks
  <2> HIDE DEF S
  <2> QED
    BY <1>1, <2>2, <2>3, <2>5, <2>6, ReaderMoves DEF Marks
<1> QED
  BY <1>4, <1>5

LEMMA MarkAllStep == ASSUME StoreInv, NEW s \in Readers, MarkAll(s) PROVE StoreInv' /\ ReadersOnly
<1> DEFINE n == Cardinality(sess[s].seen)
<1>1. /\ s \in Sessions /\ ReaderOK(s) /\ sess[s].step = "markall" /\ "count" \in Kind
      /\ Answer(s, "count", n) /\ requests' \in 0..MaxRequests
      /\ sess[s].seen \cup raced[s] \subseteq Ids
  BY Apart DEF MarkAll, StoreInv, StoreTypeOK, SessionsOK, Kind
<1>2. n \in Nat
  <2>1. Ids = 1..Len(rows) /\ Len(rows) \in Nat
    BY RowsAre
  <2>2. IsFiniteSet(1..Len(rows))
    BY <2>1, FS_Interval
  <2> QED
    BY <1>1, <2>1, <2>2, FS_Subset, FS_CardinalityType
<1> HIDE DEF n
<1> PICK x : /\ sess' = [sess EXCEPT ![s] = x]
             /\ SameRequest(x, s) /\ x.step = "done" /\ x.reply.kind = "count"
  BY <1>1, <1>2, AnswerIs
<1>3. sess'[s] = x /\ x \in Session /\ x.seen = sess[s].seen
  BY <1>1 DEF StoreInv, StoreTypeOK, SameRequest
<1>4. CASE sess[s].seen = {}
  <2>1. UNCHANGED <<rows, raced>>
    BY <1>4 DEF MarkAll
  <2>2. ReaderOK(s)'
    BY <1>3, <1>4 DEF ReaderOK
  <2> QED
    BY <1>1, <1>3, <2>1, <2>2, ReaderReads
<1>5. CASE sess[s].seen # {}
  <2>1. Mark(s, sess[s].seen, TRUE) /\ sess[s].seen \in SUBSET Ids
    BY <1>1, <1>5 DEF MarkAll
  <2> DEFINE S == sess[s].seen
  <2>2. Marks(s, S, TRUE)
    BY <2>1, MarkIs
  <2>3. Moves(s, x, S)
    BY <1>3, <2>2 DEF Moves, Marks
  <2>4. \A k \in S : rows'[k].read
    BY <1>1, <2>2 DEF Marks
  <2>5. ReaderOK(s)'
    BY <1>3, <2>4 DEF ReaderOK
  <2>6. x.seen \cup raced'[s] \subseteq Ids
    BY <1>1, <1>3, <2>2 DEF Marks
  <2> HIDE DEF S
  <2> QED
    BY <1>1, <2>2, <2>3, <2>5, <2>6, ReaderMoves DEF Marks
<1> QED
  BY <1>4, <1>5

LEMMA RefreshStep == ASSUME StoreInv, NEW s \in Readers, Refresh(s) PROVE StoreInv' /\ ReadersOnly
<1>1. /\ s \in Sessions /\ ReaderOK(s) /\ sess[s].step = "refresh" /\ "state" \in Kind
      /\ UNCHANGED <<rows, requests, raced>> /\ requests' \in 0..MaxRequests
      /\ sess[s].seen \cup raced[s] \subseteq Ids
  BY Apart DEF Refresh, StoreInv, StoreTypeOK, SessionsOK, Kind
<1> PICK i \in sess[s].seen : Answer(s, "state", Bit(rows[i].read))
  BY DEF Refresh
<1>2. Bit(rows[i].read) \in Nat
  BY DEF Bit
<1> PICK x : /\ sess' = [sess EXCEPT ![s] = x]
             /\ SameRequest(x, s) /\ x.step = "done" /\ x.reply.kind = "state"
             /\ x.reply.n = Bit(rows[i].read)
  BY <1>1, <1>2, AnswerIs
<1>3. sess'[s] = x /\ x \in Session /\ x.seen = sess[s].seen /\ x.asked = sess[s].asked
  BY <1>1 DEF StoreInv, StoreTypeOK, SameRequest
<1>4. rows[i].read = sess[s].asked \/ i \in raced[s]
  BY <1>1 DEF ReaderOK
<1>5. x.reply.n = Bit(x.asked) \/ raced'[s] # {}
  BY <1>1, <1>3, <1>4
<1>6. ReaderOK(s)'
  BY <1>3, <1>5 DEF ReaderOK
<1> QED
  BY <1>1, <1>3, <1>6, ReaderReads

LEMMA ReaderStepStep == ASSUME StoreInv, NEW s \in Readers, ReaderStep(s) PROVE StoreInv' /\ ReadersOnly
<1>1. CASE Close(s)
  <2>1. s \in Sessions /\ StoreInv' /\ \A t \in Sessions : sess'[t] = IF t = s THEN Idle ELSE sess[t]
    BY <1>1, CloseStep, Apart
  <2>2. rows' = rows
    BY <1>1 DEF Close
  <2>3. \A t \in Creators : sess'[t] = sess[t]
    BY <2>1, Apart
  <2> QED
    BY <2>1, <2>2, <2>3, SameRows DEF ReadersOnly
<1> QED
  BY <1>1, PatchStep, FindUnreadStep, DecideStep, RefreshStep, MarkAllStep DEF ReaderStep
-----------------------------------------------------------------------------
\* A dispatch.

\* todo is what is left of events.
IsTail(events, todo) ==
    /\ Len(todo) <= Len(events)
    /\ \A k \in 1..Len(todo) : todo[k] = events[Len(events) - Len(todo) + k]

Current(w) == <<job[w].scan, Head(job[w].todo)>>
Stored(w, a) == Same(job[w].org, a) # {} \/ a \in lost[w]
Posted(w, a) == dest[w][job[w].org] # None =>
                   [org |-> job[w].org, url |-> dest[w][job[w].org], alert |-> a] \in posts

JobOK(w) ==
    /\ job[w].at # "idle" => /\ job[w].org \in Orgs /\ job[w].scan \in Scans
                             /\ job[w].url = None \/ job[w].url \in owned[job[w].org]
    /\ job[w].at \in {"idle", "captured"} => job[w].events = <<>> /\ job[w].todo = <<>>
    /\ IsTail(job[w].events, job[w].todo)
    /\ job[w].at \in {"inapp", "webhook"} => job[w].todo # <<>>
    /\ job[w].at = "inapp" => sess[w].org = job[w].org /\ sess[w].alert = Current(w)
    /\ \A a : job[w].at = "webhook" /\ a = Current(w) => Stored(w, a)
    /\ \A a \in Handled(w) : Stored(w, a) /\ Posted(w, a)

DestOK(w) == \A o \in Orgs : dest[w][o] \in owned[o] \cup {None}

AccountInv == \A u \in Users : user[u].org \in Orgs /\ user[u].url \in Urls
                                  => user[u].url \in owned[user[u].org]

PipeInv == \A w \in Creators : JobOK(w) /\ DestOK(w)

IInv == TypeOK /\ StoreInv /\ AccountInv /\ PipeInv /\ UrlOfAMember

\* What a dispatch relies on only grows.
Grown == /\ \A org, alert : Same(org, alert) \subseteq Same(org, alert)'
         /\ posts \subseteq posts'
         /\ \A o \in Orgs : owned[o] \subseteq owned'[o]

LEMMA Untouched ==
    ASSUME IInv, NEW w \in Creators, Grown, job'[w] = job[w], dest'[w] = dest[w], lost'[w] = lost[w],
           sess'[w] = sess[w]
    PROVE  JobOK(w)' /\ DestOK(w)'
<1>1. JobOK(w) /\ DestOK(w)
  BY DEF IInv, PipeInv
<1>2. \A a : Stored(w, a) => Stored(w, a)'
  BY DEF Stored, Grown
<1>3. \A a : Posted(w, a) => Posted(w, a)'
  BY DEF Posted, Grown
<1>4. Handled(w)' = Handled(w) /\ Current(w)' = Current(w)
  BY DEF Handled, Current
<1>5. \A a \in Handled(w)' : Stored(w, a)' /\ Posted(w, a)'
  BY <1>1, <1>2, <1>3, <1>4 DEF JobOK
<1>6. \A a : job'[w].at = "webhook" /\ a = Current(w)' => Stored(w, a)'
  BY <1>1, <1>2, <1>4 DEF JobOK
<1>7. JobOK(w)'
  BY <1>1, <1>4, <1>5, <1>6 DEF JobOK, Grown
<1> QED
  BY <1>1, <1>7 DEF DestOK, Grown
LEMMA KindsAre ==
    /\ <<>> \in Seq(Range(Kinds)) /\ Kinds \in Seq(Range(Kinds))
    /\ \A scan \in Scans, kind \in Range(Kinds) : <<scan, kind>> \in Alerts
BY AlertAssumption

\* Process w's job is now x, and its account of its destinations and failures is d and f.
Works(w, x, d, f) ==
    /\ x \in Job /\ job' = [job EXCEPT ![w] = x]
    /\ d \in [Orgs -> Urls \cup {None}] /\ dest' = [dest EXCEPT ![w] = d]
    /\ f \in SUBSET Alerts /\ lost' = [lost EXCEPT ![w] = f]
    /\ UNCHANGED <<user, owned>>
    /\ drawn' \in [Scans -> Users \cup {None}] /\ scans' \in 0..MaxScans
    /\ posts' \subseteq Post
    /\ \A t \in Creators \ {w} : sess'[t] = sess[t]

LEMMA WorksIs ==
    ASSUME IInv, NEW w \in Creators, NEW x, NEW d, NEW f, Works(w, x, d, f)
    PROVE  /\ job' \in [Creators -> Job] /\ job'[w] = x
           /\ dest' \in [Creators -> [Orgs -> Urls \cup {None}]] /\ dest'[w] = d
           /\ lost' \in [Creators -> SUBSET Alerts] /\ lost'[w] = f
           /\ \A t \in Creators \ {w} : job'[t] = job[t] /\ dest'[t] = dest[t] /\ lost'[t] = lost[t]
           /\ owned' = owned /\ user' = user
BY DEF IInv, TypeOK, Works

LEMMA WorkStep ==
    ASSUME IInv, NEW w \in Creators, NEW x, NEW d, NEW f, Works(w, x, d, f), StoreInv', Grown,
           JobOK(w)', DestOK(w)', x.at = "inapp" <=> sess'[w].step # "idle", UrlOfAMember'
    PROVE  IInv'
<1>1. \A t \in Creators \ {w} : sess'[t] = sess[t]
  BY DEF Works
<1>2. PipeInv'
  <2> SUFFICES ASSUME NEW t \in Creators PROVE JobOK(t)' /\ DestOK(t)'
    BY DEF PipeInv
  <2>1. CASE t = w
    BY <2>1
  <2>2. CASE t # w
    BY <1>1, <2>2, WorksIs, Untouched
  <2> QED
    BY <2>1, <2>2
<1>3. AccountInv'
  BY WorksIs DEF IInv, AccountInv
<1>4. \A t \in Creators : job'[t].at = "inapp" <=> sess'[t].step # "idle"
  BY <1>1, WorksIs DEF IInv, TypeOK
<1>5. TypeOK'
  <2>1. StoreTypeOK'
    BY DEF StoreInv
  <2>2. user' \in [Users -> Account] /\ owned' \in [Orgs -> SUBSET Urls]
    BY DEF Works, IInv, TypeOK
  <2> QED
    BY <1>4, <2>1, <2>2, WorksIs DEF TypeOK, Works
<1> QED
  BY <1>2, <1>3, <1>5 DEF IInv

\* A step of a dispatch that leaves destinations, failures and posts alone.
LEMMA Same3 ==
    ASSUME IInv, NEW w \in Creators
    PROVE  /\ dest[w] \in [Orgs -> Urls \cup {None}] /\ dest = [dest EXCEPT ![w] = dest[w]]
           /\ lost[w] \in SUBSET Alerts /\ lost = [lost EXCEPT ![w] = lost[w]]
           /\ job[w] \in Job /\ job = [job EXCEPT ![w] = job[w]]
           /\ posts \subseteq Post /\ scans \in 0..MaxScans /\ drawn \in [Scans -> Users \cup {None}]
           /\ JobOK(w) /\ DestOK(w)
BY DEF IInv, TypeOK, PipeInv

LEMMA StillBut ==
    ASSUME IInv, UNCHANGED <<rows, sess, raced>>, requests' \in 0..MaxRequests
    PROVE  /\ StoreInv' /\ sess' = sess
           /\ \A org, alert : Same(org, alert)' = Same(org, alert)
<1>1. UNCHANGED <<rows, sess, raced>> /\ requests' \in 0..MaxRequests
  OBVIOUS
<1>2. StoreInv
  BY DEF IInv
<1>3. Ids' = Ids /\ \A org, alert : Same(org, alert)' = Same(org, alert)
  BY <1>1 DEF Ids, Same
<1>4. ASSUME NEW s, CreatorOK(s) PROVE CreatorOK(s)'
  BY <1>1, <1>4 DEF CreatorOK, Of, Same, Ids
<1>5. ASSUME NEW s, ReaderOK(s) PROVE ReaderOK(s)'
  BY <1>1, <1>5 DEF ReaderOK
<1>6. StoreTypeOK'
  BY <1>1, <1>2, <1>3 DEF StoreInv, StoreTypeOK
<1>7. UniqueRows'
  BY <1>1, <1>2, <1>3 DEF StoreInv, UniqueRows
<1> QED
  BY <1>1, <1>2, <1>3, <1>4, <1>5, <1>6, <1>7 DEF StoreInv, SessionsOK

LEMMA Still == ASSUME IInv, UNCHANGED <<storeVars>>
               PROVE  /\ StoreInv' /\ sess' = sess
                      /\ \A org, alert : Same(org, alert)' = Same(org, alert)
<1>1. UNCHANGED <<rows, sess, requests, raced>> /\ requests \in 0..MaxRequests
  BY DEF storeVars, IInv, StoreInv, StoreTypeOK
<1> QED
  BY <1>1, StillBut

LEMMA CaptureStep ==
    ASSUME IInv, NEW w \in Creators, NEW u \in Users, NEW id \in Scans, Capture(w, u, id)
    PROVE  IInv'
<1> DEFINE org == IF Solo(u) THEN Personal[u] ELSE user[u].org
           x == [NoJob EXCEPT !.at = "captured", !.user = u, !.org = org,
                              !.url = user[u].url, !.scan = id]
<1>1. /\ user[u] \in Account /\ job[w].at = "idle" /\ org \in Orgs
      /\ user \in [Users -> Account] /\ owned \in [Orgs -> SUBSET Urls]
  <2>1. user[u] \in Account /\ org # None /\ job[w].at = "idle" /\ Personal[u] \in Orgs
    BY PersonalAssumption DEF Capture, Serving, IInv, TypeOK
  <2> QED
    BY <2>1 DEF Account, IInv, TypeOK
<1>2. user[u].url \in Urls \cup {None} /\ None \notin Orgs \cup Urls
  BY <1>1, PersonalAssumption DEF Account
<1>3. /\ x \in Job /\ x.at = "captured" /\ x.org = org /\ x.url = user[u].url /\ x.scan = id
      /\ x.events = <<>> /\ x.todo = <<>>
  BY <1>1, <1>2, KindsAre DEF NoJob, Job
<1>4. /\ job' = [job EXCEPT ![w] = x] /\ scans' = scans + 1 /\ scans < MaxScans
      /\ drawn' = [drawn EXCEPT ![id] = u]
      /\ user' = [user EXCEPT ![u].org = org]
      /\ owned' = IF Solo(u) THEN [owned EXCEPT ![org] = @ \cup {user[u].url}] ELSE owned
      /\ UNCHANGED <<storeVars, dest, posts, lost>>
  BY DEF Capture
<1>5. Solo(u) => user[u].url \in Urls
  BY <1>2 DEF Solo
<1>6. ~Solo(u) => org = user[u].org
  OBVIOUS
<1> HIDE DEF x, org
<1>7. /\ StoreInv' /\ sess' = sess /\ \A o, a : Same(o, a)' = Same(o, a)
  BY <1>4, Still
<1>8. owned' \in [Orgs -> SUBSET Urls] /\ \A o \in Orgs : owned[o] \subseteq owned'[o]
  BY <1>1, <1>4, <1>5
<1>9. /\ user' \in [Users -> Account] /\ user'[u].org = org /\ user'[u].url = user[u].url
      /\ \A v \in Users \ {u} : user'[v] = user[v]
  BY <1>1, <1>4 DEF Account
<1>10. user[u].url # None => user[u].url \in owned'[org]
  <2>1. CASE Solo(u)
    BY <1>1, <1>4, <2>1
  <2>2. CASE ~Solo(u)
    BY <1>1, <1>2, <1>6, <1>8, <2>2 DEF IInv, AccountInv
  <2> QED
    BY <2>1, <2>2
<1>11. AccountInv'
  <2> SUFFICES ASSUME NEW v \in Users, user'[v].org \in Orgs, user'[v].url \in Urls
               PROVE  user'[v].url \in owned'[user'[v].org]
    BY DEF AccountInv
  <2>1. CASE v = u
    BY <1>2, <1>9, <1>10, <2>1
  <2>2. CASE v # u
    BY <1>8, <1>9, <2>2 DEF IInv, AccountInv
  <2> QED
    BY <2>1, <2>2
<1>12. Grown
  BY <1>4, <1>7, <1>8 DEF Grown
<1>13. /\ job' \in [Creators -> Job] /\ job'[w] = x /\ \A v \in Creators \ {w} : job'[v] = job[v]
       /\ dest' = dest /\ lost' = lost /\ Len(<<>>) = 0 /\ \A i \in 1..0 - 0 : FALSE
  BY <1>3, <1>4, Same3 DEF IInv, TypeOK
<1>14. JobOK(w)'
  <2>1. Handled(w)' = {}
    BY <1>3, <1>13 DEF Handled
  <2>2. IsTail(x.events, x.todo)
    BY <1>3, <1>13 DEF IsTail
  <2> QED
    BY <1>1, <1>2, <1>3, <1>10, <1>13, <2>1, <2>2 DEF JobOK
<1>15. DestOK(w)' /\ UrlOfAMember'
  BY <1>4, <1>8, Same3 DEF DestOK, UrlOfAMember, Post, IInv
<1>16. PipeInv'
  <2> SUFFICES ASSUME NEW v \in Creators PROVE JobOK(v)' /\ DestOK(v)'
    BY DEF PipeInv
  <2> QED
    BY <1>7, <1>12, <1>13, <1>14, <1>15, Untouched
<1>17. TypeOK'
  <2>1. drawn' \in [Scans -> Users \cup {None}] /\ scans' \in 0..MaxScans
    BY <1>4, Same3, BoundsAssumption
  <2>2. \A v \in Creators : job'[v].at = "inapp" <=> sess'[v].step # "idle"
    BY <1>1, <1>3, <1>7, <1>13 DEF IInv, TypeOK
  <2> QED
    BY <1>4, <1>7, <1>8, <1>9, <1>13, <2>1, <2>2 DEF IInv, TypeOK, StoreInv
<1> QED
  BY <1>7, <1>11, <1>15, <1>16, <1>17 DEF IInv

LEMMA RegisterStep == ASSUME IInv, NEW w \in Creators, Register(w) PROVE IInv'
<1>1. /\ job[w].at = "captured" /\ job[w] \in Job /\ job[w].org \in Orgs /\ job[w].scan \in Scans
      /\ job[w].url = None \/ job[w].url \in owned[job[w].org]
      /\ owned \in [Orgs -> SUBSET Urls]
  BY Same3 DEF Register, JobOK, IInv, TypeOK
<1> DEFINE d == [dest[w] EXCEPT ![job[w].org] = IF job[w].url # None THEN job[w].url ELSE @]
<1>2. /\ dest' = [dest EXCEPT ![w] = d]
      /\ UNCHANGED <<storeVars, user, drawn, scans, posts, lost, owned>>
  BY Same3 DEF Register
<1>3. /\ d \in [Orgs -> Urls \cup {None}]
      /\ \A o \in Orgs : d[o] = dest[w][o] \/ d[o] \in owned[o]
  BY <1>1, Same3
<1> HIDE DEF d
<1> PICK events \in {<<>>, Kinds} :
       job' = [job EXCEPT ![w].at = "publish", ![w].events = events, ![w].todo = events]
  BY DEF Register
<1> DEFINE x == [job[w] EXCEPT !.at = "publish", !.events = events, !.todo = events]
<1>4. events \in Seq(Range(Kinds))
  BY KindsAre
<1>5. /\ x \in Job /\ x.at = "publish" /\ x.org = job[w].org /\ x.url = job[w].url
      /\ x.scan = job[w].scan /\ x.events = events /\ x.todo = events
  BY <1>1, <1>4 DEF Job
<1>6. job' = [job EXCEPT ![w] = x]
  BY Same3
<1> HIDE DEF x
<1>7. Works(w, x, d, lost[w])
  BY <1>2, <1>3, <1>5, <1>6, Same3, Still DEF Works
<1>8. Grown /\ StoreInv' /\ sess' = sess
  BY <1>2, Still DEF Grown
<1>9. Handled(w)' = {}
  <2>1. job'[w] = x /\ \A i \in 1..Len(events) - Len(events) : FALSE
    <3>1. \A n \in Nat : \A i \in 1..n - n : FALSE
      OBVIOUS
    <3>2. Len(events) \in Nat
      BY <1>4
    <3>3. job'[w] = x
      BY <1>7, WorksIs
    <3> QED
      BY <3>1, <3>2, <3>3
  <2> QED
    BY <2>1, <1>5 DEF Handled
<1>10. IsTail(events, events)
  BY <1>4 DEF IsTail
<1>11. JobOK(w)'
  BY <1>1, <1>5, <1>7, <1>9, <1>10, WorksIs DEF JobOK
<1>12. DestOK(w)' /\ UrlOfAMember'
  BY <1>2, <1>3, <1>7, WorksIs, Same3 DEF DestOK, UrlOfAMember, IInv
<1>13. x.at = "inapp" <=> sess'[w].step # "idle"
  BY <1>1, <1>5, <1>8 DEF IInv, TypeOK
<1> QED
  BY <1>7, <1>8, <1>11, <1>12, <1>13, WorkStep
LEMMA PublishStep == ASSUME IInv, NEW w \in Creators, Publish(w) PROVE IInv'
<1>1. /\ JobOK(w) /\ job[w] \in Job /\ job[w].at = "publish" /\ job[w].todo # <<>>
      /\ job[w].org \in Orgs /\ job[w].scan \in Scans
  BY Same3 DEF Publish, JobOK
<1> DEFINE x == [job[w] EXCEPT !.at = "inapp"]
<1>2. /\ x \in Job /\ x.at = "inapp" /\ x.org = job[w].org /\ x.url = job[w].url
      /\ x.scan = job[w].scan /\ x.events = job[w].events /\ x.todo = job[w].todo
  BY <1>1 DEF Job
<1>3. /\ job' = [job EXCEPT ![w] = x]
      /\ StartCreate(w, job[w].org, <<job[w].scan, Head(job[w].todo)>>)
      /\ UNCHANGED <<rows, requests, raced, user, dest, drawn, scans, posts, lost, owned>>
  BY Same3 DEF Publish
<1> HIDE DEF x
<1>4. <<job[w].scan, Head(job[w].todo)>> \in Alerts
  <2>1. job[w].todo \in Seq(Range(Kinds))
    BY <1>1 DEF Job
  <2>2. Head(job[w].todo) \in Range(Kinds)
    BY <1>1, <2>1
  <2> QED
    BY <1>1, <2>2, KindsAre
<1>5. /\ StoreInv' /\ sess'[w].step = "look" /\ sess'[w].org = job[w].org
      /\ sess'[w].alert = <<job[w].scan, Head(job[w].todo)>>
      /\ \A t \in Creators \ {w} : sess'[t] = sess[t]
  BY <1>1, <1>3, <1>4, StartCreateStep DEF IInv
<1>6. Works(w, x, dest[w], lost[w])
  BY <1>2, <1>3, <1>5, Same3 DEF Works
<1>7. Grown /\ job'[w] = x /\ dest'[w] = dest[w] /\ lost'[w] = lost[w]
  BY <1>3, <1>6, WorksIs DEF Grown, Same, Ids
<1>8. /\ Handled(w)' = Handled(w) /\ Current(w)' = <<job[w].scan, Head(job[w].todo)>>
      /\ \A a : (Stored(w, a) => Stored(w, a)') /\ (Posted(w, a) => Posted(w, a)')
  BY <1>2, <1>3, <1>7 DEF Handled, Current, Stored, Posted, Grown
<1>9. JobOK(w)'
  BY <1>1, <1>2, <1>3, <1>5, <1>7, <1>8 DEF JobOK
<1>10. DestOK(w)' /\ UrlOfAMember'
  BY <1>3, Same3 DEF DestOK, UrlOfAMember, IInv
<1>11. x.at = "inapp" <=> sess'[w].step # "idle"
  BY <1>2, <1>5
<1> QED
  BY <1>5, <1>6, <1>7, <1>9, <1>10, <1>11, WorkStep

LEMMA InAppStep == ASSUME IInv, NEW w \in Creators, InApp(w) PROVE IInv'
<1>1. /\ CreateStep(w) /\ UNCHANGED <<user, dest, job, drawn, scans, posts, lost, owned>>
  BY DEF InApp
<1>2. StoreInv' /\ CreateGoesOn(w)
  BY <1>1, CreateStepStep DEF IInv
<1>3. job[w].at = "inapp" /\ JobOK(w)
  BY <1>2, Same3 DEF IInv, TypeOK, CreateGoesOn
<1>4. Works(w, job[w], dest[w], lost[w])
  BY <1>1, <1>2, Same3 DEF Works, CreateGoesOn
<1>5. Grown /\ job'[w] = job[w]
  BY <1>1, <1>2 DEF Grown, CreateGoesOn
<1>6. /\ Handled(w)' = Handled(w) /\ Current(w)' = Current(w)
      /\ \A a : (Stored(w, a) => Stored(w, a)') /\ (Posted(w, a) => Posted(w, a)')
  BY <1>1, <1>5 DEF Handled, Current, Stored, Posted, Grown
<1>7. JobOK(w)'
  BY <1>1, <1>2, <1>3, <1>6 DEF JobOK, CreateGoesOn
<1>8. DestOK(w)' /\ UrlOfAMember'
  BY <1>1, Same3 DEF DestOK, UrlOfAMember, IInv
<1>9. job[w].at = "inapp" <=> sess'[w].step # "idle"
  BY <1>2, <1>3 DEF CreateGoesOn
<1> QED
  BY <1>2, <1>4, <1>5, <1>7, <1>8, <1>9, WorkStep

LEMMA InAppDoneStep == ASSUME IInv, NEW w \in Creators, InAppDone(w) PROVE IInv'
<1>1. /\ JobOK(w) /\ job[w] \in Job /\ job[w].at = "inapp" /\ sess[w].step = "done"
      /\ w \in Sessions /\ CreatorOK(w) /\ sess[w].org = job[w].org /\ sess[w].alert = Current(w)
  BY Same3, Apart DEF InAppDone, JobOK, IInv, StoreInv, SessionsOK
<1> DEFINE x == [job[w] EXCEPT !.at = "webhook"]
           f == IF sess[w].reply.kind = "failed" THEN lost[w] \cup {sess[w].alert} ELSE lost[w]
<1>2. /\ x \in Job /\ x.at = "webhook" /\ x.org = job[w].org /\ x.url = job[w].url
      /\ x.scan = job[w].scan /\ x.events = job[w].events /\ x.todo = job[w].todo
  BY <1>1 DEF Job
<1>3. /\ job' = [job EXCEPT ![w] = x] /\ lost' = [lost EXCEPT ![w] = f] /\ Close(w)
      /\ UNCHANGED <<user, dest, drawn, scans, posts, owned>>
  BY Same3 DEF InAppDone
<1>4. f \in SUBSET Alerts /\ lost[w] \subseteq f /\ (sess[w].reply.kind = "failed" => Current(w) \in f)
  BY <1>1, Same3 DEF CreatorOK
<1> HIDE DEF x, f
<1>5. /\ StoreInv' /\ \A t \in Sessions : sess'[t] = IF t = w THEN Idle ELSE sess[t]
  BY <1>1, <1>3, CloseStep DEF IInv
<1>6. /\ rows' = rows /\ \A t \in Creators \ {w} : sess'[t] = sess[t]
      /\ sess'[w].step = "idle"
  BY <1>1, <1>3, <1>5, Apart, IdleIs DEF Close
<1>7. Works(w, x, dest[w], f)
  BY <1>2, <1>3, <1>4, <1>6, Same3 DEF Works
<1>8. Grown /\ job'[w] = x /\ dest'[w] = dest[w] /\ lost'[w] = f
  BY <1>3, <1>6, <1>7, WorksIs DEF Grown, Same, Ids
<1>9. /\ Handled(w)' = Handled(w) /\ Current(w)' = Current(w)
      /\ \A a : (Stored(w, a) => Stored(w, a)') /\ (Posted(w, a) => Posted(w, a)')
  BY <1>2, <1>3, <1>4, <1>8 DEF Handled, Current, Stored, Posted, Grown
<1>10. \A a : a = Current(w) => Stored(w, a)'
  <2>1. CASE sess[w].reply.kind = "failed"
    BY <2>1, <1>4, <1>8 DEF Stored
  <2>2. CASE sess[w].reply.kind = "row"
    <3>1. sess[w].reply.n \in Same(job[w].org, Current(w))
      BY <1>1, <2>2 DEF CreatorOK, Of
    <3>2. \A org, a : Same(org, a)' = Same(org, a)
      BY <1>6 DEF Same, Ids
    <3> QED
      BY <1>2, <1>8, <3>1, <3>2 DEF Stored
  <2> QED
    BY <2>1, <2>2, <1>1 DEF CreatorOK
<1>11. JobOK(w)'
  BY <1>1, <1>2, <1>3, <1>8, <1>9, <1>10 DEF JobOK
<1>12. DestOK(w)' /\ UrlOfAMember'
  BY <1>3, Same3 DEF DestOK, UrlOfAMember, IInv
<1>13. x.at = "inapp" <=> sess'[w].step # "idle"
  BY <1>2, <1>6
<1> QED
  BY <1>5, <1>7, <1>8, <1>11, <1>12, <1>13, WorkStep
\* Taking the head of what is left of events.
Takes(e, t) ==
    /\ IsTail(e, Tail(t)) /\ Tail(t) \in Seq(Range(Kinds))
    /\ \A i \in 1..(Len(e) - Len(Tail(t))) : i \in 1..(Len(e) - Len(t)) \/ e[i] = Head(t)

LEMMA TailOf ==
    ASSUME NEW e \in Seq(Range(Kinds)), NEW t \in Seq(Range(Kinds)), IsTail(e, t), t # <<>>
    PROVE  Takes(e, t)
<1>1. /\ Len(t) \in Nat \ {0} /\ Len(e) \in Nat /\ Tail(t) \in Seq(Range(Kinds)) /\ Len(Tail(t)) = Len(t) - 1
      /\ Head(t) = t[1] /\ \A k \in 1..Len(t) - 1 : Tail(t)[k] = t[k + 1]
  OBVIOUS
<1>2. e[Len(e) - Len(t) + 1] = Head(t)
  BY <1>1 DEF IsTail
<1>3. ASSUME NEW k \in 1..Len(Tail(t)) PROVE Tail(t)[k] = e[Len(e) - Len(Tail(t)) + k]
  <2>1. k + 1 \in 1..Len(t) /\ Len(e) - Len(Tail(t)) + k = Len(e) - Len(t) + (k + 1)
    BY <1>1
  <2>2. t[k + 1] = e[Len(e) - Len(t) + (k + 1)]
    BY <2>1 DEF IsTail
  <2> QED
    BY <1>1, <2>1, <2>2
<1>4. ASSUME NEW i \in 1..(Len(e) - Len(Tail(t))) PROVE i \in 1..(Len(e) - Len(t)) \/ e[i] = Head(t)
  <2>1. i \in 1..(Len(e) - Len(t)) \/ i = Len(e) - Len(t) + 1
    BY <1>1
  <2> QED
    BY <1>2, <2>1
<1>5. Len(Tail(t)) <= Len(e)
  BY <1>1 DEF IsTail
<1>6. IsTail(e, Tail(t))
  BY <1>3, <1>5 DEF IsTail
<1> QED
  BY <1>1, <1>4, <1>6 DEF Takes

LEMMA PostAlertStep == ASSUME IInv, NEW w \in Creators, PostAlert(w) PROVE IInv'
<1>1. /\ JobOK(w) /\ DestOK(w) /\ job[w] \in Job /\ job[w].at = "webhook" /\ job[w].todo # <<>>
      /\ job[w].org \in Orgs /\ job[w].scan \in Scans /\ IsTail(job[w].events, job[w].todo)
      /\ job[w].events \in Seq(Range(Kinds)) /\ job[w].todo \in Seq(Range(Kinds))
  BY Same3, KindsAre DEF PostAlert, JobOK, Job
<1>2. /\ IsTail(job[w].events, Tail(job[w].todo)) /\ Tail(job[w].todo) \in Seq(Range(Kinds))
      /\ \A i \in 1..(Len(job[w].events) - Len(Tail(job[w].todo))) :
            i \in 1..(Len(job[w].events) - Len(job[w].todo)) \/ job[w].events[i] = Head(job[w].todo)
  <2>1. Takes(job[w].events, job[w].todo)
    BY <1>1, TailOf
  <2> QED
    BY <2>1 DEF Takes
<1>3. Head(job[w].todo) \in Range(Kinds) /\ Current(w) \in Alerts
  <2>1. Head(job[w].todo) \in Range(Kinds)
    BY <1>1
  <2> QED
    BY <1>1, <2>1, KindsAre DEF Current
<1> DEFINE x == [job[w] EXCEPT !.at = "publish", !.todo = Tail(@)]
           new == {p \in Post : /\ p.org = job[w].org /\ p.url = dest[w][p.org]
                                /\ p.alert = <<job[w].scan, Head(job[w].todo)>>}
<1>4. /\ x \in Job /\ x.at = "publish" /\ x.org = job[w].org /\ x.url = job[w].url
      /\ x.scan = job[w].scan /\ x.events = job[w].events /\ x.todo = Tail(job[w].todo)
  BY <1>1, <1>2 DEF Job
<1>5. /\ job' = [job EXCEPT ![w] = x] /\ posts' = posts \cup new
      /\ UNCHANGED <<storeVars, user, dest, drawn, scans, lost, owned>>
  BY Same3 DEF PostAlert
<1>6. new \subseteq Post /\ \A p \in new : p.url \in owned[p.org]
  <2>1. ASSUME NEW p \in new PROVE p.url \in owned[p.org]
    <3>1. p.org \in Orgs /\ p.url \in Urls /\ p.url = dest[w][p.org]
      BY DEF Post
    <3> QED
      BY <1>1, <3>1, PersonalAssumption DEF DestOK
  <2> QED
    BY <2>1
<1>7. dest[w][job[w].org] # None =>
         [org |-> job[w].org, url |-> dest[w][job[w].org], alert |-> Current(w)] \in new
  <2> SUFFICES ASSUME dest[w][job[w].org] # None
               PROVE  [org |-> job[w].org, url |-> dest[w][job[w].org], alert |-> Current(w)] \in new
    OBVIOUS
  <2> DEFINE p == [org |-> job[w].org, url |-> dest[w][job[w].org], alert |-> Current(w)]
  <2>1. dest[w][job[w].org] \in Urls
    BY <1>1, Same3
  <2>2. p \in Post
    BY <1>1, <1>3, <2>1 DEF Post
  <2>3. p.org = job[w].org /\ p.url = dest[w][p.org] /\ p.alert = <<job[w].scan, Head(job[w].todo)>>
    BY DEF Current
  <2> QED
    BY <2>2, <2>3
<1> HIDE DEF x, new
<1>8. Works(w, x, dest[w], lost[w])
  BY <1>4, <1>5, <1>6, Same3, Still DEF Works
<1>9. /\ Grown /\ job'[w] = x /\ dest'[w] = dest[w] /\ lost'[w] = lost[w]
      /\ StoreInv' /\ sess' = sess
  BY <1>5, <1>8, WorksIs, Still DEF Grown
<1>10. \A a : (Stored(w, a) => Stored(w, a)') /\ (Posted(w, a) => Posted(w, a)')
  BY <1>4, <1>9 DEF Stored, Posted, Grown
<1>11. Stored(w, Current(w)) /\ \A a : a = Current(w) => Posted(w, a)'
  BY <1>1, <1>4, <1>5, <1>7, <1>9 DEF Posted, JobOK
<1>12. \A a \in Handled(w)' : a \in Handled(w) \/ a = Current(w)
  BY <1>2, <1>4, <1>9 DEF Handled, Current
<1>13. \A a \in Handled(w)' : Stored(w, a)' /\ Posted(w, a)'
  BY <1>1, <1>10, <1>11, <1>12 DEF JobOK
<1>14. JobOK(w)'
  BY <1>1, <1>2, <1>4, <1>5, <1>9, <1>13 DEF JobOK
<1>15. DestOK(w)' /\ UrlOfAMember'
  BY <1>5, <1>6, Same3 DEF DestOK, UrlOfAMember, IInv
<1>16. x.at = "inapp" <=> sess'[w].step # "idle"
  BY <1>1, <1>4, <1>9 DEF IInv, TypeOK
<1> QED
  BY <1>8, <1>9, <1>14, <1>15, <1>16, WorkStep

LEMMA FinishStep == ASSUME IInv, NEW w \in Creators, Finish(w) PROVE IInv'
<1>1. /\ job[w].at = "publish" /\ job' = [job EXCEPT ![w] = NoJob] /\ lost' = [lost EXCEPT ![w] = {}]
      /\ UNCHANGED <<storeVars, user, dest, drawn, scans, posts, owned>>
  BY DEF Finish
<1>2. NoJob \in Job /\ NoJob.at = "idle" /\ NoJob.events = <<>> /\ NoJob.todo = <<>>
  BY KindsAre DEF NoJob, Job
<1>3. Works(w, NoJob, dest[w], {})
  BY <1>1, <1>2, Same3, Still DEF Works
<1>4. Grown /\ StoreInv' /\ sess' = sess
  BY <1>1, Still DEF Grown
<1>5. job'[w] = NoJob /\ Len(<<>>) = 0 /\ \A i \in 1..0 - 0 : FALSE
  BY <1>3, WorksIs
<1>6. JobOK(w)'
  <2>1. Handled(w)' = {}
    BY <1>2, <1>5 DEF Handled
  <2>2. IsTail(NoJob.events, NoJob.todo)
    BY <1>2, <1>5 DEF IsTail
  <2> QED
    BY <1>2, <1>5, <2>1, <2>2 DEF JobOK
<1>7. DestOK(w)' /\ UrlOfAMember'
  BY <1>1, Same3 DEF DestOK, UrlOfAMember, IInv
<1>8. NoJob.at = "inapp" <=> sess'[w].step # "idle"
  BY <1>1, <1>2, <1>4 DEF IInv, TypeOK
<1> QED
  BY <1>3, <1>4, <1>6, <1>7, <1>8, WorkStep
-----------------------------------------------------------------------------
\* Accounts, routes and the whole system.

LEMMA BecomesStep ==
    ASSUME IInv, NEW u \in Users, NEW org \in Orgs \cup {None}, NEW url \in Urls \cup {None},
           Becomes(u, org, url)
    PROVE  IInv'
<1>1. /\ requests < MaxRequests /\ requests' = requests + 1
      /\ user' = [user EXCEPT ![u] = [org |-> org, url |-> url]]
      /\ owned' = [o \in Orgs |-> IF o = org THEN owned[o] \cup ({url} \ {None}) ELSE owned[o]]
      /\ UNCHANGED <<rows, sess, raced, dest, job, drawn, scans, posts, lost>>
  BY DEF Becomes
<1>2. user \in [Users -> Account] /\ owned \in [Orgs -> SUBSET Urls]
  BY DEF IInv, TypeOK
<1>3. /\ StoreInv' /\ sess' = sess /\ \A o, a : Same(o, a)' = Same(o, a)
  <2>1. requests' \in 0..MaxRequests
    BY <1>1, SessionsAssumption DEF IInv, StoreInv, StoreTypeOK
  <2> QED
    BY <1>1, <2>1, StillBut
<1>4. owned' \in [Orgs -> SUBSET Urls] /\ \A o \in Orgs : owned[o] \subseteq owned'[o]
  BY <1>1, <1>2
<1>5. user' \in [Users -> Account] /\ user'[u] = [org |-> org, url |-> url]
      /\ \A v \in Users \ {u} : user'[v] = user[v]
  BY <1>1, <1>2 DEF Account
<1>6. AccountInv'
  <2> SUFFICES ASSUME NEW v \in Users, user'[v].org \in Orgs, user'[v].url \in Urls
               PROVE  user'[v].url \in owned'[user'[v].org]
    BY DEF AccountInv
  <2>1. CASE v = u
    BY <1>1, <1>5, <2>1, PersonalAssumption
  <2>2. CASE v # u
    BY <1>4, <1>5, <2>2 DEF IInv, AccountInv
  <2> QED
    BY <2>1, <2>2
<1>7. Grown
  BY <1>1, <1>3, <1>4 DEF Grown
<1>8. PipeInv'
  BY <1>1, <1>3, <1>7, Untouched DEF PipeInv
<1>9. UrlOfAMember'
  BY <1>1, <1>4 DEF IInv, TypeOK, UrlOfAMember, Post
<1>10. TypeOK'
  BY <1>1, <1>3, <1>4, <1>5 DEF IInv, TypeOK, StoreInv
<1> QED
  BY <1>3, <1>6, <1>8, <1>9, <1>10 DEF IInv

LEMMA AccountStep ==
    ASSUME IInv, NEW u \in Users,
           (\E url \in Urls \cup {None} : SaveUrl(u, url)) \/ (\E org \in Orgs : JoinOrg(u, org))
    PROVE  IInv'
<1>1. user[u].org \in Orgs \cup {None} /\ user[u].url \in Urls \cup {None} /\ Personal[u] \in Orgs
  BY PersonalAssumption DEF IInv, TypeOK, Account
<1>2. ASSUME NEW url \in Urls \cup {None}, SaveUrl(u, url) PROVE IInv'
  <2> DEFINE org == IF url # None /\ user[u].org = None THEN Personal[u] ELSE user[u].org
  <2>1. org \in Orgs \cup {None} /\ Becomes(u, org, url)
    BY <1>1, <1>2 DEF SaveUrl
  <2> HIDE DEF org
  <2> QED
    BY <2>1, BecomesStep
<1>3. ASSUME NEW org \in Orgs, JoinOrg(u, org) PROVE IInv'
  BY <1>1, <1>3, BecomesStep DEF JoinOrg
<1> QED
  BY <1>2, <1>3

LEMMA RouteStep == ASSUME IInv, NEW s \in Readers, Route(s) PROVE IInv'
<1>1. /\ StoreInv' /\ ReadersOnly
      /\ UNCHANGED <<user, dest, job, drawn, scans, posts, lost, owned>>
  BY ReaderStepStep DEF Route, IInv
<1>2. Grown
  BY <1>1 DEF Grown, ReadersOnly
<1>3. PipeInv'
  BY <1>1, <1>2, Untouched DEF PipeInv, ReadersOnly
<1>4. TypeOK'
  BY <1>1 DEF IInv, TypeOK, StoreInv, ReadersOnly
<1>5. AccountInv' /\ UrlOfAMember'
  BY <1>1 DEF IInv, AccountInv, UrlOfAMember
<1> QED
  BY <1>1, <1>3, <1>4, <1>5 DEF IInv

LEMMA InitLemma == Init => IInv
<1> SUFFICES ASSUME Init PROVE IInv
  OBVIOUS
<1>1. rows = <<>> /\ Ids = {} /\ rows \in Seq(Row)
  BY DEF Init, StoreInit, Ids
<1>2. \A s \in Sessions : sess[s] = Idle /\ raced[s] = {}
  BY DEF Init, StoreInit
<1>3. StoreInv
  <2>1. StoreTypeOK
    BY <1>1, <1>2, IdleIs, SessionsAssumption DEF StoreTypeOK, Init, StoreInit
  <2>2. \A s \in Sessions : CreatorOK(s) /\ ReaderOK(s)
    BY <1>2, IdleIs DEF CreatorOK, ReaderOK
  <2> QED
    BY <1>1, <2>1, <2>2 DEF StoreInv, UniqueRows, SessionsOK, Sessions
<1>4. /\ NoJob \in Job /\ NoJob.at = "idle" /\ NoJob.events = <<>> /\ NoJob.todo = <<>>
      /\ Len(<<>>) = 0 /\ \A i \in 1..0 - 0 : FALSE
  BY KindsAre DEF NoJob, Job
<1>5. owned \in [Orgs -> SUBSET Urls]
  BY AccountsAssumption DEF Init, Account
<1>6. TypeOK
  BY <1>2, <1>3, <1>4, <1>5, IdleIs, Apart, AccountsAssumption, BoundsAssumption
     DEF TypeOK, Init, StoreInv
<1>7. AccountInv
  <2> SUFFICES ASSUME NEW u \in Users, user[u].org \in Orgs, user[u].url \in Urls
               PROVE  user[u].url \in owned[user[u].org]
    BY DEF AccountInv
  <2> QED
    BY PersonalAssumption DEF Init
<1>8. \A w \in Creators : JobOK(w) /\ DestOK(w)
  <2> SUFFICES ASSUME NEW w \in Creators PROVE JobOK(w) /\ DestOK(w)
    OBVIOUS
  <2>1. job[w] = NoJob /\ DestOK(w)
    BY DEF Init, DestOK
  <2>2. Handled(w) = {} /\ IsTail(NoJob.events, NoJob.todo)
    BY <1>4, <2>1 DEF Handled, IsTail
  <2> QED
    BY <1>4, <2>1, <2>2 DEF JobOK
<1>9. UrlOfAMember
  BY DEF Init, UrlOfAMember
<1> QED
  BY <1>3, <1>6, <1>7, <1>8, <1>9 DEF IInv, PipeInv

LEMMA Unchanged == IInv /\ UNCHANGED vars => IInv'
<1> SUFFICES ASSUME IInv, UNCHANGED vars PROVE IInv'
  OBVIOUS
<1>1. UNCHANGED <<storeVars, user, dest, job, drawn, scans, posts, lost, owned>>
  BY DEF vars
<1>2. StoreInv' /\ sess' = sess /\ \A o, a : Same(o, a)' = Same(o, a)
  BY <1>1, Still
<1>3. PipeInv'
  <2>1. Grown
    BY <1>1, <1>2 DEF Grown
  <2> QED
    BY <1>1, <1>2, <2>1, Untouched DEF PipeInv
<1> QED
  BY <1>1, <1>2, <1>3 DEF IInv, TypeOK, StoreInv, AccountInv, UrlOfAMember

LEMMA NextStep == IInv /\ [Next]_vars => IInv'
<1> SUFFICES ASSUME IInv, Next PROVE IInv'
  BY Unchanged
<1>1. ASSUME NEW w \in Creators, Scan(w) PROVE IInv'
  BY <1>1, CaptureStep, RegisterStep, PublishStep, InAppStep, InAppDoneStep, PostAlertStep, FinishStep
     DEF Scan
<1> QED
  BY <1>1, RouteStep, AccountStep DEF Next

-----------------------------------------------------------------------------

\* The strengthened invariant holds in every state of the processes and their routes.
THEOREM InductiveInvariant == Spec => []IInv
<1>1. Init => IInv
  BY InitLemma
<1>2. IInv /\ [Next]_vars => IInv'
  BY NextStep
<1> QED
  BY <1>1, <1>2, PTL DEF Spec

\* Every variable keeps its type.
THEOREM TypeCorrect == Spec => []TypeOK
<1>1. IInv => TypeOK
  BY DEF IInv
<1> QED
  BY <1>1, InductiveInvariant, PTL

\* An organization's alerts go only to a URL that one of its members had set, whatever
\* happens to accounts between a scan's start and its posts.
THEOREM TenantsApart == Spec => []UrlOfAMember
<1>1. IInv => UrlOfAMember
  BY DEF IInv
<1> QED
  BY <1>1, InductiveInvariant, PTL

\* However many processes create it at once, an alert is one notification, and each channel
\* has handled it whatever became of the other.
THEOREM AlertsHandledOnce == Spec => []EachAlertOnce
<1>1. IInv => EachAlertOnce
  <2> SUFFICES ASSUME IInv PROVE EachAlertOnce
    OBVIOUS
  <2>1. \A i, j \in Ids : rows[i].org = rows[j].org /\ rows[i].alert = rows[j].alert => i = j
    BY DEF IInv, StoreInv, UniqueRows
  <2>2. ASSUME NEW s \in Creators, sess[s].reply.kind = "row" PROVE Of(s) = {sess[s].reply.n}
    <3>1. sess[s].reply.n \in Of(s)
      BY <2>2 DEF IInv, StoreInv, SessionsOK, CreatorOK
    <3> QED
      BY <2>1, <3>1 DEF Of, Same
  <2>3. \A w \in Creators : \A a \in Handled(w) : Stored(w, a) /\ Posted(w, a)
    BY DEF IInv, PipeInv, JobOK
  <2> QED
    BY <2>1, <2>2, <2>3 DEF EachAlertOnce, OneRowPerAlert, Stored, Posted
<1> QED
  BY <1>1, InductiveInvariant, PTL

\* A route's reply is what the table says, unless another session raced it.
THEOREM RepliesKnown == Spec => []ReplyIsCurrentOrRaced
<1>1. IInv => ReplyIsCurrentOrRaced
  BY DEF IInv, StoreInv, SessionsOK, ReaderOK, ReplyIsCurrentOrRaced
<1> QED
  BY <1>1, InductiveInvariant, PTL

-----------------------------------------------------------------------------
\* The table, organization by organization.

\* A route holds rows of the organization it was called for and no others.
SeenInv == \A s \in Readers : \A i \in sess[s].seen : rows[i].org = sess[s].org

\* A row stays, with its organization and alert; who marks it acts for its organization; and
\* a new row is unread and belongs to the organization of a scan that is being dispatched.
RowsStayHome ==
    /\ \A i \in Ids :
          /\ i \in Ids' /\ rows'[i].org = rows[i].org /\ rows'[i].alert = rows[i].alert
          /\ rows'[i].read # rows[i].read =>
                \E s \in Readers : i \in sess[s].seen /\ sess[s].org = rows[i].org
    /\ \A i \in Ids' \ Ids :
          /\ ~rows'[i].read
          /\ \E w \in Creators : job[w].at = "inapp" /\ rows'[i].org = job[w].org

\* Only three steps write rows.
LEMMA RowsWritten ==
    ASSUME IInv, Next
    PROVE  \/ rows' = rows
           \/ \E w \in Creators : Insert(w) /\ Of(w) = {}
           \/ \E s \in Readers : Mark(s, sess[s].seen, sess[s].asked) \/ Mark(s, sess[s].seen, TRUE)
<1>1. ASSUME NEW w \in Creators, Scan(w)
      PROVE  rows' = rows \/ (Insert(w) /\ Of(w) = {})
  BY <1>1 DEF Scan, Capture, Register, Publish, InApp, CreateStep, Look, Insert, Requery, CreateFails,
              InAppDone, Close, PostAlert, Finish, storeVars
<1>2. ASSUME NEW s \in Readers, Route(s)
      PROVE  rows' = rows \/ Mark(s, sess[s].seen, sess[s].asked) \/ Mark(s, sess[s].seen, TRUE)
  BY <1>2 DEF Route, ReaderStep, Patch, FindUnread, Decide, Refresh, MarkAll, Close
<1>3. ASSUME NEW u, NEW org, NEW url, Becomes(u, org, url) PROVE rows' = rows
  BY <1>3 DEF Becomes, storeVars
<1> QED
  BY <1>1, <1>2, <1>3 DEF Next, SaveUrl, JoinOrg

LEMMA RowsStep == ASSUME IInv, SeenInv, Next PROVE RowsStayHome
<1>1. /\ rows \in Seq(Row) /\ Ids = 1..Len(rows) /\ Len(rows) \in Nat /\ StoreInv
      /\ \A i \in Ids : rows[i] \in Row
  BY RowsAre DEF IInv
<1>2. CASE rows' = rows
  BY <1>2 DEF RowsStayHome, Ids
<1>3. ASSUME NEW w \in Creators, Insert(w), Of(w) = {} PROVE RowsStayHome
  <2> DEFINE row == [org |-> sess[w].org, alert |-> sess[w].alert, read |-> FALSE]
  <2>1. rows' = Append(rows, row) /\ sess[w].step = "insert"
    BY <1>3 DEF Insert
  <2>2. row.org = sess[w].org /\ ~row.read
    OBVIOUS
  <2>3. job[w].at = "inapp" /\ sess[w].org = job[w].org
    BY <2>1, Same3 DEF IInv, TypeOK, JobOK
  <2> HIDE DEF row
  <2>4. /\ Ids' = 1..Len(rows) + 1 /\ rows'[Len(rows) + 1] = row
        /\ \A i \in Ids : rows'[i] = rows[i]
    BY <1>1, <2>1 DEF Ids
  <2>5. Ids \subseteq Ids' /\ \A i \in Ids' \ Ids : i = Len(rows) + 1
    BY <1>1, <2>4
  <2> QED
    BY <2>2, <2>3, <2>4, <2>5 DEF RowsStayHome
<1>4. ASSUME NEW s \in Readers, NEW read \in BOOLEAN, Mark(s, sess[s].seen, read) PROVE RowsStayHome
  <2>1. sess[s].seen \in SUBSET Ids
    BY <1>1, Apart DEF StoreInv, StoreTypeOK
  <2>2. rows' = [i \in Ids |-> IF i \in sess[s].seen THEN [rows[i] EXCEPT !.read = read] ELSE rows[i]]
    BY <1>4 DEF Mark
  <2>3. Ids' = Ids
    BY <2>2 DEF Ids
  <2>4. ASSUME NEW i \in Ids
        PROVE  /\ rows'[i].org = rows[i].org /\ rows'[i].alert = rows[i].alert
               /\ rows'[i].read # rows[i].read => i \in sess[s].seen
    <3>1. rows'[i] = IF i \in sess[s].seen THEN [rows[i] EXCEPT !.read = read] ELSE rows[i]
      BY <2>2
    <3> QED
      BY <1>1, <3>1 DEF Row
  <2> QED
    BY <2>3, <2>4 DEF RowsStayHome, SeenInv
<1>5. \A s \in Readers : sess[s].asked \in BOOLEAN
  BY <1>1, Apart DEF StoreInv, StoreTypeOK, Session
<1> QED
  BY <1>2, <1>3, <1>4, <1>5, RowsWritten

\* What a route holds changes only when it reads the table.
LEMMA SeenStep == ASSUME IInv, SeenInv, Next PROVE SeenInv'
<1>1. \A i \in Ids : rows'[i].org = rows[i].org
  BY RowsStep DEF RowsStayHome
<1>2. /\ StoreInv /\ \A t \in Readers : t \in Sessions /\ t \notin Creators
      /\ sess \in [Sessions -> Session]
      /\ \A t \in Readers : sess[t].seen \subseteq Ids /\ sess[t] \in Session
  BY Apart DEF IInv, StoreInv, StoreTypeOK
<1>3. ASSUME NEW t \in Readers,
             \/ sess'[t].seen = sess[t].seen /\ sess'[t].org = sess[t].org
             \/ \A i \in sess'[t].seen : i \in Ids /\ rows[i].org = sess'[t].org
      PROVE  \A i \in sess'[t].seen : rows'[i].org = sess'[t].org
  BY <1>1, <1>2, <1>3 DEF SeenInv
<1>4. ASSUME NEW w \in Creators, Scan(w), NEW t \in Readers PROVE sess'[t] = sess[t]
  <2>1. w # t
    BY <1>2
  <2> QED
    BY <1>2, <1>4, <2>1 DEF Scan, Capture, Register, Publish, StartCreate, InApp, CreateStep, Look, Insert,
        Requery, CreateFails, Answer, InAppDone, Close, PostAlert, Finish, storeVars
<1>5. ASSUME NEW s \in Readers, Route(s), NEW t \in Readers
      PROVE  \/ sess'[t].seen = sess[t].seen /\ sess'[t].org = sess[t].org
             \/ \A i \in sess'[t].seen : i \in Ids /\ rows[i].org = sess'[t].org
  <2>1. CASE t # s
    BY <1>2, <1>5, <2>1 DEF Route, ReaderStep, Patch, FindUnread, Decide, Refresh, MarkAll, Close, Answer
  <2>2. CASE t = s
    <3>1. ASSUME NEW org \in Orgs, NEW i \in Ids, NEW asked \in BOOLEAN, Patch(s, org, i, asked)
          PROVE  sess'[s].seen = {i} /\ sess'[s].org = org /\ rows[i].org = org
      BY <1>2, <3>1 DEF Patch, Idle
    <3>2. ASSUME NEW org \in Orgs, FindUnread(s, org)
          PROVE  sess'[s].seen = UnreadOf(org) /\ sess'[s].org = org
      BY <1>2, <3>2 DEF FindUnread, Idle
    <3>3. CASE Close(s)
      BY <1>2, <3>3 DEF Close, Idle
    <3>4. CASE Decide(s) \/ Refresh(s) \/ MarkAll(s)
      <4>1. sess[s] \in Session
        BY <1>2
      <4>2. \/ sess' = [sess EXCEPT ![s].step = "refresh"]
            \/ \E kind, n : sess' = [sess EXCEPT ![s].step = "done", ![s].reply = [kind |-> kind, n |-> n]]
        BY <3>4 DEF Decide, Refresh, MarkAll, Answer
      <4> QED
        BY <1>2, <2>2, <4>1, <4>2 DEF Session
    <3> QED
      BY <1>5, <2>2, <3>1, <3>2, <3>3, <3>4 DEF Route, ReaderStep, UnreadOf
  <2> QED
    BY <2>1, <2>2
<1>6. ASSUME NEW u, NEW org, NEW url, Becomes(u, org, url) PROVE sess' = sess
  BY <1>6 DEF Becomes, storeVars
<1> QED
  BY <1>3, <1>4, <1>5, <1>6 DEF Next, SaveUrl, JoinOrg, SeenInv

\* Tenant isolation of the table: no create, PATCH or mark-all-read, in whatever order their
\* reads and writes fall, removes, moves or marks a notification of another organization, and
\* a scan adds to its own organization's only.
THEOREM NotificationsStayHome == Spec => [][RowsStayHome]_vars
<1>1. Init => SeenInv
  BY Apart DEF Init, StoreInit, SeenInv, Idle
<1>2. IInv /\ SeenInv /\ [Next]_vars => SeenInv'
  <2>1. ASSUME SeenInv, UNCHANGED vars PROVE SeenInv'
    BY <2>1 DEF vars, storeVars, SeenInv
  <2> QED
    BY <2>1, SeenStep
<1>3. IInv /\ SeenInv /\ [Next]_vars => [RowsStayHome]_vars
  BY RowsStep
<1> QED
  BY <1>1, <1>2, <1>3, InductiveInvariant, PTL DEF Spec
=============================================================================
