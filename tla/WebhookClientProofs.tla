--------------------------- MODULE WebhookClientProofs ---------------------------
(***************************************************************************)
(* Proofs about WebhookClient for any deadline, timeouts, backoff, number  *)
(* of attempts, of operations in an exchange, and lateness of the clock.   *)
(*                                                                         *)
(* The properties look at the list of outcomes and at the clock when send  *)
(* is between phases; OutcomesInv says how long the list is in each phase  *)
(* and what may stand in it, and ClockInv what is left of the deadline.    *)
(*                                                                         *)
(* StepsLeft, at the end, decreases with every step of a call.             *)
(***************************************************************************)
EXTENDS WebhookClient, TLAPS

InAttempt == {"connect", "handshake", "exchange"}
Between == {"attempt", "sleep"}

\* The outcomes are those of the attempts that ended; all but the last were to be retried.
OutcomesInv ==
    /\ outcomes \in Seq(Outcomes)
    /\ phase \in {"begin", "dns"} => attempts = 0
    /\ IF phase \in InAttempt THEN attempts = Len(outcomes) + 1 ELSE attempts = Len(outcomes)
    /\ phase \in InAttempt \cup Between => \A i \in 1..Len(outcomes) : outcomes[i] \in Retryable
    /\ phase = "done" => \A i \in 1..Len(outcomes) : i < attempts => outcomes[i] \in Retryable
    /\ phase = "done" /\ attempts > 0 => status \in Verdict(outcomes[Len(outcomes)])
    /\ phase = "done" /\ attempts = 0 =>
          status \in {"CONNECTION_TIMEOUT", "DNS_RESOLUTION_FAILED", "SSRF_BLOCKED"}

\* What is left of the deadline in each phase.
ClockInv ==
    /\ now \in Nat /\ limit \in Nat /\ nap \in Nat /\ ops \in 0..MaxOps
    /\ phase \in {"begin", "dns"} => now = 0
    /\ phase = "connect" => limit <= ConnectTimeout /\ now + limit <= Deadline
    /\ phase = "handshake" => limit <= ConnectTimeout /\ now <= Deadline
    /\ phase = "exchange" => limit <= ReadTimeout /\ now + limit <= Deadline + ops * limit
    /\ phase = "sleep" => now + nap < Deadline
    /\ EndsInBoundedTime

IInv ==
    /\ phase \in Phases /\ status \in Statuses
    /\ attempts \in 0..MaxAttempts
    /\ phase \in {"attempt", "sleep"} => attempts < MaxAttempts
    /\ OutcomesInv /\ ClockInv

-----------------------------------------------------------------------------
\* The latest moment, and what it is at least.
Latest == Greatest(Deadline + Greatest(Oversleep, Greatest(ConnectTimeout, (MaxOps - 1) * ReadTimeout)),
                   MaxDns)

LEMMA LatestIs ==
    /\ Latest \in Nat
    /\ Deadline + Oversleep <= Latest /\ Deadline + ConnectTimeout <= Latest
    /\ Deadline + (MaxOps - 1) * ReadTimeout <= Latest /\ MaxDns <= Latest
    /\ Deadline <= Latest
<1> DEFINE w == (MaxOps - 1) * ReadTimeout
<1>1. w \in Nat
  <2>1. \A a, b \in Nat : a * b \in Nat
    OBVIOUS
  <2>2. MaxOps - 1 \in Nat /\ ReadTimeout \in Nat
    BY TimesAssumption, CountsAssumption
  <2> QED
    BY <2>1, <2>2
<1> HIDE DEF w
<1>2. Deadline \in Nat /\ Oversleep \in Nat /\ ConnectTimeout \in Nat /\ MaxDns \in Nat
  BY TimesAssumption
<1>3. Latest = Greatest(Deadline + Greatest(Oversleep, Greatest(ConnectTimeout, w)), MaxDns)
  BY DEF Latest, w
<1>4. /\ Latest \in Nat
      /\ Deadline + Oversleep <= Latest /\ Deadline + ConnectTimeout <= Latest
      /\ Deadline + w <= Latest /\ MaxDns <= Latest /\ Deadline <= Latest
  BY <1>1, <1>2, <1>3 DEF Greatest
<1> QED
  BY <1>4 DEF w

LEMMA BoundedIs == EndsInBoundedTime <=> now <= Latest
BY DEF EndsInBoundedTime, Latest

\* What an attempt in progress knows, whichever of the three phases it is in.
LEMMA Ending ==
    ASSUME IInv, phase \in InAttempt, NEW o \in Outcomes, Ends(o)
    PROVE  /\ outcomes' \in Seq(Outcomes) /\ Len(outcomes') = attempts /\ attempts > 0
           /\ attempts <= MaxAttempts /\ attempts \in Nat
           /\ \A i \in 1..attempts - 1 : outcomes'[i] \in Retryable
           /\ outcomes'[attempts] = o
<1>1. /\ outcomes \in Seq(Outcomes) /\ outcomes' = Append(outcomes, o)
      /\ attempts = Len(outcomes) + 1 /\ attempts \in 0..MaxAttempts /\ MaxAttempts \in Nat
      /\ \A i \in 1..Len(outcomes) : outcomes[i] \in Retryable
  BY CountsAssumption DEF IInv, OutcomesInv, Ends
<1> QED
  BY <1>1

\* An attempt ends, and with it the call.
LEMMA EndsForGood ==
    ASSUME IInv, phase \in InAttempt, NEW o \in Outcomes, Ends(o),
           NEW s \in Statuses, Returns(s), s \in Verdict(o),
           UNCHANGED <<attempts, limit>>, ops' \in 0..MaxOps,
           now' \in Nat, now' <= Latest
    PROVE  IInv'
<1>1. /\ outcomes' \in Seq(Outcomes) /\ Len(outcomes') = attempts /\ attempts > 0
      /\ attempts <= MaxAttempts /\ attempts \in Nat
      /\ \A i \in 1..attempts - 1 : outcomes'[i] \in Retryable
      /\ outcomes'[attempts] = o
  BY Ending
<1>2. phase' = "done" /\ status' = s /\ nap' = nap
  BY DEF Returns
<1>3. OutcomesInv'
  BY <1>1, <1>2 DEF OutcomesInv, InAttempt, Between
<1>4. ClockInv'
  BY <1>2, BoundedIs DEF ClockInv, IInv, EndsInBoundedTime, Latest
<1> QED
  BY <1>1, <1>2, <1>3, <1>4 DEF IInv, InAttempt, Phases

\* An attempt ends that may be made again.
LEMMA EndsForNow ==
    ASSUME IInv, phase \in InAttempt, NEW o \in Retryable, Ends(o),
           NEW s \in Statuses, NEW delay \in Nat, NEW margin \in Nat, MayRetry(s, delay, margin),
           s \in Verdict(o),
           UNCHANGED <<attempts, limit>>, ops' \in 0..MaxOps,
           now' \in Nat, now' <= Latest
    PROVE  IInv'
<1>1. o \in Outcomes
  BY DEF Retryable, Outcomes, Answers
<1>2. CASE Returns(s)
  BY <1>1, <1>2, EndsForGood
<1>3. CASE /\ attempts < MaxAttempts /\ now' + delay + margin < Deadline
           /\ phase' = "sleep" /\ nap' = delay /\ UNCHANGED status
  <2>1. /\ outcomes' \in Seq(Outcomes) /\ Len(outcomes') = attempts /\ attempts > 0
        /\ attempts <= MaxAttempts /\ attempts \in Nat
        /\ \A i \in 1..attempts - 1 : outcomes'[i] \in Retryable
        /\ outcomes'[attempts] = o
    BY <1>1, Ending
  <2>2. \A i \in 1..attempts : outcomes'[i] \in Retryable
    <3>1. \A n \in Nat : \A i \in 1..n : i = n \/ i \in 1..n - 1
      OBVIOUS
    <3> QED
      BY <2>1, <3>1
  <2>3. OutcomesInv'
    BY <1>3, <2>1, <2>2 DEF OutcomesInv, InAttempt, Between
  <2>4. ClockInv'
    BY <1>3, TimesAssumption DEF ClockInv, IInv, EndsInBoundedTime, Latest
  <2> QED
    BY <1>3, <2>1, <2>3, <2>4 DEF IInv, InAttempt, Phases
<1> QED
  BY <1>2, <1>3 DEF MayRetry

LEMMA VerdictIs ==
    /\ Verdict("timeout") = {"CONNECTION_TIMEOUT", "READ_TIMEOUT"}
    /\ Verdict("late") = {"CONNECTION_TIMEOUT", "READ_TIMEOUT"}
    /\ Verdict("refused") = {"CONNECTION_REFUSED"} /\ Verdict("tls") = {"TLS_ERROR"}
    /\ Verdict("error") = {"INTERNAL_ERROR"} /\ Verdict("2xx") = {"SUCCESS"}
    /\ Verdict("redirect") = {"REDIRECT_BLOCKED"} /\ Verdict("4xx") = {"HTTP_CLIENT_ERROR"}
    /\ Verdict("429") = {"HTTP_RATE_LIMITED"}
    /\ Verdict("5xx") = {"HTTP_SERVER_ERROR"} /\ Verdict("odd") = {"HTTP_SERVER_ERROR"}
BY DEF Verdict

\* The two ways an attempt ends that do not depend on an answer.
LEMMA TimesOutStep ==
    ASSUME IInv, phase \in InAttempt, TimesOut, UNCHANGED <<attempts, limit>>,
           ops' \in 0..MaxOps, now' \in Nat, now' <= Latest
    PROVE  IInv'
<1>1. "timeout" \in Retryable /\ "CONNECTION_TIMEOUT" \in Statuses
      /\ "CONNECTION_TIMEOUT" \in Verdict("timeout") /\ Backoff \in Nat /\ 0 \in Nat
  BY VerdictIs, TimesAssumption DEF Retryable, Statuses
<1> QED
  BY <1>1, EndsForNow DEF TimesOut

LEMMA FailsStep ==
    ASSUME IInv, phase \in InAttempt, NEW o \in Outcomes, NEW s \in Statuses, s \in Verdict(o),
           Fails(o, s), UNCHANGED <<attempts, limit>>,
           ops' \in 0..MaxOps, now' \in Nat, now' <= Latest
    PROVE  IInv'
BY EndsForGood DEF Fails

LEMMA EvaluateStep ==
    ASSUME IInv, phase \in InAttempt, NEW answer \in Answers, Evaluate(answer),
           UNCHANGED <<attempts, limit>>,
           ops' \in 0..MaxOps, now' \in Nat, now' <= Latest
    PROVE  IInv'
<1>1. answer \in Outcomes /\ Ends(answer)
  BY DEF Outcomes, Evaluate
<1>2. {"REDIRECT_BLOCKED", "SUCCESS", "HTTP_CLIENT_ERROR", "HTTP_SERVER_ERROR", "HTTP_RATE_LIMITED"}
         \subseteq Statuses
  BY DEF Statuses
<1>3. ASSUME NEW s \in Statuses, s \in Verdict(answer), Returns(s) PROVE IInv'
  BY <1>1, <1>3, EndsForGood
<1>4. ASSUME NEW s \in Statuses, s \in Verdict(answer), answer \in Retryable,
             NEW delay \in Nat, NEW margin \in Nat, MayRetry(s, delay, margin)
      PROVE  IInv'
  BY <1>1, <1>4, EndsForNow
<1>5. CASE answer = "redirect"
  BY <1>2, <1>3, <1>5, VerdictIs DEF Evaluate
<1>6. CASE answer = "2xx"
  BY <1>2, <1>3, <1>6, VerdictIs DEF Evaluate
<1>7. CASE answer = "4xx"
  BY <1>2, <1>3, <1>7, VerdictIs DEF Evaluate
<1>8. CASE answer = "odd"
  BY <1>2, <1>3, <1>8, VerdictIs DEF Evaluate
<1>9. CASE answer = "5xx"
  <2>1. MayRetry("HTTP_SERVER_ERROR", Backoff, 0) /\ Backoff \in Nat /\ 0 \in Nat
    BY <1>9, TimesAssumption DEF Evaluate
  <2>2. "HTTP_SERVER_ERROR" \in Verdict(answer) /\ answer \in Retryable
    BY <1>9, VerdictIs DEF Retryable
  <2> QED
    BY <1>2, <1>4, <2>1, <2>2
<1>10. CASE answer = "429"
  <2>1. "HTTP_RATE_LIMITED" \in Verdict(answer) /\ answer \in Retryable
    BY <1>10, VerdictIs DEF Retryable
  <2>2. CASE Returns("HTTP_RATE_LIMITED")
    BY <1>2, <1>3, <2>1, <2>2
  <2>3. ASSUME NEW delay \in RetryAfters, MayRetry("HTTP_RATE_LIMITED", delay, Margin)
        PROVE  IInv'
    <3>1. delay \in Nat /\ Margin \in Nat
      BY TimesAssumption
    <3> QED
      BY <1>2, <1>4, <2>1, <2>3, <3>1
  <2> QED
    BY <1>10, <2>2, <2>3 DEF Evaluate
<1> QED
  BY <1>5, <1>6, <1>7, <1>8, <1>9, <1>10 DEF Answers

-----------------------------------------------------------------------------
\* One lemma for each action.

LEMMA CheckBeforeDnsStep == ASSUME IInv, CheckBeforeDns PROVE IInv'
<1>1. now' \in {0, Deadline} /\ Deadline \in Nat \ {0}
  BY TimesAssumption DEF CheckBeforeDns, IInv, ClockInv
<1>2. CASE now' >= Deadline
  <2>1. /\ phase = "begin" /\ attempts = 0 /\ phase' = "done" /\ status' = "CONNECTION_TIMEOUT"
        /\ UNCHANGED <<attempts, limit, ops, nap, outcomes>>
    BY <1>2 DEF CheckBeforeDns, Returns, IInv, OutcomesInv
  <2>2. OutcomesInv'
    BY <2>1 DEF IInv, OutcomesInv, InAttempt, Between
  <2>3. ClockInv'
    BY <1>1, <2>1, LatestIs, BoundedIs DEF IInv, ClockInv, EndsInBoundedTime, Latest
  <2> QED
    BY <2>1, <2>2, <2>3 DEF IInv, Phases, Statuses
<1>3. CASE ~(now' >= Deadline)
  <2>1. /\ phase = "begin" /\ attempts = 0 /\ phase' = "dns" /\ now' = 0
        /\ UNCHANGED <<attempts, limit, ops, nap, outcomes, status>>
    BY <1>1, <1>3 DEF CheckBeforeDns, Returns, IInv, OutcomesInv
  <2>2. OutcomesInv'
    BY <2>1 DEF IInv, OutcomesInv, InAttempt, Between
  <2>3. ClockInv'
    BY <1>1, <2>1, LatestIs, BoundedIs DEF IInv, ClockInv, EndsInBoundedTime, Latest
  <2> QED
    BY <2>1, <2>2, <2>3 DEF IInv, Phases
<1> QED
  BY <1>2, <1>3

LEMMA ValidateStep == ASSUME IInv, Validate PROVE IInv'
<1>1. now' \in 0..MaxDns /\ MaxDns \in Nat
  BY TimesAssumption DEF Validate, IInv, ClockInv
<1>2. /\ phase = "dns" /\ attempts = 0 /\ UNCHANGED <<attempts, limit, ops, outcomes, nap>>
  BY DEF Validate, Returns, IInv, OutcomesInv
<1>3. ASSUME NEW s \in {"CONNECTION_TIMEOUT", "DNS_RESOLUTION_FAILED", "SSRF_BLOCKED"}, Returns(s)
      PROVE  IInv'
  <2>1. OutcomesInv'
    BY <1>2, <1>3 DEF IInv, OutcomesInv, InAttempt, Between, Returns
  <2>2. ClockInv'
    BY <1>1, <1>2, <1>3, LatestIs, BoundedIs DEF IInv, ClockInv, EndsInBoundedTime, Latest, Returns
  <2> QED
    BY <1>2, <1>3, <2>1, <2>2 DEF IInv, Phases, Statuses, Returns
<1>4. CASE phase' = "attempt" /\ UNCHANGED <<status, nap>>
  <2>1. OutcomesInv'
    BY <1>2, <1>4 DEF IInv, OutcomesInv, InAttempt, Between
  <2>2. ClockInv'
    BY <1>1, <1>2, <1>4, LatestIs, BoundedIs DEF IInv, ClockInv, EndsInBoundedTime, Latest
  <2>3. attempts < MaxAttempts
    BY <1>2, CountsAssumption
  <2> QED
    BY <1>2, <1>4, <2>1, <2>2, <2>3 DEF IInv, Phases
<1> QED
  BY <1>3, <1>4 DEF Validate

LEMMA StartAttemptStep == ASSUME IInv, StartAttempt PROVE IInv'
<1>1. /\ phase = "attempt" /\ attempts' = attempts + 1 /\ attempts \in Nat /\ attempts' \in 0..MaxAttempts
      /\ UNCHANGED <<now, ops>> /\ now \in Nat /\ Deadline \in Nat /\ ConnectTimeout \in Nat
  BY TimesAssumption, CountsAssumption DEF StartAttempt, IInv, ClockInv
<1>2. CASE now >= Deadline
  <2>1. /\ phase' = "done" /\ status' = "CONNECTION_TIMEOUT" /\ UNCHANGED <<limit, nap>>
        /\ outcomes' = Append(outcomes, "late")
    BY <1>2 DEF StartAttempt, Returns, Ends
  <2>2. OutcomesInv'
    <3>1. "late" \in Outcomes /\ "CONNECTION_TIMEOUT" \in Verdict("late")
      BY VerdictIs DEF Outcomes
    <3>2. /\ outcomes \in Seq(Outcomes) /\ attempts = Len(outcomes)
          /\ \A i \in 1..Len(outcomes) : outcomes[i] \in Retryable
      BY <1>1 DEF IInv, OutcomesInv, InAttempt, Between
    <3>3. /\ outcomes' \in Seq(Outcomes) /\ Len(outcomes') = attempts' /\ outcomes'[attempts'] = "late"
          /\ \A i \in 1..attempts : outcomes'[i] \in Retryable
      BY <1>1, <2>1, <3>1, <3>2
    <3> QED
      BY <1>1, <2>1, <3>1, <3>3 DEF OutcomesInv, InAttempt, Between
  <2>3. ClockInv'
    BY <1>1, <2>1, BoundedIs DEF IInv, ClockInv, EndsInBoundedTime, Latest
  <2> QED
    BY <1>1, <2>1, <2>2, <2>3 DEF IInv, Phases, Statuses, InAttempt
<1>3. CASE ~(now >= Deadline)
  <2>1. /\ phase' = "connect" /\ limit' = Least(ConnectTimeout, Deadline - now)
        /\ UNCHANGED <<status, nap, outcomes>>
    BY <1>3 DEF StartAttempt
  <2>2. limit' \in Nat /\ limit' <= ConnectTimeout /\ now + limit' <= Deadline
    BY <1>1, <1>3, <2>1 DEF Least
  <2>3. OutcomesInv'
    BY <1>1, <2>1 DEF IInv, OutcomesInv, InAttempt, Between
  <2>4. ClockInv'
    BY <1>1, <2>1, <2>2, BoundedIs DEF IInv, ClockInv, EndsInBoundedTime, Latest
  <2> QED
    BY <1>1, <2>1, <2>3, <2>4 DEF IInv, Phases
<1> QED
  BY <1>2, <1>3

LEMMA TcpConnectStep == ASSUME IInv, TcpConnect PROVE IInv'
<1>1. /\ phase = "connect" /\ phase \in InAttempt /\ UNCHANGED <<attempts, limit, ops>>
      /\ now' \in Nat /\ now' <= Deadline /\ now' <= Latest /\ ops' \in 0..MaxOps
  BY LatestIs, TimesAssumption DEF TcpConnect, IInv, ClockInv, InAttempt
<1>2. CASE phase' = "handshake" /\ UNCHANGED <<status, nap, outcomes>>
  <2>1. OutcomesInv'
    BY <1>1, <1>2 DEF IInv, OutcomesInv, InAttempt, Between
  <2>2. ClockInv'
    BY <1>1, <1>2, BoundedIs DEF IInv, ClockInv, EndsInBoundedTime, Latest
  <2> QED
    BY <1>1, <1>2, <2>1, <2>2 DEF IInv, Phases
<1>3. CASE TimesOut
  BY <1>1, <1>3, TimesOutStep
<1>4. CASE Fails("refused", "CONNECTION_REFUSED")
  <2>1. "refused" \in Outcomes /\ "CONNECTION_REFUSED" \in Statuses \cap Verdict("refused")
    BY VerdictIs DEF Outcomes, Statuses
  <2> QED
    BY <1>1, <1>4, <2>1, FailsStep
<1>5. CASE Fails("error", "INTERNAL_ERROR")
  <2>1. "error" \in Outcomes /\ "INTERNAL_ERROR" \in Statuses \cap Verdict("error")
    BY VerdictIs DEF Outcomes, Statuses
  <2> QED
    BY <1>1, <1>5, <2>1, FailsStep
<1> QED
  BY <1>2, <1>3, <1>4, <1>5 DEF TcpConnect

LEMMA HandshakeStep == ASSUME IInv, Handshake PROVE IInv'
<1>1. /\ phase = "handshake" /\ phase \in InAttempt /\ UNCHANGED attempts
      /\ now' \in Nat /\ now' <= Latest /\ ops \in 0..MaxOps /\ MaxOps \in Nat
  BY LatestIs, TimesAssumption, CountsAssumption DEF Handshake, IInv, ClockInv, InAttempt
<1>2. CASE ~(now' >= Deadline) /\ StartExchange
  <2>1. /\ phase' = "exchange" /\ limit' = Least(ReadTimeout, Deadline - now') /\ ops' = 0
        /\ UNCHANGED <<status, nap, outcomes>>
        /\ Deadline \in Nat /\ ReadTimeout \in Nat
    BY <1>2, TimesAssumption DEF StartExchange
  <2>2. limit' \in Nat /\ limit' <= ReadTimeout /\ now' + limit' <= Deadline
    <3>1. \A a, b, d \in Nat : b < d => /\ Least(a, d - b) \in Nat /\ Least(a, d - b) <= a
                                       /\ b + Least(a, d - b) <= d
      BY DEF Least
    <3>2. now' < Deadline
      BY <1>1, <1>2, <2>1
    <3> QED
      BY <1>1, <2>1, <3>1, <3>2
  <2>3. OutcomesInv'
    BY <1>1, <2>1 DEF IInv, OutcomesInv, InAttempt, Between
  <2>4. ops' * limit' = 0
    BY <2>1, <2>2
  <2>5. ClockInv'
    BY <1>1, <2>1, <2>2, <2>4, BoundedIs DEF IInv, ClockInv, EndsInBoundedTime, Latest
  <2> QED
    BY <1>1, <2>1, <2>3, <2>5 DEF IInv, Phases
<1>3. ASSUME NEW o \in Outcomes, NEW s \in Statuses, s \in Verdict(o), Fails(o, s),
             UNCHANGED <<limit, ops>>
      PROVE  IInv'
  BY <1>1, <1>3, FailsStep
<1>4. CASE TimesOut /\ UNCHANGED <<limit, ops>>
  BY <1>1, <1>4, TimesOutStep
<1>5. {"late", "tls", "error"} \subseteq Outcomes
      /\ {"READ_TIMEOUT", "TLS_ERROR", "INTERNAL_ERROR"} \subseteq Statuses
      /\ "READ_TIMEOUT" \in Verdict("late") /\ "TLS_ERROR" \in Verdict("tls")
      /\ "INTERNAL_ERROR" \in Verdict("error")
  BY VerdictIs DEF Outcomes, Statuses
<1> QED
  BY <1>2, <1>3, <1>4, <1>5 DEF Handshake

LEMMA ExchangeStep == ASSUME IInv, Exchange PROVE IInv'
<1>1. /\ phase = "exchange" /\ phase \in InAttempt /\ UNCHANGED <<attempts, limit>>
      /\ ops \in 0..MaxOps - 1 /\ ops' = ops + 1 /\ ops' \in 0..MaxOps /\ MaxOps \in Nat
      /\ now' \in Nat /\ now' <= now + limit /\ limit \in Nat /\ ReadTimeout \in Nat /\ Deadline \in Nat
      /\ limit <= ReadTimeout /\ now + limit <= Deadline + ops * limit /\ now \in Nat
  BY TimesAssumption, CountsAssumption DEF Exchange, IInv, ClockInv, InAttempt
<1>2. ops * limit <= (MaxOps - 1) * ReadTimeout /\ ops * limit \in Nat
      /\ (MaxOps - 1) * ReadTimeout \in Nat
  <2>1. \A a, b, c, d \in Nat : a <= b /\ c <= d => a * c <= b * d /\ a * c \in Nat /\ b * d \in Nat
    OBVIOUS
  <2>2. ops \in Nat /\ MaxOps - 1 \in Nat /\ ops <= MaxOps - 1
    BY <1>1
  <2> QED
    BY <1>1, <2>1, <2>2
<1>3. now' <= Latest
  BY <1>1, <1>2, LatestIs
<1>4. CASE ops' < MaxOps /\ UNCHANGED <<phase, status, nap, outcomes>>
  <2>1. OutcomesInv'
    BY <1>1, <1>4 DEF IInv, OutcomesInv, InAttempt, Between
  <2>2. ops' * limit = ops * limit + limit
    BY <1>1
  <2>3. now' + limit' <= Deadline + ops' * limit'
    <3> DEFINE w == ops * limit
    <3>1. w \in Nat /\ now + limit <= Deadline + w
      BY <1>1, <1>2
    <3>2. ops' * limit' = w + limit
      BY <1>1, <2>2
    <3>3. limit' = limit /\ limit \in Nat /\ now \in Nat /\ now' \in Nat /\ Deadline \in Nat
          /\ now' <= now + limit
      BY <1>1
    <3> HIDE DEF w
    <3>4. now' + limit <= Deadline + (w + limit)
      <4>1. \A a, b, c, d, e \in Nat : a <= b + c /\ b + c <= d + e => a + c <= d + (e + c)
        OBVIOUS
      <4> QED
        BY <3>1, <3>3, <4>1
    <3> QED
      BY <3>2, <3>3, <3>4
  <2>4. ClockInv'
    BY <1>1, <1>3, <1>4, <2>3, BoundedIs DEF IInv, ClockInv, EndsInBoundedTime, Latest
  <2> QED
    BY <1>1, <1>4, <2>1, <2>4 DEF IInv, Phases
<1>5. ASSUME NEW answer \in Answers, Evaluate(answer) PROVE IInv'
  BY <1>1, <1>3, <1>5, EvaluateStep
<1>6. CASE TimesOut
  BY <1>1, <1>3, <1>6, TimesOutStep
<1>7. ASSUME NEW o \in Outcomes, NEW s \in Statuses, s \in Verdict(o), Fails(o, s) PROVE IInv'
  BY <1>1, <1>3, <1>7, FailsStep
<1>8. {"tls", "error"} \subseteq Outcomes /\ {"TLS_ERROR", "INTERNAL_ERROR"} \subseteq Statuses
      /\ "TLS_ERROR" \in Verdict("tls") /\ "INTERNAL_ERROR" \in Verdict("error")
  BY VerdictIs DEF Outcomes, Statuses
<1> QED
  BY <1>4, <1>5, <1>6, <1>7, <1>8 DEF Exchange

LEMMA SleepStep == ASSUME IInv, Sleep PROVE IInv'
<1>1. /\ phase = "sleep" /\ phase' = "attempt"
      /\ UNCHANGED <<attempts, limit, ops, nap, status, outcomes>>
      /\ now' \in Nat /\ now' <= Latest
  BY LatestIs, TimesAssumption DEF Sleep, IInv, ClockInv
<1>2. OutcomesInv'
  BY <1>1 DEF IInv, OutcomesInv, InAttempt, Between
<1>3. ClockInv'
  BY <1>1, BoundedIs DEF IInv, ClockInv, EndsInBoundedTime, Latest
<1> QED
  BY <1>1, <1>2, <1>3 DEF IInv, Phases

-----------------------------------------------------------------------------

LEMMA InitLemma == Init => IInv
<1> SUFFICES ASSUME Init PROVE IInv
  OBVIOUS
<1>1. OutcomesInv
  BY DEF Init, OutcomesInv, InAttempt, Between
<1>2. ClockInv
  BY LatestIs, BoundedIs, CountsAssumption DEF Init, ClockInv
<1> QED
  BY <1>1, <1>2, CountsAssumption DEF Init, IInv, Phases, Statuses

LEMMA NextStep == IInv /\ [Next]_vars => IInv'
<1> SUFFICES ASSUME IInv, [Next]_vars PROVE IInv'
  OBVIOUS
<1>1. CASE UNCHANGED vars
  BY <1>1 DEF vars, IInv, OutcomesInv, ClockInv, EndsInBoundedTime
<1> QED
  BY <1>1, CheckBeforeDnsStep, ValidateStep, StartAttemptStep, TcpConnectStep, HandshakeStep,
     ExchangeStep, SleepStep DEF Next

\* The strengthened invariant holds in every state of a call.
THEOREM InductiveInvariant == Spec => []IInv
<1>1. Init => IInv
  BY InitLemma
<1>2. IInv /\ [Next]_vars => IInv'
  BY NextStep
<1> QED
  BY <1>1, <1>2, PTL DEF Spec

\* Every variable of a call keeps its type, and the loop never runs out of attempts.
THEOREM TypeCorrect == Spec => []TypeOK
<1>1. IInv => TypeOK
  BY CountsAssumption DEF IInv, OutcomesInv, ClockInv, TypeOK
<1> QED
  BY <1>1, InductiveInvariant, PTL

\* send repeats the POST only after an attempt that timed out or got 429 or 5xx.
THEOREM RepeatsAreInvited == Spec => []RepeatOnlyIfInvited
<1>1. IInv => RepeatOnlyIfInvited
  <2> SUFFICES ASSUME IInv, NEW i \in 1..Len(outcomes), i < attempts \/ phase = "sleep"
               PROVE  outcomes[i] \in Retryable
    BY DEF RepeatOnlyIfInvited
  <2>1. phase \in {"begin", "dns"} => Len(outcomes) = 0
    BY DEF IInv, OutcomesInv, InAttempt
  <2>2. phase \in InAttempt \cup Between \/ phase = "done" \/ phase \in {"begin", "dns"}
    BY DEF IInv, Phases, InAttempt, Between
  <2> QED
    BY <2>1, <2>2 DEF IInv, OutcomesInv
<1> QED
  BY <1>1, InductiveInvariant, PTL

\* The WebhookResult that send returns is that of the last attempt.
THEOREM LastAttemptReported == Spec => []ReportsLastAttempt
<1>1. IInv => ReportsLastAttempt
  <2> SUFFICES ASSUME IInv, phase = "done"
               PROVE  /\ Len(outcomes) = attempts
                      /\ attempts > 0 => status \in Verdict(Last(outcomes))
                      /\ attempts = 0 => status \notin UNION {Verdict(a) : a \in Answers}
    BY DEF ReportsLastAttempt
  <2>1. Len(outcomes) = attempts /\ (attempts > 0 => status \in Verdict(Last(outcomes)))
    BY DEF IInv, OutcomesInv, InAttempt, Last
  <2>2. ASSUME attempts = 0, NEW a \in Answers PROVE status \notin Verdict(a)
    BY <2>2, VerdictIs DEF IInv, OutcomesInv, Answers
  <2> QED
    BY <2>1, <2>2
<1> QED
  BY <1>1, InductiveInvariant, PTL

\* A call outlives its deadline by one phase at most.
THEOREM BoundedTime == Spec => []EndsInBoundedTime
<1>1. IInv => EndsInBoundedTime
  BY DEF IInv, ClockInv
<1> QED
  BY <1>1, InductiveInvariant, PTL

-----------------------------------------------------------------------------
(* A call makes a bounded number of steps.  Together with OpenInv, which    *)
(* says that the step its phase asks for can be taken, this is why send     *)
(* returns; the liveness property itself is left to TLC.                    *)

\* The most steps of one attempt, from its connect to the end of its sleep.
PerAttempt == MaxOps + 5

\* The most steps that are left of the attempt in hand.
LeftOfAttempt ==
    CASE phase = "begin"     -> 3
      [] phase = "dns"       -> 2
      [] phase = "attempt"   -> 1
      [] phase = "connect"   -> PerAttempt
      [] phase = "handshake" -> PerAttempt - 1
      [] phase = "exchange"  -> PerAttempt - 2 - ops
      [] phase = "sleep"     -> 2
      [] phase = "done"      -> 0

\* The steps that the attempts not yet begun may take.
LeftOfLoop == IF phase = "done" THEN 0 ELSE (MaxAttempts - attempts) * PerAttempt

StepsLeft == LeftOfLoop + LeftOfAttempt

MostSteps == MaxAttempts * PerAttempt + 3

\* The one guard of an action, besides the phase: an exchange has an operation left.
OpenInv == phase = "exchange" => ops < MaxOps

LEMMA OpenInvInit == Init => OpenInv
BY DEF Init, OpenInv

\* How an attempt in progress may go on.
LEMMA GoesOn ==
    ASSUME NEW s, NEW o, NEW a,
           TimesOut \/ Fails(o, s) \/ Evaluate(a)
    PROVE  phase' \in {"sleep", "done"}
BY DEF TimesOut, Fails, Evaluate, MayRetry, Returns

\* The phases in the order of the code.
LEMMA PhaseOrder ==
    ASSUME IInv, OpenInv, Next
    PROVE  /\ attempts' = IF phase = "attempt" THEN attempts + 1 ELSE attempts
           /\ phase = "begin" => phase' \in {"dns", "done"}
           /\ phase = "dns" => phase' \in {"attempt", "done"}
           /\ phase = "attempt" => phase' \in {"connect", "done"}
           /\ phase = "connect" => phase' \in {"handshake", "sleep", "done"}
           /\ phase = "handshake" => \/ phase' = "exchange" /\ ops' = 0
                                     \/ phase' \in {"sleep", "done"}
           /\ phase = "exchange" => \/ phase' = "exchange" /\ ops' = ops + 1 /\ ops' < MaxOps
                                    \/ phase' \in {"sleep", "done"}
           /\ phase = "sleep" => phase' = "attempt"
           /\ phase # "done"
<1>1. CASE CheckBeforeDns
  BY <1>1 DEF CheckBeforeDns, Returns
<1>2. CASE Validate
  BY <1>2 DEF Validate, Returns
<1>3. CASE StartAttempt
  BY <1>3 DEF StartAttempt, Returns
<1>4. CASE TcpConnect
  <2>1. phase' = "handshake" \/ TimesOut \/ Fails("refused", "CONNECTION_REFUSED")
            \/ Fails("error", "INTERNAL_ERROR")
    BY <1>4 DEF TcpConnect
  <2> QED
    BY <1>4, <2>1, GoesOn DEF TcpConnect
<1>5. CASE Handshake
  <2>1. \/ phase' = "exchange" /\ ops' = 0
        \/ TimesOut \/ Fails("late", "READ_TIMEOUT") \/ Fails("tls", "TLS_ERROR")
        \/ Fails("error", "INTERNAL_ERROR")
    BY <1>5 DEF Handshake, StartExchange
  <2> QED
    BY <1>5, <2>1, GoesOn DEF Handshake
<1>6. CASE Exchange
  <2>1. \/ phase' = "exchange" /\ ops' < MaxOps
        \/ TimesOut \/ (\E a \in Answers : Evaluate(a)) \/ Fails("tls", "TLS_ERROR")
        \/ Fails("error", "INTERNAL_ERROR")
    BY <1>6 DEF Exchange
  <2> QED
    BY <1>6, <2>1, GoesOn DEF Exchange
<1>7. CASE Sleep
  BY <1>7 DEF Sleep
<1> QED
  BY <1>1, <1>2, <1>3, <1>4, <1>5, <1>6, <1>7 DEF Next

LEMMA OpenInvStep == (IInv /\ OpenInv) /\ [Next]_vars => OpenInv'
<1> SUFFICES ASSUME IInv, OpenInv, [Next]_vars PROVE OpenInv'
  OBVIOUS
<1>1. CASE UNCHANGED vars
  BY <1>1 DEF vars, OpenInv
<1>2. CASE Next
  <2>1. phase' = "exchange" => ops' = 0 \/ ops' < MaxOps
    BY <1>2, PhaseOrder DEF IInv, Phases
  <2> QED
    BY <2>1, CountsAssumption DEF OpenInv
<1> QED
  BY <1>1, <1>2

\* The attempts not yet begun, in steps.
LEMMA LoopIs ==
    ASSUME NEW a \in 0..MaxAttempts
    PROVE  /\ PerAttempt \in Nat /\ PerAttempt > 6
           /\ (MaxAttempts - a) * PerAttempt \in 0..MaxAttempts * PerAttempt
           /\ (MaxAttempts - a) * PerAttempt
                  = (MaxAttempts - (a + 1)) * PerAttempt + PerAttempt
<1>1. PerAttempt \in Nat /\ PerAttempt > 6
  BY CountsAssumption DEF PerAttempt
<1>2. MaxAttempts \in Nat /\ a \in Nat /\ MaxAttempts - a \in Nat /\ a <= MaxAttempts
  BY CountsAssumption
<1>3. \A n, p \in Nat : n * p \in Nat
  OBVIOUS
<1>4. \A n, k, p \in Nat : k <= n => k * p <= n * p
  OBVIOUS
<1>5. \A n \in Int, p \in Nat : n * p = (n - 1) * p + p
  OBVIOUS
<1>6. (MaxAttempts - a) * PerAttempt \in Nat
  BY <1>1, <1>2, <1>3
<1>7. (MaxAttempts - a) * PerAttempt <= MaxAttempts * PerAttempt
  <2>1. MaxAttempts - a <= MaxAttempts
    BY <1>2
  <2> QED
    BY <1>1, <1>2, <1>4, <2>1
<1>8. MaxAttempts * PerAttempt \in Nat
  BY <1>1, <1>2, <1>3
<1>9. MaxAttempts - (a + 1) = (MaxAttempts - a) - 1
  BY <1>2
<1> HIDE DEF PerAttempt
<1> QED
  BY <1>1, <1>2, <1>5, <1>6, <1>7, <1>8, <1>9

LEMMA StepsLeftIs == IInv /\ OpenInv => StepsLeft \in 0..MostSteps
<1> SUFFICES ASSUME IInv, OpenInv PROVE StepsLeft \in 0..MostSteps
  OBVIOUS
<1> DEFINE rest == (MaxAttempts - attempts) * PerAttempt
           all == MaxAttempts * PerAttempt
<1>1. attempts \in 0..MaxAttempts /\ attempts \in Nat /\ MaxAttempts \in Nat
  BY CountsAssumption DEF IInv
<1>2. rest \in 0..all /\ PerAttempt \in Nat /\ PerAttempt > 6
  BY <1>1, LoopIs
<1>3. phase \in InAttempt => attempts >= 1
  BY <1>1 DEF IInv, OutcomesInv
<1>4. attempts >= 1 => rest + PerAttempt <= all
  <2>1. ASSUME attempts >= 1 PROVE rest + PerAttempt <= all
    <3>1. attempts - 1 \in 0..MaxAttempts /\ (attempts - 1) + 1 = attempts
      BY <1>1, <2>1
    <3> QED
      BY <3>1, LoopIs
  <2> QED
    BY <2>1
<1>5. ops \in 0..MaxOps /\ PerAttempt = MaxOps + 5
  BY DEF IInv, ClockInv, PerAttempt
<1>6. LeftOfAttempt \in 0..PerAttempt /\ (phase \notin InAttempt => LeftOfAttempt <= 3)
  BY <1>2, <1>5, CountsAssumption DEF LeftOfAttempt, IInv, Phases, InAttempt
<1>7. LeftOfLoop \in {0, rest} /\ (phase = "done" => LeftOfLoop = 0)
  BY DEF LeftOfLoop
<1>8. all \in Nat
  <2>1. \A n, p \in Nat : n * p \in Nat
    OBVIOUS
  <2> QED
    BY <1>1, <1>2, <2>1
<1>9. MostSteps = all + 3
  BY DEF MostSteps
<1> HIDE DEF rest, all
<1> QED
  BY <1>2, <1>3, <1>4, <1>6, <1>7, <1>8, <1>9 DEF StepsLeft

\* Every step of a call uses up some of what is left, and nothing ever gives more: send
\* makes at most MostSteps blocking calls and checks, whatever it is answered and however
\* often it is invited to retry.
THEOREM StepsRunOut ==
    Spec => /\ [](OpenInv /\ StepsLeft \in 0..MostSteps)
            /\ [][StepsLeft' < StepsLeft]_vars
<1>1. ASSUME IInv, OpenInv, Next, IInv' PROVE StepsLeft' < StepsLeft
  <2> DEFINE rest == (MaxAttempts - attempts) * PerAttempt
  <2>1. /\ attempts \in 0..MaxAttempts /\ rest \in Nat
        /\ rest = (MaxAttempts - (attempts + 1)) * PerAttempt + PerAttempt
        /\ PerAttempt \in Nat /\ PerAttempt > 6 /\ PerAttempt = MaxOps + 5
        /\ ops \in 0..MaxOps /\ MaxOps \in Nat
    BY <1>1, LoopIs, CountsAssumption DEF IInv, ClockInv, PerAttempt
  <2>2. StepsLeft = rest + LeftOfAttempt
    BY <1>1, PhaseOrder DEF StepsLeft, LeftOfLoop
  <2>3. LeftOfAttempt \in Nat /\ LeftOfAttempt >= 1
    BY <1>1, <2>1, PhaseOrder DEF LeftOfAttempt, IInv, Phases, OpenInv
  <2>4. CASE phase' = "done"
    <3>1. StepsLeft' = 0
      BY <2>4 DEF StepsLeft, LeftOfLoop, LeftOfAttempt
    <3> HIDE DEF rest
    <3> QED
      BY <2>1, <2>2, <2>3, <3>1
  <2>5. CASE phase' # "done" /\ phase = "attempt"
    <3>1. phase' = "connect" /\ attempts' = attempts + 1
      BY <1>1, <2>5, PhaseOrder
    <3>2. StepsLeft' = (MaxAttempts - (attempts + 1)) * PerAttempt + PerAttempt
      BY <3>1 DEF StepsLeft, LeftOfLoop, LeftOfAttempt, PerAttempt
    <3>3. LeftOfAttempt = 1
      BY <2>5 DEF LeftOfAttempt
    <3> HIDE DEF rest
    <3> QED
      BY <2>1, <2>2, <3>2, <3>3
  <2>6. CASE phase' # "done" /\ phase # "attempt"
    <3>1. StepsLeft' = rest + LeftOfAttempt'
      BY <1>1, <2>6, PhaseOrder DEF StepsLeft, LeftOfLoop, PerAttempt
    <3>2. LeftOfAttempt' \in Int /\ LeftOfAttempt' < LeftOfAttempt
      BY <1>1, <2>1, <2>6, PhaseOrder DEF LeftOfAttempt, PerAttempt, IInv, Phases, OpenInv
    <3> HIDE DEF rest
    <3> QED
      BY <2>1, <2>2, <2>3, <3>1, <3>2
  <2> QED
    BY <2>4, <2>5, <2>6
<1>2. (IInv /\ OpenInv) /\ [Next]_vars /\ IInv' => [StepsLeft' < StepsLeft]_vars
  BY <1>1
<1> QED
  BY <1>2, StepsLeftIs, InductiveInvariant, OpenInvInit, OpenInvStep, PTL DEF Spec
=============================================================================
