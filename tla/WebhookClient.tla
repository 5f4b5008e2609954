---------------------------- MODULE WebhookClient ----------------------------
(***************************************************************************)
(* One call of WebhookClient.send (webhook_client.py): DNS, then at most   *)
(* MaxAttempts attempts to connect, handshake and exchange one POST, with  *)
(* a deadline looked at between the phases and a sleep before a retry.     *)
(*                                                                         *)
(* Time is counted in half seconds from the call's start and passes only   *)
(* in blocking calls.  A socket timeout bounds each blocking operation, not *)
(* their sum: connect() is a TCP connect and a TLS handshake, an exchange  *)
(* is two or more operations (write the request, read head and body).      *)
(***************************************************************************)
EXTENDS Integers, Sequences, SequencesExt

CONSTANTS Deadline,        \* overall_deadline - start_time
          ConnectTimeout, ReadTimeout,
          Backoff,         \* DEFAULT_RETRY_BACKOFF_SECONDS
          RetryAfters,     \* the Retry-After values that are honoured
          Margin,          \* what a honoured Retry-After must leave of the deadline
          MaxAttempts,     \* max_attempts
          MaxDns,          \* bound: the longest getaddrinfo
          MaxOps,          \* bound: the most socket operations of one exchange
          Oversleep        \* bound: how late time.sleep or a preempted thread resumes

ASSUME TimesAssumption ==
    /\ {Deadline, ConnectTimeout, ReadTimeout, Backoff} \subseteq Nat \ {0}
    /\ {Margin, MaxDns, Oversleep} \subseteq Nat
    /\ RetryAfters \subseteq Nat \ {0}
ASSUME CountsAssumption == MaxAttempts \in Nat \ {0} /\ MaxOps \in Nat \ {0, 1}

VARIABLES phase,     \* where send is
          now,       \* clock() - start_time
          attempts,  \* attempts
          limit,     \* connect_timeout or read_timeout, whichever was set last
          ops,       \* blocking operations this exchange has completed
          nap,       \* the argument of the next sleep_fn call
          status,    \* status of the result, once returned
          outcomes   \* history: how each attempt that has ended ended

vars == <<phase, now, attempts, limit, ops, nap, status, outcomes>>

Phases == {"begin", "dns", "attempt", "connect", "handshake", "exchange", "sleep", "done"}

\* A response by the branch that its status code takes.
Answers == {"2xx", "redirect", "429", "4xx", "5xx", "odd"}

Outcomes == Answers \cup {"timeout", "refused", "tls", "error", "late"}

Statuses == {"none", "SUCCESS", "SSRF_BLOCKED", "DNS_RESOLUTION_FAILED", "CONNECTION_TIMEOUT",
             "READ_TIMEOUT", "TLS_ERROR", "CONNECTION_REFUSED", "HTTP_CLIENT_ERROR",
             "HTTP_RATE_LIMITED", "HTTP_SERVER_ERROR", "REDIRECT_BLOCKED", "INTERNAL_ERROR"}

TypeOK ==
    /\ phase \in Phases
    /\ now \in Nat
    /\ attempts \in 0..MaxAttempts
    /\ limit \in Nat /\ nap \in Nat
    /\ ops \in 0..MaxOps
    /\ status \in Statuses
    /\ outcomes \in Seq(Outcomes)
    /\ phase = "attempt" => attempts < MaxAttempts   \* the loop never exhausts itself

Init ==
    /\ phase = "begin" /\ now = 0 /\ attempts = 0
    /\ limit = 0 /\ ops = 0 /\ nap = 0
    /\ status = "none"
    /\ outcomes = <<>>

Least(a, b) == IF a < b THEN a ELSE b

Returns(s) == phase' = "done" /\ status' = s /\ UNCHANGED nap

\* Mutant: the last attempt retries too.
MayRetryAlways(s, delay, margin) ==
    IF attempts <= MaxAttempts /\ now' + delay + margin < Deadline
    THEN phase' = "sleep" /\ nap' = delay /\ UNCHANGED status
    ELSE Returns(s)

\* A handler that sleeps and continues if an attempt and enough time are left.
MayRetry(s, delay, margin) ==
    IF attempts < MaxAttempts /\ now' + delay + margin < Deadline
    THEN phase' = "sleep" /\ nap' = delay /\ UNCHANGED status
    ELSE Returns(s)

Ends(outcome) == outcomes' = Append(outcomes, outcome)

\* The socket timeout, or the kernel's ETIMEDOUT, which is the same exception.
TimesOut == Ends("timeout") /\ MayRetry("CONNECTION_TIMEOUT", Backoff, 0)

Fails(outcome, s) == Ends(outcome) /\ Returns(s)

\* Mutant: client errors are retried like server errors.
EvaluateRetryingAll(answer) ==
    /\ Ends(answer)
    /\ \/ answer = "redirect" /\ Returns("REDIRECT_BLOCKED")
       \/ answer = "2xx"      /\ Returns("SUCCESS")
       \/ answer = "4xx"      /\ MayRetry("HTTP_CLIENT_ERROR", Backoff, 0)
       \/ answer = "odd"      /\ Returns("HTTP_SERVER_ERROR")
       \/ answer = "5xx"      /\ MayRetry("HTTP_SERVER_ERROR", Backoff, 0)
       \/ answer = "429"      /\ Returns("HTTP_RATE_LIMITED")

\* Mutant: a retry swallows the response, so the call reports how the first attempt ended.
EvaluateFirstOnly(answer) ==
    IF outcomes # <<>> THEN Ends(answer) /\ Returns("HTTP_SERVER_ERROR")
    ELSE /\ Ends(answer)
         /\ \/ answer = "2xx" /\ Returns("SUCCESS")
            \/ answer = "5xx" /\ MayRetry("HTTP_SERVER_ERROR", Backoff, 0)

\* A response has been read.
Evaluate(answer) ==
    /\ Ends(answer)
    /\ \/ answer = "redirect" /\ Returns("REDIRECT_BLOCKED")
       \/ answer = "2xx"      /\ Returns("SUCCESS")
       \/ answer = "4xx"      /\ Returns("HTTP_CLIENT_ERROR")
       \/ answer = "odd"      /\ Returns("HTTP_SERVER_ERROR")
       \/ answer = "5xx"      /\ MayRetry("HTTP_SERVER_ERROR", Backoff, 0)
       \/ answer = "429"      /\ \/ Returns("HTTP_RATE_LIMITED")
                                 \/ \E delay \in RetryAfters :
                                        MayRetry("HTTP_RATE_LIMITED", delay, Margin)

-----------------------------------------------------------------------------

\* The thread may have been preempted since it read start_time.
CheckBeforeDns ==
    /\ phase = "begin"
    /\ \E late \in {0, Deadline} : now' = now + late
    /\ IF now' >= Deadline THEN Returns("CONNECTION_TIMEOUT")
       ELSE phase' = "dns" /\ UNCHANGED <<status, nap>>
    /\ UNCHANGED <<attempts, limit, ops, outcomes>>

\* SSRFGuard.validate_url, which resolves the name, and the check that follows.
Validate ==
    /\ phase = "dns"
    /\ \E d \in 0..MaxDns : now' = now + d
    /\ \/ Returns("DNS_RESOLUTION_FAILED")
       \/ Returns("SSRF_BLOCKED")
       \/ IF now' >= Deadline THEN Returns("CONNECTION_TIMEOUT")
          ELSE phase' = "attempt" /\ UNCHANGED <<status, nap>>
    /\ UNCHANGED <<attempts, limit, ops, outcomes>>

\* Mutant: past the deadline the loop continues instead of returning.
StartAttemptOrSpin ==
    /\ phase = "attempt"
    /\ IF now >= Deadline
       THEN UNCHANGED <<phase, attempts, limit>>
       ELSE /\ phase' = "connect"
            /\ attempts' = attempts + 1
            /\ limit' = Least(ConnectTimeout, Deadline - now)
    /\ UNCHANGED <<now, ops, nap, status, outcomes>>

StartAttempt ==
    /\ phase = "attempt"
    /\ attempts' = attempts + 1
    /\ IF now >= Deadline
       THEN Returns("CONNECTION_TIMEOUT") /\ Ends("late") /\ UNCHANGED limit
       ELSE /\ phase' = "connect"
            /\ limit' = Least(ConnectTimeout, Deadline - now)
            /\ UNCHANGED <<status, nap, outcomes>>
    /\ UNCHANGED <<now, ops>>

TcpConnect ==
    /\ phase = "connect"
    /\ \E d \in 0..limit :
         /\ now' = now + d
         /\ \/ phase' = "handshake" /\ UNCHANGED <<status, nap, outcomes>>
            \/ TimesOut
            \/ Fails("refused", "CONNECTION_REFUSED")
            \/ Fails("error", "INTERNAL_ERROR")
    /\ UNCHANGED <<attempts, limit, ops>>

\* Mutant: the socket keeps the full read timeout, whatever is left of the deadline.
StartExchangeFullTimeout ==
    /\ phase' = "exchange"
    /\ limit' = ReadTimeout
    /\ ops' = 0
    /\ UNCHANGED <<status, nap, outcomes>>

\* settimeout and conn.request.
StartExchange ==
    /\ phase' = "exchange"
    /\ limit' = Least(ReadTimeout, Deadline - now')
    /\ ops' = 0
    /\ UNCHANGED <<status, nap, outcomes>>

Handshake ==
    /\ phase = "handshake"
    /\ \E d \in 0..limit :
         /\ now' = now + d
         /\ \/ IF now' >= Deadline
               THEN Fails("late", "READ_TIMEOUT") /\ UNCHANGED <<limit, ops>>
               ELSE StartExchange
            \/ /\ \/ TimesOut
                  \/ Fails("tls", "TLS_ERROR")
                  \/ Fails("error", "INTERNAL_ERROR")
               /\ UNCHANGED <<limit, ops>>
    /\ UNCHANGED attempts

\* One blocking operation of request(), getresponse() or read(1024).
Exchange ==
    /\ phase = "exchange"
    /\ ops < MaxOps
    /\ ops' = ops + 1
    /\ \E d \in 0..limit :
         /\ now' = now + d
         /\ \/ ops' < MaxOps /\ UNCHANGED <<phase, status, nap, outcomes>>
            \/ ops' > 1 /\ \E answer \in Answers : Evaluate(answer)
            \/ TimesOut
            \/ Fails("tls", "TLS_ERROR")
            \/ Fails("error", "INTERNAL_ERROR")
    /\ UNCHANGED <<attempts, limit>>

Sleep ==
    /\ phase = "sleep"
    /\ \E late \in 0..Oversleep : now' = now + nap + late
    /\ phase' = "attempt"
    /\ UNCHANGED <<attempts, limit, ops, nap, status, outcomes>>

Next == \/ CheckBeforeDns \/ Validate \/ StartAttempt \/ TcpConnect
        \/ Handshake \/ Exchange \/ Sleep

Spec == Init /\ [][Next]_vars

\* Every blocking call returns: sockets by their timeouts, the resolver by its own.
FairSpec == Spec /\ WF_vars(Next)

-----------------------------------------------------------------------------
(* Properties.                                                              *)

Retryable == {"timeout", "429", "5xx"}

\* The POST goes out again only after an attempt that timed out or was answered with
\* 429 or 5xx: never after the receiver accepted, redirected or rejected it.
RepeatOnlyIfInvited ==
    \A i \in 1..Len(outcomes) :
        (i < attempts \/ phase = "sleep") => outcomes[i] \in Retryable

\* What an attempt that ended the call must be reported as.
Verdict(outcome) ==
    CASE outcome = "2xx"              -> {"SUCCESS"}
      [] outcome = "redirect"         -> {"REDIRECT_BLOCKED"}
      [] outcome = "4xx"              -> {"HTTP_CLIENT_ERROR"}
      [] outcome = "429"              -> {"HTTP_RATE_LIMITED"}
      [] outcome \in {"5xx", "odd"}   -> {"HTTP_SERVER_ERROR"}
      [] outcome = "refused"          -> {"CONNECTION_REFUSED"}
      [] outcome = "tls"              -> {"TLS_ERROR"}
      [] outcome = "error"            -> {"INTERNAL_ERROR"}
      [] outcome \in {"timeout", "late"} -> {"CONNECTION_TIMEOUT", "READ_TIMEOUT"}

\* The result tells of the last attempt and never carries over an earlier one's: success
\* is reported exactly when the last response was a 2xx, and every attempt has ended.
ReportsLastAttempt ==
    phase = "done" =>
        /\ Len(outcomes) = attempts
        /\ attempts > 0 => status \in Verdict(Last(outcomes))
        /\ attempts = 0 => status \notin UNION {Verdict(a) : a \in Answers}

Greatest(a, b) == IF a > b THEN a ELSE b

\* The deadline bounds what is begun and each single wait: a call overruns it at most by
\* one connect timeout, by all but one operation of an exchange, by a late wake-up, or
\* by the resolver.
EndsInBoundedTime ==
    now <= Greatest(Deadline + Greatest(Oversleep, Greatest(ConnectTimeout,
                                                            (MaxOps - 1) * ReadTimeout)),
                    MaxDns)

\* send returns.
Returned == <>(phase = "done")

\* What the docstring of send says, "Enforces monotonic deadline", for a resolver and a
\* scheduler that take no time.
EndsByDeadline == phase = "done" => now <= Deadline
=============================================================================
