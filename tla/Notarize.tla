------------------------------ MODULE Notarize ------------------------------
(***************************************************************************)
(* notarize.sh: submit a file to Apple's notary service and poll it until  *)
(* it has decided.  The clock counts seconds of whatever scale; asking the *)
(* service takes some of them, sleeping POLL_INTERVAL.                     *)
(***************************************************************************)
EXTENDS Naturals

CONSTANTS
  PollTimeout,      \* NOTARIZE_POLL_TIMEOUT_SECS, 3600
  PollInterval,     \* NOTARIZE_POLL_INTERVAL_SECS, 30
  MaxPollFailures,  \* NOTARIZE_MAX_POLL_FAILURES, 5
  MaxAsking         \* bound: seconds that one notarytool call takes

ASSUME TimeAssumption ==
  /\ PollTimeout \in Nat /\ PollInterval \in Nat \ {0}
  /\ MaxPollFailures \in Nat \ {0} /\ MaxAsking \in Nat

VARIABLES
  service,   \* what the notary service has decided
  elapsed,   \* seconds since START
  status,    \* STATUS
  failures,  \* POLL_FAILURES
  pc         \* where the script is, or how it ended: exit code 0 or 1

vars == <<service, elapsed, status, failures, pc>>

Terminal == {"Accepted", "Invalid", "Rejected"}

TypeOK ==
  /\ service \in Terminal \cup {"InProgress"}
  /\ elapsed \in Nat
  /\ status \in Terminal \cup {"empty", "InProgress", "other"}
  /\ failures \in 0..MaxPollFailures
  /\ pc \in {"submit", "poll", "sleep", "ok", "error"}

Init ==
  /\ service = "InProgress"
  /\ elapsed = 0 /\ status = "empty" /\ failures = 0
  /\ pc = "submit"

\* set -e: without a submission ID, the script ends.
Submit ==
  /\ pc = "submit"
  /\ pc' \in {"poll", "error"}
  /\ UNCHANGED <<service, elapsed, status, failures>>

ServiceDecides ==
  /\ pc # "submit" /\ service = "InProgress"
  /\ service' \in Terminal
  /\ UNCHANGED <<elapsed, status, failures, pc>>

Asking == \E s \in 0..MaxAsking : elapsed' = elapsed + s

\* Mutant of GivesUp: one failure too late.
GivesUpLate(n) == n > MaxPollFailures

GivesUp(n) == n >= MaxPollFailures

\* notarytool info fails, or what it says is not JSON, which clears STATUS.
PollFails ==
  /\ pc = "poll" /\ Asking
  /\ failures' = failures + 1
  /\ pc' = IF GivesUp(failures') THEN "error" ELSE "sleep"
  /\ status' \in {status, "empty"}
  /\ UNCHANGED service

\* After the loop.
Verdict(s) == IF s = "Accepted" THEN "ok" ELSE "error"

\* Mutant of Expired: the clock is looked at before the decision.
ExpiredFirst(s) == elapsed' >= PollTimeout

Expired(s) == s \notin Terminal /\ elapsed' >= PollTimeout

PollAnswers ==
  /\ pc = "poll" /\ Asking
  /\ status' \in {service, "other"}
  /\ status' = "other" => service = "InProgress"
  /\ failures' = 0
  /\ pc' = IF Expired(status') THEN "error"
           ELSE IF status' \in Terminal THEN Verdict(status') ELSE "sleep"
  /\ UNCHANGED service

Slept == elapsed' = elapsed + PollInterval

Sleep ==
  /\ pc = "sleep" /\ pc' = "poll"
  /\ Slept
  /\ UNCHANGED <<service, status, failures>>

Ended == pc \in {"ok", "error"} /\ UNCHANGED vars

Script == Submit \/ PollFails \/ PollAnswers \/ Sleep

Next == Script \/ ServiceDecides \/ Ended

\* The script runs; the service need never decide.
Spec == Init /\ [][Next]_vars /\ WF_vars(Script)

(***************************************************************************)
(* Properties.                                                             *)
(***************************************************************************)

\* The script says 0 for nothing but an accepted file, which is then stapled
\* and published (release.yml:158).
OkIsAccepted == pc = "ok" => service = "Accepted"

\* A decision that was read is acted upon, however late it is: a timeout is
\* only reported for a file that was undecided when last asked about.
DecisionIsHeard ==
  (pc = "error" /\ failures < MaxPollFailures) => status # "Accepted"

\* The script never runs much longer than its timeout: past it, only polls that
\* fail can keep it going, and not too many of them in a row.
Turn == PollInterval + MaxAsking
InTime == elapsed < PollTimeout + MaxPollFailures * Turn

\* It ends, whether the service decides or not.
Ends == <>(pc \in {"ok", "error"})

=============================================================================
