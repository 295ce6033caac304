------------------------------- MODULE RateLimit -------------------------------
(***************************************************************************)
(* The request quota of internal/guard and its use by consumeScopedQuota:  *)
(* every request charges two counters at once, its user's and the          *)
(* application's, each a document with a minute window and a day window.   *)
(* A request carries the time at which it arrived, its two transactions    *)
(* commit in any order and at any later time, or their answer is lost.     *)
(* Time is counted in minutes, without end.                                *)
(***************************************************************************)
EXTENDS Naturals, FiniteSets

CONSTANTS
  Requests, Users, App,
  UserOf,            \* request -> user
  PerMinute, PerDay, \* key -> limit
  MinutesPerDay

Keys == Users \union {App}
Scopes == {"uid", "app"}

(* What a deployment guarantees; the theorems assume it.                   *)
Deployment ==
  /\ App \notin Users /\ UserOf \in [Requests -> Users]
  /\ PerMinute \in [Keys -> Nat] /\ PerDay \in [Keys -> Nat]
  /\ MinutesPerDay \in Nat \ {0}

VARIABLES
  now,
  at,       \* request -> the time it carries
  check,    \* request -> scope -> how its Consume stands
  answer,   \* request -> what the client is told
  counter,  \* key -> counterState
  charged   \* key -> history: the requests counted

vars == <<now, at, check, answer, counter, charged>>

TypeOK ==
  /\ now \in Nat /\ at \in [Requests -> Nat]
  /\ check \in [Requests -> [Scopes -> {"none", "pending", "ok", "exceeded", "failed"}]]
  /\ answer \in [Requests -> {"none", "served", "limited", "unavailable"}]
  /\ counter \in [Keys -> [minute : Nat, minuteCount : Nat, day : Nat, dayCount : Nat]]
  /\ charged \in [Keys -> SUBSET Requests]

Init ==
  /\ now = 0 /\ at = [r \in Requests |-> 0]
  /\ check = [r \in Requests |-> [s \in Scopes |-> "none"]]
  /\ answer = [r \in Requests |-> "none"]
  /\ counter = [k \in Keys |-> [minute |-> 0, minuteCount |-> 0, day |-> 0, dayCount |-> 0]]
  /\ charged = [k \in Keys |-> {}]
-----------------------------------------------------------------------------
KeyOf(r, s) == IF s = "app" THEN App ELSE UserOf[r]

(* utcWindows.                                                             *)
Day(t) == t \div MinutesPerDay

(* A stored window of the future is an invalid one.                        *)
Valid(c, t) == c.minute <= t /\ c.day <= Day(t)

Rolled(c, t) ==
  [minute |-> t, minuteCount |-> IF c.minute = t THEN c.minuteCount ELSE 0,
   day |-> Day(t), dayCount |-> IF c.day = Day(t) THEN c.dayCount ELSE 0]

Full(k, c) == c.minuteCount >= PerMinute[k] \/ c.dayCount >= PerDay[k]

Counted(c) ==
  [minute |-> c.minute, minuteCount |-> c.minuteCount + 1, day |-> c.day, dayCount |-> c.dayCount + 1]

Arrive(r) ==
  /\ check[r]["uid"] = "none" /\ at' = [at EXCEPT ![r] = now]
  /\ check' = [check EXCEPT ![r] = [s \in Scopes |-> "pending"]]
  /\ UNCHANGED <<now, answer, counter, charged>>

Answered(r, s, result) == check' = [check EXCEPT ![r][s] = result]

(* The transaction counts the request; its answer may be lost.             *)
Charge(r, s) ==
  LET k == KeyOf(r, s)
      c == Rolled(counter[k], at[r])
  IN  /\ check[r][s] = "pending" /\ Valid(counter[k], at[r]) /\ ~Full(k, c)
      /\ counter' = [counter EXCEPT ![k] = Counted(c)]
      /\ charged' = [charged EXCEPT ![k] = @ \union {r}]
      /\ \/ Answered(r, s, "ok")
         \/ Answered(r, s, "failed")
      /\ UNCHANGED <<now, at, answer>>

(* It finds the limit reached, or fails on the store or on a later window. *)
Refuse(r, s) ==
  LET k == KeyOf(r, s)
  IN  /\ check[r][s] = "pending"
      /\ \/ /\ Valid(counter[k], at[r]) /\ Full(k, Rolled(counter[k], at[r]))
            /\ Answered(r, s, "exceeded")
         \/ Answered(r, s, "failed")
      /\ UNCHANGED <<now, at, answer, counter, charged>>

(* Both answers are in: a limit first, then any other error, else served.  *)
Decide(r) ==
  /\ answer[r] = "none" /\ \A s \in Scopes : check[r][s] \notin {"none", "pending"}
  /\ answer' = [answer EXCEPT ![r] =
       IF \E s \in Scopes : check[r][s] = "exceeded" THEN "limited"
       ELSE IF \E s \in Scopes : check[r][s] = "failed" THEN "unavailable" ELSE "served"]
  /\ UNCHANGED <<now, at, check, counter, charged>>

Tick ==
  /\ now' = now + 1
  /\ UNCHANGED <<at, check, answer, counter, charged>>

Next ==
  \/ Tick
  \/ \E r \in Requests : \/ Arrive(r) \/ Decide(r)
                         \/ \E s \in Scopes : Charge(r, s) \/ Refuse(r, s)

Spec == Init /\ [][Next]_vars
-----------------------------------------------------------------------------
InMinute(k, m) == {r \in charged[k] : at[r] = m}
InDay(k, d) == {r \in charged[k] : Day(at[r]) = d}

(* In whatever order requests reach the store, no counter admits more of   *)
(* one minute, or of one day, than its limit.                              *)
WindowLimit ==
  \A k \in Keys, t \in Nat : /\ Cardinality(InMinute(k, t)) <= PerMinute[k]
                             /\ Cardinality(InDay(k, t)) <= PerDay[k]

(* A served request was counted for its user and for the application.      *)
ServedIsCounted ==
  \A r \in Requests : answer[r] = "served" => \A s \in Scopes : r \in charged[KeyOf(r, s)]

(* A client is told of a limit only when one of its counters was full of   *)
(* requests that arrived in the same window.                               *)
LimitedIsFull ==
  \A r \in Requests : answer[r] = "limited" =>
    \E k \in {UserOf[r], App} : \/ Cardinality(InMinute(k, at[r])) = PerMinute[k]
                                \/ Cardinality(InDay(k, Day(at[r]))) = PerDay[k]
=============================================================================
