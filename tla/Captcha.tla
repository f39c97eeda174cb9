------------------------------ MODULE Captcha ------------------------------
(***************************************************************************)
(* Captchas: package captchax.  The store keeps the answer of a captcha in *)
(* a cache for a while.  Verifying reads it, removes it when told to, and  *)
(* compares: reading and removing are two calls, and a removal that fails  *)
(* is not reported.                                                        *)
(***************************************************************************)
EXTENDS Integers

CONSTANTS Ids,          \* captchas that may be generated
          Answers,      \* "" is not one of them
          Verifiers     \* calls of Verify

ASSUME EmptyAssumption == "" \notin Answers

VARIABLES
  answer,   \* of every captcha: its answer, "" before it is generated
  record,   \* what the cache holds for it, "" when nothing
  verify,   \* of every call: where it is, its arguments, and what it has read
  gone,     \* history: captchas that a verification removed, or that expired
  late      \* history: calls that began when theirs was gone

captchaVars == <<answer, record, verify, gone, late>>

CaptchaTypeOK ==
  /\ answer \in [Ids -> Answers \cup {""}] /\ record \in [Ids -> Answers \cup {""}]
  /\ verify \in [Verifiers -> [at : {"idle"}] \cup
                  [at : {"get", "del", "true", "false"}, id : Ids, clear : BOOLEAN,
                   code : Answers \cup {""}, read : Answers \cup {""}]]
  /\ gone \subseteq Ids /\ late \subseteq Verifiers

CaptchaInit ==
  /\ answer = [i \in Ids |-> ""] /\ record = answer
  /\ verify = [c \in Verifiers |-> [at |-> "idle"]]
  /\ gone = {} /\ late = {}

\* A captcha is generated with a new id.  When its answer cannot be stored the
\* caller gets an error, and the picture with it is of no use.
Generate(i, v) ==
  /\ answer[i] = ""
  /\ answer' = [answer EXCEPT ![i] = v]
  /\ record' \in {record, [record EXCEPT ![i] = v]}
  /\ UNCHANGED <<verify, gone, late>>

Expire(i) ==
  /\ record[i] # ""
  /\ record' = [record EXCEPT ![i] = ""] /\ gone' = gone \cup {i}
  /\ UNCHANGED <<answer, verify, late>>

VerifyBegins(c, i, code, clear) ==
  /\ verify[c].at = "idle"
  /\ verify' = [verify EXCEPT ![c] = [at |-> "get", id |-> i, clear |-> clear,
                                      code |-> code, read |-> ""]]
  /\ late' = IF i \in gone THEN late \cup {c} ELSE late
  /\ UNCHANGED <<answer, record, gone>>

Result(code, read) == IF code = read THEN "true" ELSE "false"

\* Mutant of GetRecord: the record is never removed.
GetRecord_Keep(c) ==
  LET v == verify[c] read == record[v.id] IN
  /\ v.at = "get"
  /\ verify' = [verify EXCEPT ![c].at = Result(v.code, read)]
  /\ gone' = IF v.clear THEN gone \cup {v.id} ELSE gone
  /\ UNCHANGED <<answer, record, late>>

\* Get: the record is read.  A cache that fails looks like one without it.
GetRecord(c) ==
  LET v == verify[c] IN
  /\ v.at = "get"
  /\ \E read \in {record[v.id], ""} :
       verify' = [verify EXCEPT ![c].read = read,
                    ![c].at = IF v.clear /\ read # "" THEN "del"
                              ELSE Result(v.code, read)]
  /\ UNCHANGED <<answer, record, gone, late>>

\* Mutant of DelRecord: a wrong answer leaves the captcha to be tried again.
DelRecord_Right(c) ==
  LET v == verify[c] IN
  /\ v.at = "del"
  /\ verify' = [verify EXCEPT ![c].at = Result(v.code, v.read)]
  /\ record' = IF v.code = v.read THEN [record EXCEPT ![v.id] = ""] ELSE record
  /\ gone' = gone \cup {v.id}
  /\ UNCHANGED <<answer, late>>

\* The record is removed, unless that fails, and the answer compared.
DelRecord(c) ==
  LET v == verify[c] IN
  /\ v.at = "del"
  /\ verify' = [verify EXCEPT ![c].at = Result(v.code, v.read)]
  /\ \/ record' = [record EXCEPT ![v.id] = ""] /\ gone' = gone \cup {v.id}
     \/ UNCHANGED <<record, gone>>
  /\ UNCHANGED <<answer, late>>

CaptchaNext ==
  \/ \E i \in Ids : Expire(i) \/ \E v \in Answers : Generate(i, v)
  \/ \E c \in Verifiers :
       \/ \E i \in Ids, code \in Answers \cup {""}, clear \in BOOLEAN :
            VerifyBegins(c, i, code, clear)
       \/ GetRecord(c) \/ DelRecord(c)

-----------------------------------------------------------------------------
(* Properties *)

\* A captcha is good for one attempt: who begins to verify after a clearing
\* verification, right or wrong, has removed it, or after it expired, is
\* refused, whatever the others do; and who is accepted gave the answer that
\* was generated.  The empty answer is left out: it equals what Get returns
\* for a captcha that is not there.
OneAttempt ==
  \A c \in Verifiers : LET v == verify[c] IN
    v.at = "true" /\ v.code # "" => c \notin late /\ v.code = answer[v.id]

=============================================================================
