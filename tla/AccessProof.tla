---------------------------- MODULE AccessProof ----------------------------
(***************************************************************************)
(* Proofs about access rules, tokens and captchas, for every number of     *)
(* callers, rules, servers, requests and captchas.  The parts share no     *)
(* state: each has an inductive invariant of its own, and AccessInv is     *)
(* their conjunction.                                                      *)
(***************************************************************************)
EXTENDS Access, TLAPS

-----------------------------------------------------------------------------
(* Captchas *)

\* What a call of Verify may be: it removes only an answer that it has read,
\* and says yes only to the answer that it was given.
Attempt(c) ==
  LET v == verify[c] IN
  v.at # "idle" =>
    /\ v.at = "del" => c \notin late /\ v.read = answer[v.id] /\ v.read # ""
    /\ c \in late => v.id \in gone
    /\ v.at = "true" /\ v.code # "" => c \notin late /\ v.code = answer[v.id]

\* The cache holds the answer that was generated, and nothing once it is gone.
CaptchaInv ==
  /\ CaptchaTypeOK
  /\ \A i \in Ids : record[i] \in {"", answer[i]}
  /\ \A i \in gone : record[i] = "" /\ answer[i] # ""
  /\ \A c \in late : verify[c].at # "idle"
  /\ \A c \in Verifiers : Attempt(c)

-----------------------------------------------------------------------------
(* Tokens *)

\* The times of a token: the second half of its life begins at refreshAt.
Fits(t) ==
  /\ t \in Token
  /\ t.by = "nobody" => t = NoToken
  /\ t.exp = t.refreshAt + (t.expire - Half(t.expire))

\* What CheckToken does with a request: it goes on with a token that it has
\* accepted, and accepts without a new one in the first half of its life only.
Answered(q) ==
  q.at # "idle" =>
    /\ Fits(q.token) /\ q.seen <= q.token.refreshAt
    /\ q.parsed <= Clock(q.on)
    /\ q.at \in {"decide", "sign"} => q.by = "CheckToken" /\ q.token.by = "GetTokenClaims"
    /\ q.at # "sign" /\ q.new # NoToken => q.at = "accepted"
    /\ q.at = "sign" => q.new.by = "GetTokenClaims"
    /\ q.new # NoToken => Fits(q.new) /\ q.parsed <= q.new.refreshAt
    /\ q.at = "accepted" /\ q.by = "CheckToken" /\ q.new = NoToken =>
         q.parsed <= q.token.refreshAt
    /\ q.at = "refused" /\ q.token.by = "GetTokenClaims" =>
         q.parsed < q.token.iat \/ q.parsed >= q.token.exp

\* A token was made, or last accepted, in the first half of its life.
TokenInv ==
  /\ TokenTypeOK
  /\ Fits(token) /\ seen <= token.refreshAt
  /\ \A r \in Requests : Answered(request[r])

-----------------------------------------------------------------------------
(* Access rules *)

\* Only updates clear and add rules, and only listings read the copy.
Place(c) ==
  /\ call[c].at \in {"clear", "read2", "apply2", "add"} => c \in Updaters
  /\ call[c].at = "list" => c \in Listers

\* An update that nobody has disturbed is the only one of its authority, and
\* has cleared its rules.
Cleared(c) ==
  /\ c \in Running \ excused => Rivals(c, call[c].sub) = {}
  /\ call[c].at \in {"read2", "apply2", "add"} /\ c \notin excused =>
       Of(call[c].sub, table) = {}

Between(c, rules) == always[c] \subseteq rules /\ rules \subseteq some[c]

\* The table is always between what it held all the time and what it held at
\* some time of a listing; so is what a listing has read, and, when it is not
\* disturbed, what it finds in the copy.
Fresh(c) ==
  /\ c \in Running => Between(c, table)
  /\ call[c].at = "apply" => Between(c, snap[c])
  /\ call[c].at = "list" /\ c \notin excused => Between(c, copy)

PolicyInv ==
  /\ PolicyTypeOK
  /\ \A c \in Callers : Place(c)
  /\ \A c \in Updaters : Cleared(c)
  /\ \A c \in Listers : Fresh(c)
  /\ ListedFresh

AccessInv == PolicyInv /\ TokenInv /\ CaptchaInv

-----------------------------------------------------------------------------
\* A call that has begun has all fields.
VerifyCall == [at : {"get", "del", "true", "false"}, id : Ids, clear : BOOLEAN,
               code : Answers \cup {""}, read : Answers \cup {""}]

LEMMA VerifyBegun ==
  ASSUME CaptchaTypeOK, NEW c \in Verifiers, verify[c].at # "idle"
  PROVE  verify[c] \in VerifyCall
BY DEF CaptchaTypeOK, VerifyCall

\* One call goes on and nobody else does.
LEMMA VerifyGoesOn ==
  ASSUME CaptchaInv, NEW c \in Verifiers, NEW w \in VerifyCall,
         verify' = [verify EXCEPT ![c] = w], UNCHANGED answer,
         record' \in [Ids -> Answers \cup {""}],
         \A i \in Ids : record'[i] \in {"", record[i]},
         gone \subseteq gone', late \subseteq late', late' \subseteq late \cup {c}, gone' \subseteq Ids,
         \A i \in gone' \ gone : record'[i] = "" /\ answer[i] # "",
         Attempt(c)'
  PROVE  CaptchaInv'
<1>1. CaptchaTypeOK'
  BY DEF CaptchaInv, CaptchaTypeOK, VerifyCall
<1>2. \A d \in Verifiers \ {c} : Attempt(d)'
  BY DEF CaptchaInv, CaptchaTypeOK, Attempt
<1>3. \A d \in late' : verify'[d].at # "idle"
  <2>1. verify'[c] = w /\ \A d \in Verifiers \ {c} : verify'[d] = verify[d]
    BY DEF CaptchaInv, CaptchaTypeOK
  <2>2. w.at # "idle"
    BY DEF VerifyCall
  <2>3. late \subseteq Verifiers /\ \A d \in late : verify[d].at # "idle"
    BY DEF CaptchaInv, CaptchaTypeOK
  <2>. QED BY <2>1, <2>2, <2>3
<1>. QED BY <1>1, <1>2, <1>3 DEF CaptchaInv

LEMMA CaptchaStep == CaptchaInv /\ CaptchaNext => CaptchaInv'
<1>1. SUFFICES ASSUME CaptchaInv, CaptchaNext PROVE CaptchaInv'
  OBVIOUS
<1>2. ASSUME NEW i \in Ids, Expire(i) PROVE CaptchaInv'
  BY <1>1, <1>2 DEF Expire, CaptchaInv, CaptchaTypeOK, Attempt
<1>3. ASSUME NEW i \in Ids, NEW v \in Answers, Generate(i, v) PROVE CaptchaInv'
  <2>1. v # "" /\ answer[i] = "" /\ record[i] = "" /\ i \notin gone
    BY <1>1, <1>3, EmptyAssumption DEF Generate, CaptchaInv
  <2>2. answer' = [answer EXCEPT ![i] = v] /\ record' \in {record, [record EXCEPT ![i] = v]}
        /\ UNCHANGED <<verify, gone, late>>
    BY <1>3 DEF Generate
  <2>3. \A c \in Verifiers : Attempt(c)'
    <3>1. SUFFICES ASSUME NEW c \in Verifiers, verify[c].at # "idle" PROVE Attempt(c)'
      BY <2>2 DEF Attempt
    <3>2. verify[c] \in VerifyCall
      BY <1>1, <3>1, VerifyBegun DEF CaptchaInv
    <3>3. Attempt(c)
      BY <1>1 DEF CaptchaInv
    <3>. QED BY <1>1, <2>1, <2>2, <3>2, <3>3 DEF Attempt, VerifyCall, CaptchaInv, CaptchaTypeOK
  <2>4. answer' \in [Ids -> Answers \cup {""}] /\ record' \in [Ids -> Answers \cup {""}]
    BY <1>1, <2>2 DEF CaptchaInv, CaptchaTypeOK
  <2>. QED BY <1>1, <2>1, <2>2, <2>3, <2>4 DEF CaptchaInv, CaptchaTypeOK
<1>4. ASSUME NEW c \in Verifiers, NEW i \in Ids, NEW code \in Answers \cup {""},
             NEW clear \in BOOLEAN, VerifyBegins(c, i, code, clear)
      PROVE  CaptchaInv'
  BY <1>1, <1>4 DEF VerifyBegins, CaptchaInv, CaptchaTypeOK, Attempt
<1>5. ASSUME NEW c \in Verifiers, GetRecord(c) PROVE CaptchaInv'
  <2>1. verify[c].at = "get" /\ verify[c] \in VerifyCall /\ UNCHANGED <<answer, record, gone, late>>
    BY <1>1, <1>5, VerifyBegun DEF GetRecord, CaptchaInv
  <2>2. PICK read \in {record[verify[c].id], ""} :
          verify' = [verify EXCEPT ![c] = [verify[c] EXCEPT !.read = read,
                       !.at = IF verify[c].clear /\ read # "" THEN "del"
                              ELSE Result(verify[c].code, read)]]
    BY <1>5 DEF GetRecord
  <2> DEFINE w == [verify[c] EXCEPT !.read = read,
                       !.at = IF verify[c].clear /\ read # "" THEN "del"
                              ELSE Result(verify[c].code, read)]
  <2>3. /\ w \in VerifyCall /\ w.id = verify[c].id /\ w.read = read /\ w.code = verify[c].code
        /\ w.at = IF verify[c].clear /\ read # "" THEN "del" ELSE Result(verify[c].code, read)
    BY <1>1, <2>1 DEF Result, VerifyCall, CaptchaInv, CaptchaTypeOK
  <2>4. verify'[c] = w /\ Attempt(c)
    BY <1>1, <2>2 DEF CaptchaInv, CaptchaTypeOK
  <2>5. Attempt(c)'
    <3>1. late' = late /\ gone' = gone /\ answer' = answer /\ verify[c].at = "get"
      BY <2>1
    <3>2. c \in late => verify[c].id \in gone
      BY <2>4, <3>1 DEF Attempt
    <3>3. read # "" => read = answer[verify[c].id] /\ verify[c].id \notin gone
      BY <1>1, <2>1 DEF VerifyCall, CaptchaInv
    <3> HIDE DEF w
    <3>. QED BY <2>3, <2>4, <3>1, <3>2, <3>3 DEF Result, Attempt
  <2>. QED BY <1>1, <2>1, <2>2, <2>3, <2>5, VerifyGoesOn DEF CaptchaInv, CaptchaTypeOK
<1>6. ASSUME NEW c \in Verifiers, DelRecord(c) PROVE CaptchaInv'
  <2> DEFINE w == [verify[c] EXCEPT !.at = Result(verify[c].code, verify[c].read)]
  <2>1. verify[c].at = "del" /\ verify[c] \in VerifyCall /\ verify' = [verify EXCEPT ![c] = w]
    BY <1>1, <1>6, VerifyBegun DEF DelRecord, CaptchaInv
  <2>2. answer' = answer /\ late' = late
        /\ \/ record' = [record EXCEPT ![verify[c].id] = ""] /\ gone' = gone \cup {verify[c].id}
           \/ record' = record /\ gone' = gone
    BY <1>6 DEF DelRecord
  <2>3. /\ w \in VerifyCall /\ w.id = verify[c].id /\ w.code = verify[c].code
        /\ w.at = Result(verify[c].code, verify[c].read)
    BY <2>1 DEF Result, VerifyCall
  <2>4. verify'[c] = w /\ c \notin late /\ verify[c].read = answer[verify[c].id]
        /\ verify[c].read # ""
    BY <1>1, <2>1 DEF CaptchaInv, CaptchaTypeOK, Attempt
  <2>5. Attempt(c)'
    <3> HIDE DEF w
    <3>. QED BY <2>2, <2>3, <2>4 DEF Result, Attempt
  <2>6. /\ record' \in [Ids -> Answers \cup {""}] /\ gone' \subseteq Ids
        /\ \A i \in Ids : record'[i] \in {"", record[i]}
        /\ \A i \in gone' \ gone : record'[i] = "" /\ answer[i] # ""
    <3>1. verify[c].id \in Ids /\ gone \subseteq Ids /\ record \in [Ids -> Answers \cup {""}]
      BY <1>1, <2>1 DEF VerifyCall, CaptchaInv, CaptchaTypeOK
    <3>. QED BY <2>2, <2>4, <3>1
  <2>. QED BY <1>1, <2>1, <2>2, <2>3, <2>5, <2>6, VerifyGoesOn
<1>. QED BY <1>1, <1>2, <1>3, <1>4, <1>5, <1>6 DEF CaptchaNext

-----------------------------------------------------------------------------
LEMMA HalfIs == \A n \in Nat : Half(n) \in Nat /\ Half(n) <= n
BY DEF Half

LEMMA ClockIs == TokenTypeOK => \A s \in Servers : Clock(s) \in Nat
BY TokenAssumption DEF TokenTypeOK, Clock

\* Setting two fields of a record leaves the others.
LEMMA TimesSet ==
  ASSUME NEW S, NEW x \in Nat, NEW y \in Nat,
         NEW t \in [by : S, iat : Nat, exp : Nat, refreshAt : Nat, expire : Nat]
  PROVE  LET u == [t EXCEPT !.exp = x, !.refreshAt = y] IN
         /\ u \in [by : S, iat : Nat, exp : Nat, refreshAt : Nat, expire : Nat]
         /\ u.by = t.by /\ u.expire = t.expire /\ u.exp = x /\ u.refreshAt = y
OBVIOUS

\* The times of a token that is made.
LEMMA FitsNew ==
  ASSUME NEW by \in {"GetTokenClaims", "GetToken"}, NEW now \in Nat, NEW n \in Nat
  PROVE  LET t == NewToken(by, now, n) IN Fits(t) /\ now <= t.refreshAt
BY HalfIs DEF NewToken, Fits, Token

\* And of one that is renewed.
LEMMA FitsRenewed ==
  ASSUME NEW t, Fits(t), t.by = "GetTokenClaims", NEW now \in Nat, NEW iat \in Nat
  PROVE  /\ Fits([Renewed(t, now) EXCEPT !.iat = iat]) /\ Fits(Renewed(t, now))
         /\ Renewed(t, now).by = "GetTokenClaims"
         /\ now <= Renewed(t, now).refreshAt
<1>1. t \in Token /\ t.expire \in Nat /\ Half(t.expire) \in Nat
  BY HalfIs DEF Fits, Token
<1> DEFINE u == Renewed(t, now)
<1>2. /\ u \in Token /\ u.by = "GetTokenClaims" /\ u.expire = t.expire
      /\ u.exp = now + t.expire /\ u.refreshAt = now + Half(t.expire)
  <2>1. now + t.expire \in Nat /\ now + Half(t.expire) \in Nat
    BY <1>1
  <2>. QED BY <1>1, <2>1, TimesSet DEF Renewed, Token
<1> HIDE DEF u
<1> DEFINE v == [u EXCEPT !.iat = iat]
<1>3. /\ v \in Token /\ v.by = "GetTokenClaims" /\ v.expire = t.expire
      /\ v.exp = now + t.expire /\ v.refreshAt = now + Half(t.expire)
  BY <1>2 DEF Token
<1> HIDE DEF v
<1>4. Fits(u) /\ Fits(v) /\ now <= u.refreshAt
  BY <1>1, <1>2, <1>3 DEF Fits
<1>. QED BY <1>2, <1>4 DEF u, v

\* A request that was sent has all fields.
Sent == [at : TokenStages \ {"idle"}, on : Servers, by : Ways, token : Token, seen : Nat,
         parsed : Nat, new : Token]

LEMMA RequestSent ==
  ASSUME TokenTypeOK, NEW r \in Requests, request[r].at # "idle"
  PROVE  request[r] \in Sent
BY DEF TokenTypeOK, Sent

\* One request goes on, and nothing changes but what the client holds.
LEMMA RequestGoesOn ==
  ASSUME TokenInv, NEW r \in Requests, NEW w \in Sent \cup {[at |-> "idle"]},
         request' = [request EXCEPT ![r] = w], time' = time, Answered(w),
         Fits(token'), seen' \in Nat, seen' <= token'.refreshAt
  PROVE  TokenInv'
<1>1. TokenTypeOK'
  BY DEF TokenInv, TokenTypeOK, Sent, Fits
<1>2. request'[r] = w /\ \A d \in Requests \ {r} : request'[d] = request[d]
  BY DEF TokenInv, TokenTypeOK
<1>3. \A d \in Requests : Answered(request[d]')
  BY <1>2 DEF TokenInv
<1>. QED BY <1>1, <1>3 DEF TokenInv, Answered, Clock

LEMMA TokenStep == TokenInv /\ TokenNext => TokenInv'
<1>1. SUFFICES ASSUME TokenInv, TokenNext PROVE TokenInv'
  OBVIOUS
<1>2. TokenTypeOK /\ Fits(token) /\ seen <= token.refreshAt /\ seen \in Nat
  BY <1>1 DEF TokenInv, TokenTypeOK
<1>3. ASSUME NEW r \in Requests, request[r].at # "idle"
      PROVE  /\ request[r] \in Sent /\ Clock(request[r].on) \in Nat
             /\ Fits(request[r].token) /\ Answered(request[r])
  BY <1>1, <1>2, <1>3, RequestSent, ClockIs DEF TokenInv, Sent, Answered
<1>4. CASE Tick
  <2>1. time' = time + 1 /\ time' \in 0..MaxTime /\ UNCHANGED <<token, request, seen>>
    BY <1>2, <1>4, TokenAssumption DEF Tick, TokenTypeOK
  <2>2. TokenTypeOK'
    BY <1>2, <2>1 DEF TokenTypeOK
  <2>3. ASSUME NEW r \in Requests PROVE Answered(request[r])'
    <3>1. SUFFICES ASSUME request[r].at # "idle" PROVE Answered(request[r])'
      BY <2>1 DEF Answered
    <3>2. request[r] \in Sent /\ Answered(request[r])
      BY <1>3, <3>1
    <3>3. request[r].parsed \in Nat /\ Clock(request[r].on) \in Nat
          /\ Clock(request[r].on)' = Clock(request[r].on) + 1
      BY <1>2, <2>1, <3>2, TokenAssumption DEF Sent, Clock, TokenTypeOK
    <3>. QED BY <2>1, <3>2, <3>3 DEF Answered
  <2>. QED BY <1>2, <2>1, <2>2, <2>3 DEF TokenInv, Fits
<1>5. ASSUME NEW s \in Servers, NEW by \in {"GetTokenClaims", "GetToken"}, NEW n \in Seconds,
             Login(s, by, n)
      PROVE  TokenInv'
  <2>1. Clock(s) \in Nat /\ n \in Nat
    BY <1>2, ClockIs, TokenAssumption
  <2>2. Fits(NewToken(by, Clock(s), n)) /\ Clock(s) <= NewToken(by, Clock(s), n).refreshAt
    BY <2>1, FitsNew
  <2>3. /\ token' = NewToken(by, Clock(s), n) /\ seen' = Clock(s)
        /\ request' = request /\ time' = time
    BY <1>5 DEF Login
  <2>4. \A r \in Requests : Answered(request[r])'
    BY <1>1, <2>3 DEF TokenInv, Answered, Clock
  <2>. QED BY <1>2, <2>1, <2>2, <2>3, <2>4 DEF TokenInv, TokenTypeOK, Fits
<1>6. ASSUME NEW r \in Requests, NEW s \in Servers, NEW way \in Ways, Send(r, s, way)
      PROVE  TokenInv'
  <2> DEFINE w == [at |-> "parse", on |-> s, by |-> way, token |-> token,
                   seen |-> seen, parsed |-> 0, new |-> NoToken]
  <2>1. request' = [request EXCEPT ![r] = w] /\ UNCHANGED <<time, token, seen>>
    BY <1>6 DEF Send
  <2>2. w \in Sent
    BY <1>2 DEF Sent, TokenStages, Token, NoToken, Fits
  <2>3. Answered(w)
    BY <1>2, ClockIs DEF Answered
  <2>. QED BY <1>1, <1>2, <2>1, <2>2, <2>3, RequestGoesOn
<1>7. ASSUME NEW r \in Requests, Parse(r) PROVE TokenInv'
  <2> DEFINE q == request[r]
             now == Clock(q.on)
             w == [q EXCEPT !.at = Taken(q.by, q.token, now), !.parsed = now]
  <2>1. q.at = "parse" /\ request' = [request EXCEPT ![r] = w] /\ UNCHANGED <<time, token, seen>>
    BY <1>7 DEF Parse
  <2>2. q \in Sent /\ now \in Nat /\ Answered(q) /\ Fits(q.token)
    BY <1>3, <2>1
  <2>3. /\ w \in Sent /\ w.at = Taken(q.by, q.token, now) /\ w.parsed = now
        /\ w.on = q.on /\ w.by = q.by /\ w.token = q.token /\ w.seen = q.seen /\ w.new = NoToken
    BY <2>1, <2>2 DEF Sent, Taken, Parsed, TokenStages, Answered
  <2>4. now = Clock(w.on)
    BY <2>3
  <2> HIDE DEF w, now
  <2>5. Answered(w)
    <3>1. q.seen <= q.token.refreshAt
      BY <2>1, <2>2 DEF Answered
    <3>2. w.at = "decide" => w.by = "CheckToken" /\ w.token.by = "GetTokenClaims"
      BY <2>2, <2>3 DEF Taken, Parsed, Fits, Token
    <3>3. w.at # "sign" /\ (w.at = "accepted" => w.by # "CheckToken")
      BY <2>3 DEF Taken, Parsed
    <3>4. w.at = "refused" /\ w.token.by = "GetTokenClaims" =>
            w.parsed < w.token.iat \/ w.parsed >= w.token.exp
      BY <2>3 DEF Taken, Parsed, NoToken
    <3>. QED BY <2>2, <2>3, <2>4, <3>1, <3>2, <3>3, <3>4 DEF Answered
  <2>. QED BY <1>1, <1>2, <2>1, <2>3, <2>5, RequestGoesOn
<1>8. ASSUME NEW r \in Requests, Decide(r) PROVE TokenInv'
  <2> DEFINE q == request[r]
             now == Clock(q.on)
             w == IF q.token.refreshAt < now
                  THEN [q EXCEPT !.at = "sign", !.new = Renewed(q.token, now)]
                  ELSE [q EXCEPT !.at = "accepted"]
  <2>1. q.at = "decide" /\ request' = [request EXCEPT ![r] = w] /\ UNCHANGED <<time, token, seen>>
    BY <1>8 DEF Decide
  <2>2. q \in Sent /\ now \in Nat /\ Answered(q) /\ Fits(q.token)
    BY <1>3, <2>1
  <2>3. /\ q.token.by = "GetTokenClaims" /\ q.by = "CheckToken" /\ q.parsed <= now
        /\ q.new = NoToken /\ q.seen <= q.token.refreshAt
    BY <2>1, <2>2 DEF Answered
  <2>4. CASE q.token.refreshAt < now
    <3>1. /\ Fits(Renewed(q.token, now)) /\ now <= Renewed(q.token, now).refreshAt
          /\ Renewed(q.token, now).by = "GetTokenClaims"
      BY <2>2, <2>3, FitsRenewed
    <3>2. /\ w \in Sent /\ w.at = "sign" /\ w.new = Renewed(q.token, now) /\ w.by = q.by
          /\ w.on = q.on /\ w.token = q.token /\ w.seen = q.seen /\ w.parsed = q.parsed
      BY <2>2, <2>4, <3>1 DEF Sent, TokenStages, Fits
    <3>3. q.parsed \in Nat /\ w.new.refreshAt \in Nat /\ Clock(w.on) = now
      BY <2>2, <3>1, <3>2 DEF Sent, Fits, Token
    <3> HIDE DEF w, now
    <3>4. Answered(w)
      BY <2>2, <2>3, <3>1, <3>2, <3>3 DEF Answered
    <3>. QED BY <1>1, <1>2, <2>1, <3>2, <3>4, RequestGoesOn
  <2>5. CASE ~(q.token.refreshAt < now)
    <3>1. /\ w \in Sent /\ w.at = "accepted" /\ w.new = NoToken /\ w.by = q.by
          /\ w.on = q.on /\ w.token = q.token /\ w.seen = q.seen /\ w.parsed = q.parsed
      BY <2>2, <2>3, <2>5 DEF Sent, TokenStages
    <3>2. q.parsed \in Nat /\ q.token.refreshAt \in Nat /\ Clock(w.on) = now
      BY <2>2, <3>1 DEF Sent, Token
    <3> HIDE DEF w, now
    <3>3. Answered(w)
      BY <2>2, <2>3, <2>5, <3>1, <3>2 DEF Answered
    <3>. QED BY <1>1, <1>2, <2>1, <3>1, <3>3, RequestGoesOn
  <2>. QED BY <2>4, <2>5
<1>9. ASSUME NEW r \in Requests, Sign(r) PROVE TokenInv'
  <2> DEFINE q == request[r]
             now == Clock(q.on)
             new == [q.new EXCEPT !.iat = now]
             w == [q EXCEPT !.at = "accepted", !.new = new]
  <2>1. q.at = "sign" /\ request' = [request EXCEPT ![r].at = "accepted", ![r].new.iat = now]
        /\ UNCHANGED <<time, token, seen>>
    BY <1>9 DEF Sign
  <2>2. q \in Sent /\ now \in Nat /\ Answered(q) /\ Fits(q.token)
    BY <1>3, <2>1
  <2>3. request' = [request EXCEPT ![r] = w]
    BY <1>2, <2>1, <2>2 DEF TokenTypeOK, Sent
  <2>4. q.new.by = "GetTokenClaims" /\ q.new # NoToken
    BY <2>1, <2>2 DEF Answered, NoToken
  <2>5. /\ Fits(q.new) /\ q.parsed <= q.new.refreshAt /\ q.parsed <= now
        /\ q.seen <= q.token.refreshAt
    BY <2>1, <2>2, <2>4 DEF Answered
  <2>6. /\ new \in Token /\ new.by = "GetTokenClaims" /\ new.exp = q.new.exp
        /\ new.refreshAt = q.new.refreshAt /\ new.expire = q.new.expire
    BY <2>2, <2>4, <2>5 DEF Fits, Token
  <2> HIDE DEF new
  <2>7. /\ w \in Sent /\ w.at = "accepted" /\ w.new = new /\ w.by = q.by
        /\ w.on = q.on /\ w.token = q.token /\ w.seen = q.seen /\ w.parsed = q.parsed
    BY <2>2, <2>6 DEF Sent, TokenStages
  <2>8. Clock(w.on) = now /\ new # NoToken /\ Fits(new)
    BY <2>5, <2>6, <2>7 DEF NoToken, Fits
  <2> HIDE DEF w, now
  <2>9. Answered(w)
    BY <2>2, <2>5, <2>6, <2>7, <2>8 DEF Answered
  <2>. QED BY <1>1, <1>2, <2>1, <2>3, <2>7, <2>9, RequestGoesOn
<1>10. ASSUME NEW r \in Requests, Receive(r) PROVE TokenInv'
  <2> DEFINE q == request[r]
             w == [at |-> "idle"]
  <2>1. /\ q.at \in {"accepted", "refused", "panic"}
        /\ request' = [request EXCEPT ![r] = w] /\ time' = time
    BY <1>10 DEF Receive
  <2>2. q \in Sent /\ Answered(q) /\ q.parsed \in Nat
    BY <1>3, <2>1 DEF Sent
  <2>3. Answered(w)
    BY DEF Answered
  <2>4. Fits(token') /\ seen' \in Nat /\ seen' <= token'.refreshAt
    <3>1. CASE q.at = "accepted" /\ q.new # NoToken
      <4>1. token' = q.new /\ seen' = q.parsed
        BY <1>10, <3>1 DEF Receive
      <4>. QED BY <2>2, <3>1, <4>1 DEF Answered
    <3>2. CASE ~(q.at = "accepted" /\ q.new # NoToken)
      <4>1. /\ token' = token
            /\ seen' = IF q.at = "accepted" /\ q.by = "CheckToken"
                          /\ q.token = token /\ q.parsed > seen
                       THEN q.parsed ELSE seen
        BY <1>10, <3>2 DEF Receive
      <4>. QED BY <1>2, <2>1, <2>2, <3>2, <4>1 DEF Answered
    <3>. QED BY <3>1, <3>2
  <2>. QED BY <1>1, <2>1, <2>3, <2>4, RequestGoesOn
<1>. QED BY <1>1, <1>4, <1>5, <1>6, <1>7, <1>8, <1>9, <1>10 DEF TokenNext

-----------------------------------------------------------------------------
\* A call that has begun has all fields.
Called == [at : CallStages, sub : Authorities, want : SUBSET Apis]

LEMMA CallBegun ==
  ASSUME PolicyTypeOK, NEW c \in Callers, call[c].at # "idle"
  PROVE  /\ call[c] \in Called /\ call[c].sub \in Authorities
         /\ call[c].want \subseteq Apis /\ Wanted(c) \subseteq Rules
<1>1. call[c] \in Called
  BY DEF PolicyTypeOK, Called
<1>. QED BY <1>1 DEF Called, Wanted, Rules

\* What a caller that goes on keeps.
LEMMA GoesIs ==
  ASSUME PolicyTypeOK, NEW c \in Callers, call[c].at # "idle",
         NEW at \in CallStages, Goes(c, at)
  PROVE  /\ call' \in [Callers -> [at : {"idle"}] \cup Called]
         /\ call'[c].at = at /\ call'[c].sub = call[c].sub /\ call'[c].want = call[c].want
         /\ \A d \in Callers \ {c} : call'[d] = call[d]
<1>1. call[c] \in Called
  BY CallBegun
<1> DEFINE w == [call[c] EXCEPT !.at = at]
<1>2. w \in Called /\ w.at = at /\ w.sub = call[c].sub /\ w.want = call[c].want
  BY <1>1 DEF Called
<1>3. call' = [call EXCEPT ![c] = w]
  BY DEF Goes
<1> HIDE DEF w
<1>. QED BY <1>2, <1>3 DEF PolicyTypeOK, Called

\* The histories of the listings that run, and of no others, follow the table.
Histories ==
  \A d \in Listers :
    /\ always'[d] \subseteq always[d] /\ some[d] \subseteq some'[d]
    /\ d \notin Running => always'[d] = always[d] /\ some'[d] = some[d]
    /\ d \in Running => Between(d, table)'

\* What a listing returned.
Listed(c) ==
  LET listed == {call[c].sub} \X call[c].want IN
    Of(call[c].sub, always[c]) \subseteq listed /\ listed \subseteq some[c]

\* What an action has to show: that the callers that move are where they may
\* be, and that what they have read, removed or returned is right.
LEMMA PolicyMoves ==
  ASSUME PolicyInv, PolicyTypeOK', excused \subseteq excused', Histories,
         \A d \in Callers :
           \/ call'[d] = call[d]
           \/ d \in Running /\ call'[d].at # "idle" /\ call'[d].sub = call[d].sub,
         \A d \in Callers : Place(d)',
         \A d \in Updaters \ excused' : call'[d].at \in {"read2", "apply2", "add"} =>
           Of(call'[d].sub, table') = {},
         \A d \in Listers :
           /\ call'[d].at = "apply" => Between(d, snap[d])'
           /\ call'[d].at = "list" /\ d \notin excused' => Between(d, copy)'
           /\ call'[d].at = "ok" /\ d \notin excused' => Listed(d)' \/ call'[d] = call[d]
  PROVE  PolicyInv'
<1>1. Running' \subseteq Running
  BY DEF Running
<1>2. \A d \in Updaters : Cleared(d)'
  <2>1. SUFFICES ASSUME NEW d \in Updaters, d \in Running', d \notin excused'
                 PROVE  Rivals(d, call[d].sub)' = {}
    BY DEF Cleared
  <2>2. d \in Running /\ d \notin excused /\ call'[d].sub = call[d].sub
    BY <1>1, <2>1 DEF Running, Callers
  <2>3. Rivals(d, call[d].sub) = {}
    BY <2>2 DEF PolicyInv, Cleared
  <2>4. \A e \in Running' \cap Updaters : e \in Running /\ call'[e].sub = call[e].sub
    BY <1>1 DEF Callers
  <2>. QED BY <2>2, <2>3, <2>4 DEF Rivals
<1>3. \A d \in Listers : Fresh(d)'
  <2>1. \A d \in Listers : d \in Running' => Between(d, table)'
    BY <1>1 DEF Histories
  <2>. QED BY <2>1 DEF Fresh
<1>4. ListedFresh'
  <2>1. SUFFICES ASSUME NEW d \in Listers, call'[d].at = "ok", d \notin excused', call'[d] = call[d]
                 PROVE  Listed(d)'
    BY DEF ListedFresh, Listed
  <2>2. Listed(d)
    BY <2>1 DEF PolicyInv, ListedFresh, Listed
  <2>3. always'[d] = always[d] /\ some'[d] = some[d]
    BY <2>1 DEF Histories, Running
  <2>. QED BY <2>1, <2>2, <2>3 DEF Listed
<1>. QED BY <1>2, <1>3, <1>4 DEF PolicyInv

\* A table that changes, or stays, with the histories it has.
LEMMA TableHistories ==
  ASSUME PolicyInv, NEW new \in SUBSET Rules, Table(new)
  PROVE  /\ Histories /\ table' = new
         /\ some' \in [Listers -> SUBSET Rules] /\ always' \in [Listers -> SUBSET Rules]
BY DEF Table, Histories, Between, PolicyInv, PolicyTypeOK, Fresh

LEMMA SameHistories ==
  ASSUME PolicyInv, UNCHANGED <<table, some, always>>
  PROVE  Histories
BY DEF Histories, Between, PolicyInv, Fresh

\* A call begins.
LEMMA CallBegins ==
  ASSUME PolicyInv, NEW c \in Callers, call[c].at = "idle",
         NEW sub \in Authorities, NEW want \in SUBSET Apis,
         call' = [call EXCEPT ![c] = [at |-> "read", sub |-> sub, want |-> want]],
         UNCHANGED <<enforcer, table, copy, snap, renames>>,
         some' \in [Listers -> SUBSET Rules], always' \in [Listers -> SUBSET Rules],
         \A d \in Listers \ {c} : some'[d] = some[d] /\ always'[d] = always[d],
         c \in Listers => some'[c] = table /\ always'[c] = table,
         \/ excused' = excused \cup Rivals(c, sub) \cup (IF Rivals(c, sub) = {} THEN {} ELSE {c})
         \/ excused' = excused /\ c \notin Updaters
  PROVE  PolicyInv'
<1> DEFINE w == [at |-> "read", sub |-> sub, want |-> want]
<1>1. /\ call'[c] = w /\ w.at = "read" /\ w.sub = sub /\ w \in Called
      /\ \A d \in Callers \ {c} : call'[d] = call[d]
  BY DEF PolicyInv, PolicyTypeOK, Called, CallStages
<1>2. PolicyTypeOK'
  <2>1. call' \in [Callers -> [at : {"idle"}] \cup Called]
    BY <1>1 DEF PolicyInv, PolicyTypeOK, Called
  <2>2. excused' \subseteq Callers
    BY DEF PolicyInv, PolicyTypeOK, Rivals, Callers
  <2>. QED BY <2>1, <2>2 DEF PolicyInv, PolicyTypeOK, Called
<1> HIDE DEF w
<1>3. \A d \in Callers : Place(d)'
  BY <1>1 DEF PolicyInv, Place
<1>4. Running' = Running \cup {c}
  BY <1>1 DEF Running
<1>5. \A d \in Updaters : Cleared(d)'
  <2>1. ASSUME NEW d \in Updaters, d \in Running', d \notin excused'
        PROVE  Rivals(d, call[d].sub)' = {}
    <3>1. d # c => d \in Running \ excused /\ call'[d] = call[d] /\ Rivals(d, call[d].sub) = {}
      BY <1>1, <1>4, <2>1 DEF PolicyInv, Cleared, Callers, Rivals
    <3>2. d = c => Rivals(c, sub) = {}
      BY <2>1
    <3>3. \A e \in Updaters \ {c} : call'[e] = call[e]
      BY <1>1 DEF Callers
    <3>4. CASE d = c
      BY <1>1, <1>4, <3>2, <3>3, <3>4 DEF Rivals
    <3>5. CASE d # c
      <4>1. c \in Updaters => call[d].sub # sub
        BY <2>1, <3>1, <3>5 DEF Rivals
      <4>. QED BY <1>1, <1>4, <3>1, <3>3, <3>5, <4>1 DEF Rivals
    <3>. QED BY <3>4, <3>5
  <2>2. \A d \in Updaters \ {c} : call'[d] = call[d] /\ (d \notin excused' => d \notin excused)
    BY <1>1 DEF Callers
  <2>. QED BY <1>1, <2>1, <2>2 DEF PolicyInv, Cleared
<1>6. \A d \in Listers : Fresh(d)'
  <2>1. ASSUME NEW d \in Listers, d # c PROVE Fresh(d)'
    <3>1. call'[d] = call[d] /\ some'[d] = some[d] /\ always'[d] = always[d]
      BY <1>1, <2>1 DEF Callers
    <3>2. Fresh(d) /\ (d \in Running' => d \in Running)
      BY <1>4, <2>1 DEF PolicyInv
    <3>3. d \notin excused' => d \notin excused
      OBVIOUS
    <3>. QED BY <3>1, <3>2, <3>3 DEF Fresh, Between
  <2>2. c \in Listers => Fresh(c)'
    BY <1>1 DEF Fresh, Between
  <2>. QED BY <2>1, <2>2
<1>7. ListedFresh'
  <2>1. ASSUME NEW d \in Listers, call'[d].at = "ok", d \notin excused'
        PROVE  Listed(d)'
    <3>1. d # c /\ call'[d] = call[d] /\ some'[d] = some[d] /\ always'[d] = always[d]
      BY <1>1, <2>1 DEF Callers
    <3>2. Listed(d)
      BY <2>1, <3>1 DEF PolicyInv, ListedFresh, Listed
    <3>. QED BY <3>1, <3>2 DEF Listed
  <2>. QED BY <2>1 DEF ListedFresh, Listed
<1>. QED BY <1>2, <1>3, <1>5, <1>6, <1>7 DEF PolicyInv

\* An operation of a caller that is on its way.
LEMMA CallerStep ==
  ASSUME PolicyInv, NEW c \in Callers,
         \/ Make(c) \/ MakeFails(c) \/ Panic(c) \/ LoadReads(c) \/ LoadApplies(c)
         \/ LoadFails(c) \/ Clear(c) \/ ClearFails(c) \/ Add(c) \/ List(c)
  PROVE  PolicyInv'
<1>1. PolicyTypeOK /\ Place(c) /\ (c \in Updaters => Cleared(c)) /\ (c \in Listers => Fresh(c))
  BY DEF PolicyInv
<1>2. c \in Updaters \/ c \in Listers
  BY DEF Callers
<1>3. \A d \in Callers : Place(d)
  BY DEF PolicyInv
<1>4. \A d \in Updaters \ excused : call[d].at \in {"read2", "apply2", "add"} =>
        Of(call[d].sub, table) = {}
  BY DEF PolicyInv, Cleared
<1>5. \A d \in Listers : Fresh(d)
  BY DEF PolicyInv
<1>6. CASE Make(c) \/ MakeFails(c)
  <2>1. /\ call' = call /\ snap' = snap /\ excused' = excused /\ enforcer' \in {"ready", "nil"}
        /\ copy' \in {copy, table} /\ UNCHANGED <<table, some, always, renames>>
    BY <1>6 DEF Make, MakeFails
  <2>2. PolicyTypeOK' /\ Histories
    BY <1>1, <2>1, SameHistories DEF PolicyTypeOK
  <2>3. \A d \in Listers : call'[d].at = "list" /\ d \notin excused' => Between(d, copy)'
    BY <1>5, <2>1 DEF Fresh, Between, Running, Callers
  <2>4. \A d \in Listers : call'[d].at = "apply" => Between(d, snap[d])'
    BY <1>5, <2>1 DEF Fresh, Between
  <2>5. \A d \in Callers : Place(d)'
    BY <1>3, <2>1 DEF Place
  <2>. QED BY <1>4, <2>1, <2>2, <2>3, <2>4, <2>5, PolicyMoves
<1>7. CASE Panic(c) \/ LoadReads(c) \/ LoadFails(c) \/ ClearFails(c)
  <2>1. /\ UNCHANGED <<enforcer, table, copy, renames, some, always>>
        /\ excused' \in {excused, excused \cup {c}}
        /\ c \in Running /\ call[c].at # "idle"
    BY <1>7 DEF Panic, LoadReads, LoadFails, ClearFails, Running
  <2>2. PICK at \in CallStages :
          /\ Goes(c, at)
          /\ at \in {"apply", "apply2"} => snap'[c] = table
          /\ at = "apply" => call[c].at = "read"
          /\ at = "apply2" => call[c].at = "read2"
          /\ at = "add" => call[c].at = "read2" /\ c \notin Listers
          /\ at \in {"clear", "read2"} => c \in Updaters
          /\ at = "read2" => c \in excused'
          /\ at = "list" => c \in Listers /\ c \in excused'
          /\ at # "ok" /\ at # "idle"
    <3>1. \A d \in Callers : AfterLoad(d) \in {"list", "clear", "add"}
      BY DEF AfterLoad
    <3>2. CASE Panic(c)
      BY <3>2 DEF Panic, CallStages
    <3>3. CASE LoadReads(c)
      <4>1. snap'[c] = table
        BY <1>1, <3>3 DEF LoadReads, PolicyTypeOK
      <4>. QED BY <3>3, <4>1 DEF LoadReads, CallStages
    <3>4. CASE LoadFails(c)
      <4>1. /\ Goes(c, AfterLoad(c)) /\ call[c].at \in {"read", "read2"}
            /\ excused' = excused \cup ({c} \cap Listers)
        BY <3>4 DEF LoadFails
      <4>2. CASE c \in Listers
        <5>1. AfterLoad(c) = "list" /\ "list" \in CallStages /\ c \in excused'
          BY <4>1, <4>2 DEF AfterLoad, CallStages
        <5>. QED BY <4>1, <4>2, <5>1
      <4>3. CASE c \notin Listers /\ call[c].at = "read"
        <5>1. AfterLoad(c) = "clear" /\ "clear" \in CallStages
          BY <4>3 DEF AfterLoad, CallStages
        <5>. QED BY <1>2, <4>1, <4>3, <5>1
      <4>4. CASE c \notin Listers /\ call[c].at = "read2"
        <5>1. AfterLoad(c) = "add" /\ "add" \in CallStages
          BY <4>4 DEF AfterLoad, CallStages
        <5>. QED BY <4>1, <4>4, <5>1
      <4>. QED BY <4>1, <4>2, <4>3, <4>4
    <3>5. CASE ClearFails(c)
      BY <1>1, <3>5 DEF ClearFails, CallStages, Place
    <3>. QED BY <1>7, <3>2, <3>3, <3>4, <3>5
  <2>3. /\ call' \in [Callers -> [at : {"idle"}] \cup Called]
        /\ call'[c].at = at /\ call'[c].sub = call[c].sub
        /\ \A d \in Callers \ {c} : call'[d] = call[d]
    BY <1>1, <2>1, <2>2, GoesIs
  <2>4. snap' \in [Callers -> SUBSET Rules] /\ \A d \in Callers \ {c} : snap'[d] = snap[d]
    BY <1>1, <1>7 DEF Panic, LoadReads, LoadFails, ClearFails, PolicyTypeOK
  <2>5. PolicyTypeOK' /\ Histories
    BY <1>1, <2>1, <2>3, <2>4, SameHistories DEF PolicyTypeOK, Called
  <2>6. \A d \in Callers : Place(d)'
    BY <1>2, <1>3, <2>2, <2>3 DEF Place
  <2>7. \A d \in Updaters \ excused' : call'[d].at \in {"read2", "apply2", "add"} =>
          Of(call'[d].sub, table') = {}
    BY <1>4, <2>1, <2>2, <2>3 DEF Callers
  <2>8. ASSUME NEW d \in Listers
        PROVE  /\ call'[d].at = "apply" => Between(d, snap[d])'
               /\ call'[d].at = "list" /\ d \notin excused' => Between(d, copy)'
               /\ call'[d].at = "ok" => call'[d] = call[d]
    <3>1. CASE d # c
      BY <1>5, <2>1, <2>3, <2>4, <3>1 DEF Fresh, Between, Callers
    <3>2. CASE d = c
      BY <1>5, <2>1, <2>2, <2>3, <3>2 DEF Fresh, Between
    <3>. QED BY <3>1, <3>2
  <2>. QED BY <2>1, <2>2, <2>3, <2>5, <2>6, <2>7, <2>8, PolicyMoves
<1>8. CASE LoadApplies(c)
  <2>1. /\ UNCHANGED <<enforcer, table, renames, some, always>>
        /\ call[c].at \in {"apply", "apply2"} /\ c \in Running /\ call[c].at # "idle"
        /\ copy' = snap[c] /\ snap' = [snap EXCEPT ![c] = {}] /\ Goes(c, AfterLoad(c))
    BY <1>8 DEF LoadApplies, Running
  <2>2. /\ AfterLoad(c) \in CallStages /\ AfterLoad(c) \in {"list", "clear", "add"}
        /\ (c \in Listers <=> AfterLoad(c) = "list")
        /\ AfterLoad(c) = "add" => call[c].at = "apply2"
    <3>1. CASE c \in Listers
      BY <3>1 DEF AfterLoad, CallStages
    <3>2. CASE c \notin Listers
      BY <2>1, <3>2 DEF AfterLoad, CallStages
    <3>. QED BY <3>1, <3>2
  <2>3. /\ call' \in [Callers -> [at : {"idle"}] \cup Called]
        /\ call'[c].at = AfterLoad(c) /\ call'[c].sub = call[c].sub
        /\ \A d \in Callers \ {c} : call'[d] = call[d]
    BY <1>1, <2>1, <2>2, GoesIs
  <2>4. excused' = excused \cup {d \in Listers \ {c} :
                   /\ call[d].at = "list"
                   /\ ~(always[d] \subseteq snap[c] /\ snap[c] \subseteq some[d])}
    BY <1>8 DEF LoadApplies
  <2>5. PolicyTypeOK' /\ Histories
    <3>1. excused' \subseteq Callers
      BY <1>1, <2>4 DEF Callers, PolicyTypeOK
    <3>. QED BY <1>1, <2>1, <2>3, <3>1, SameHistories DEF PolicyTypeOK, Called
  <2>6. \A d \in Callers : Place(d)'
    BY <1>2, <1>3, <2>2, <2>3 DEF Place
  <2>7. \A d \in Updaters \ excused' : call'[d].at \in {"read2", "apply2", "add"} =>
          Of(call'[d].sub, table') = {}
    BY <1>4, <2>1, <2>2, <2>3, <2>4 DEF Callers
  <2>8. ASSUME NEW d \in Listers
        PROVE  /\ call'[d].at = "apply" => Between(d, snap[d])'
               /\ call'[d].at = "list" /\ d \notin excused' => Between(d, copy)'
               /\ call'[d].at = "ok" => call'[d] = call[d]
    <3>1. CASE d # c
      <4>1. snap'[d] = snap[d]
        BY <1>1, <2>1, <3>1 DEF PolicyTypeOK, Callers
      <4>. QED BY <1>5, <2>1, <2>3, <2>4, <3>1, <4>1 DEF Fresh, Between, Callers
    <3>2. CASE d = c
      <4>1. call[c].at = "apply"
        BY <1>3, <2>1, <3>2, PolicyAssumption DEF Place
      <4>. QED BY <1>5, <2>1, <2>2, <2>3, <3>2, <4>1 DEF Fresh, Between
    <3>. QED BY <3>1, <3>2
  <2>. QED BY <2>1, <2>2, <2>3, <2>4, <2>5, <2>6, <2>7, <2>8, PolicyMoves
<1>9. CASE Clear(c)
  <2>1. /\ UNCHANGED <<enforcer, renames, snap, excused>>
        /\ call[c].at = "clear" /\ c \in Running /\ c \in Updaters /\ call[c].at # "idle"
        /\ copy' = copy \ Of(call[c].sub, copy) /\ Table(table \ Of(call[c].sub, table))
        /\ Goes(c, "read2")
    BY <1>1, <1>9 DEF Clear, Running, Place
  <2>2. /\ call' \in [Callers -> [at : {"idle"}] \cup Called]
        /\ call'[c].at = "read2" /\ call'[c].sub = call[c].sub
        /\ \A d \in Callers \ {c} : call'[d] = call[d]
    BY <1>1, <2>1, GoesIs DEF CallStages
  <2>3. /\ Histories /\ table' = table \ Of(call[c].sub, table)
        /\ some' \in [Listers -> SUBSET Rules] /\ always' \in [Listers -> SUBSET Rules]
    <3>1. table \ Of(call[c].sub, table) \in SUBSET Rules
      BY <1>1 DEF PolicyTypeOK
    <3>. QED BY <2>1, <3>1, TableHistories
  <2>4. PolicyTypeOK'
    BY <1>1, <2>1, <2>2, <2>3 DEF PolicyTypeOK, Called
  <2>5. \A d \in Callers : Place(d)'
    BY <1>3, <2>1, <2>2 DEF Place
  <2>6. \A d \in Updaters \ excused' : call'[d].at \in {"read2", "apply2", "add"} =>
          Of(call'[d].sub, table') = {}
    BY <1>4, <2>1, <2>2, <2>3 DEF Of, Callers
  <2>7. ASSUME NEW d \in Listers
        PROVE  /\ call'[d].at = "apply" => Between(d, snap[d])'
               /\ call'[d].at = "list" /\ d \notin excused' => Between(d, copy)'
               /\ call'[d].at = "ok" => call'[d] = call[d]
    <3>1. d # c /\ call'[d] = call[d]
      BY <2>1, <2>2, PolicyAssumption DEF Callers
    <3>2. always'[d] \subseteq always[d] /\ some[d] \subseteq some'[d]
      BY <2>3 DEF Histories
    <3>3. call[d].at = "list" => always'[d] \subseteq table'
      BY <2>3 DEF Histories, Running, Between, Callers
    <3>. QED BY <1>5, <2>1, <2>3, <3>1, <3>2, <3>3 DEF Fresh, Between, Of
  <2>. QED BY <2>1, <2>2, <2>3, <2>4, <2>5, <2>6, <2>7, PolicyMoves
<1>10. CASE Add(c)
  <2>1. /\ UNCHANGED <<enforcer, renames, snap, excused>>
        /\ call[c].at = "add" /\ c \in Running /\ c \in Updaters /\ call[c].at # "idle"
    BY <1>1, <1>10 DEF Add, Running, Place
  <2>2. PICK at \in {"ok", "error"} : Goes(c, at)
    BY <1>10 DEF Add
  <2>3. /\ call' \in [Callers -> [at : {"idle"}] \cup Called]
        /\ call'[c].at = at /\ call'[c].sub = call[c].sub
        /\ \A d \in Callers \ {c} : call'[d] = call[d]
    BY <1>1, <2>1, <2>2, GoesIs DEF CallStages
  <2>4. /\ Histories /\ copy' \in SUBSET Rules /\ table' \in SUBSET Rules
        /\ some' \in [Listers -> SUBSET Rules] /\ always' \in [Listers -> SUBSET Rules]
        /\ \/ table' = table \cup Wanted(c) /\ copy' = copy \cup Wanted(c)
           \/ table' = table /\ copy' = copy
    <3>1. Wanted(c) \subseteq Rules
      BY <1>1, <2>1, CallBegun
    <3>2. CASE Table(table \cup Wanted(c)) /\ copy' = copy \cup Wanted(c)
      <4>1. table \cup Wanted(c) \in SUBSET Rules
        BY <1>1, <3>1 DEF PolicyTypeOK
      <4>. QED BY <1>1, <3>1, <3>2, <4>1, TableHistories DEF PolicyTypeOK
    <3>3. CASE UNCHANGED <<table, copy, some, always>>
      BY <1>1, <3>3, SameHistories DEF PolicyTypeOK
    <3>. QED BY <1>10, <3>2, <3>3 DEF Add
  <2>5. PolicyTypeOK'
    BY <1>1, <2>1, <2>3, <2>4 DEF PolicyTypeOK, Called
  <2>6. \A d \in Callers : Place(d)'
    BY <1>3, <2>2, <2>3 DEF Place
  <2>7. ASSUME NEW d \in Updaters \ excused', call'[d].at \in {"read2", "apply2", "add"}
        PROVE  Of(call'[d].sub, table') = {}
    <3>1. d # c /\ call'[d] = call[d]
      BY <2>2, <2>3, <2>7 DEF Callers
    <3>2. Of(call[d].sub, table) = {}
      BY <1>4, <2>1, <2>7, <3>1
    <3>3. call[d].sub # call[c].sub
      <4>1. d \in Running \ excused
        BY <2>1, <2>7, <3>1 DEF Running, Callers
      <4>2. Rivals(d, call[d].sub) = {}
        BY <4>1 DEF PolicyInv, Cleared
      <4>. QED BY <2>1, <3>1, <4>2 DEF Rivals
    <3>. QED BY <2>4, <3>1, <3>2, <3>3 DEF Of, Wanted
  <2>8. ASSUME NEW d \in Listers
        PROVE  /\ call'[d].at = "apply" => Between(d, snap[d])'
               /\ call'[d].at = "list" /\ d \notin excused' => Between(d, copy)'
               /\ call'[d].at = "ok" => call'[d] = call[d]
    <3>1. d # c /\ call'[d] = call[d]
      BY <2>1, <2>3, PolicyAssumption DEF Callers
    <3>2. always'[d] \subseteq always[d] /\ some[d] \subseteq some'[d]
      BY <2>4 DEF Histories
    <3>3. call[d].at = "list" => table' \subseteq some'[d]
      BY <2>4, <3>1 DEF Histories, Running, Between, Callers
    <3>. QED BY <1>5, <2>1, <2>4, <3>1, <3>2, <3>3 DEF Fresh, Between
  <2>. QED BY <2>1, <2>2, <2>3, <2>4, <2>5, <2>6, <2>7, <2>8, PolicyMoves
<1>11. CASE List(c)
  <2> DEFINE found == {r[2] : r \in Of(call[c].sub, copy)}
             w == [call[c] EXCEPT !.at = "ok", !.want = found]
  <2>1. /\ UNCHANGED <<enforcer, table, copy, snap, renames, some, always, excused>>
        /\ call[c].at = "list" /\ c \in Running /\ c \in Listers /\ call[c].at # "idle"
        /\ call' = [call EXCEPT ![c] = w]
    BY <1>1, <1>11 DEF List, Running, Place
  <2>2. call[c] \in Called /\ call[c].sub \in Authorities /\ found \subseteq Apis
    BY <1>1, <2>1, CallBegun DEF Of, PolicyTypeOK, Rules
  <2> HIDE DEF found
  <2>3. w \in Called /\ w.at = "ok" /\ w.sub = call[c].sub /\ w.want = found
    BY <2>2 DEF Called, CallStages
  <2> HIDE DEF w
  <2>4. /\ call' \in [Callers -> [at : {"idle"}] \cup Called]
        /\ call'[c].at = "ok" /\ call'[c].sub = call[c].sub /\ call'[c].want = found
        /\ \A d \in Callers \ {c} : call'[d] = call[d]
    BY <1>1, <2>1, <2>3 DEF PolicyTypeOK, Called
  <2>5. PolicyTypeOK' /\ Histories
    BY <1>1, <2>1, <2>4, SameHistories DEF PolicyTypeOK, Called
  <2>6. \A d \in Callers : Place(d)'
    BY <1>3, <2>4 DEF Place
  <2>7. \A d \in Updaters \ excused' : call'[d].at \in {"read2", "apply2", "add"} =>
          Of(call'[d].sub, table') = {}
    BY <1>4, <2>1, <2>4 DEF Callers
  <2>8. ASSUME NEW d \in Listers
        PROVE  /\ call'[d].at = "apply" => Between(d, snap[d])'
               /\ call'[d].at = "list" /\ d \notin excused' => Between(d, copy)'
               /\ call'[d].at = "ok" /\ d \notin excused' => Listed(d)' \/ call'[d] = call[d]
    <3>1. CASE d # c
      BY <1>5, <2>1, <2>4, <3>1 DEF Fresh, Between, Callers
    <3>2. CASE d = c
      <4>1. {call[c].sub} \X found = Of(call[c].sub, copy)
        BY <1>1 DEF Of, found, PolicyTypeOK, Rules
      <4>2. c \notin excused => Between(c, copy)
        BY <1>5, <2>1 DEF Fresh
      <4>. QED BY <2>1, <2>4, <3>2, <4>1, <4>2 DEF Listed, Between, Of
    <3>. QED BY <3>1, <3>2
  <2>. QED BY <2>1, <2>4, <2>5, <2>6, <2>7, <2>8, PolicyMoves
<1>. QED BY <1>6, <1>7, <1>8, <1>9, <1>10, <1>11


LEMMA PolicyStep == PolicyInv /\ PolicyNext => PolicyInv'
<1>1. SUFFICES ASSUME PolicyInv, PolicyNext PROVE PolicyInv'
  OBVIOUS
<1>2. PolicyTypeOK
  BY <1>1 DEF PolicyInv
<1>3. ASSUME NEW sub \in Authorities, NEW c \in Updaters, NEW want \in Wants, Update(c, sub, want)
      PROVE  PolicyInv'
  <2>1. c \in Callers /\ c \notin Listers /\ want \in SUBSET Apis
    BY PolicyAssumption DEF Callers
  <2>2. /\ call[c].at = "idle"
        /\ call' = [call EXCEPT ![c] = [at |-> "read", sub |-> sub, want |-> want]]
        /\ excused' = excused \cup Rivals(c, sub) \cup (IF Rivals(c, sub) = {} THEN {} ELSE {c})
        /\ UNCHANGED <<enforcer, table, copy, snap, renames, some, always>>
    BY <1>3 DEF Update
  <2>. QED BY <1>1, <1>2, <2>1, <2>2, CallBegins DEF PolicyTypeOK
<1>4. ASSUME NEW sub \in Authorities, NEW c \in Listers, AskList(c, sub) PROVE PolicyInv'
  <2>1. c \in Callers /\ c \notin Updaters /\ {} \in SUBSET Apis
    BY PolicyAssumption DEF Callers
  <2>2. /\ call[c].at = "idle"
        /\ call' = [call EXCEPT ![c] = [at |-> "read", sub |-> sub, want |-> {}]]
        /\ some' = [some EXCEPT ![c] = table] /\ always' = [always EXCEPT ![c] = table]
        /\ excused' = excused /\ UNCHANGED <<enforcer, table, copy, snap, renames>>
    BY <1>4 DEF AskList
  <2>. QED BY <1>1, <1>2, <2>1, <2>2, CallBegins DEF PolicyTypeOK
<1>5. ASSUME NEW old \in Apis, NEW new \in Apis, Rename(old, new) PROVE PolicyInv'
  <2> DEFINE moved == {r \in table : r[2] = old}
             names == (table \ moved) \cup {<<r[1], new>> : r \in moved}
  <2>1. /\ renames < MaxRenames /\ renames' = renames + 1 /\ Table(names)
        /\ excused' = excused \cup (Running \cap Updaters)
        /\ UNCHANGED <<enforcer, copy, call, snap>>
    BY <1>5 DEF Rename
  <2>2. names \in SUBSET Rules
    BY <1>2 DEF PolicyTypeOK, Rules
  <2> HIDE DEF names
  <2>3. /\ Histories /\ table' = names
        /\ some' \in [Listers -> SUBSET Rules] /\ always' \in [Listers -> SUBSET Rules]
    BY <1>1, <2>1, <2>2, TableHistories
  <2>4. renames' \in 0..MaxRenames
    BY <1>2, <2>1, PolicyAssumption DEF PolicyTypeOK
  <2>5. PolicyTypeOK'
    BY <1>2, <2>1, <2>2, <2>3, <2>4 DEF PolicyTypeOK, Callers
  <2>6. \A d \in Callers : Place(d)'
    BY <1>1, <2>1 DEF PolicyInv, Place
  <2>7. \A d \in Updaters \ excused' : call'[d].at \notin {"read2", "apply2", "add"}
    BY <2>1 DEF Running, Callers
  <2>8. ASSUME NEW d \in Listers
        PROVE  /\ call'[d].at = "apply" => Between(d, snap[d])'
               /\ call'[d].at = "list" /\ d \notin excused' => Between(d, copy)'
    BY <1>1, <2>1, <2>3 DEF PolicyInv, Fresh, Between, Histories
  <2>. QED BY <1>1, <2>1, <2>3, <2>5, <2>6, <2>7, <2>8, PolicyMoves
<1>. QED BY <1>1, <1>3, <1>4, <1>5, CallerStep DEF PolicyNext

-----------------------------------------------------------------------------
\* The parts together: a step of one leaves the others as they are.
LEMMA Stays ==
  /\ PolicyInv /\ UNCHANGED policyVars => PolicyInv'
  /\ TokenInv /\ UNCHANGED tokenVars => TokenInv'
  /\ CaptchaInv /\ UNCHANGED captchaVars => CaptchaInv'
<1>1. ASSUME PolicyInv, UNCHANGED policyVars PROVE PolicyInv'
  BY <1>1 DEF PolicyInv, policyVars, PolicyTypeOK, Place, Cleared, Fresh, Between,
              ListedFresh, Running, Rivals, Of
<1>2. ASSUME TokenInv, UNCHANGED tokenVars PROVE TokenInv'
  BY <1>2 DEF TokenInv, tokenVars, TokenTypeOK, Fits, Answered, Clock
<1>3. ASSUME CaptchaInv, UNCHANGED captchaVars PROVE CaptchaInv'
  BY <1>3 DEF CaptchaInv, captchaVars, CaptchaTypeOK, Attempt
<1>. QED BY <1>1, <1>2, <1>3

LEMMA AccessInit == Init => AccessInv
<1>1. SUFFICES ASSUME Init PROVE AccessInv
  OBVIOUS
<1>2. PolicyInv
  <2>1. PolicyTypeOK
    BY <1>1, PolicyAssumption DEF Init, PolicyInit, PolicyTypeOK
  <2>. QED BY <1>1, <2>1 DEF Init, PolicyInit, PolicyInv, Place, Cleared, Fresh,
                             ListedFresh, Running, Callers
<1>3. TokenInv
  <2>1. NoToken \in Token /\ NoToken.by = "nobody" /\ NoToken.exp = 0
        /\ NoToken.refreshAt = 0 /\ NoToken.expire = 0 /\ Half(0) = 0
    BY DEF NoToken, Token, Half
  <2>2. time = 0 /\ token = NoToken /\ seen = 0
        /\ request = [r \in Requests |-> [at |-> "idle"]]
    BY <1>1 DEF Init, TokenInit
  <2>3. TokenTypeOK
    BY <2>1, <2>2, TokenAssumption DEF TokenTypeOK
  <2>4. Fits(token) /\ seen <= token.refreshAt
    BY <2>1, <2>2 DEF Fits
  <2>. QED BY <2>2, <2>3, <2>4 DEF TokenInv, Answered
<1>4. CaptchaInv
  BY <1>1 DEF Init, CaptchaInit, CaptchaInv, CaptchaTypeOK, Attempt
<1>. QED BY <1>2, <1>3, <1>4 DEF AccessInv

LEMMA AccessStep == AccessInv /\ [Next]_vars => AccessInv'
<1>1. SUFFICES ASSUME AccessInv, [Next]_vars PROVE AccessInv'
  OBVIOUS
<1>2. CASE PolicyNext /\ UNCHANGED <<tokenVars, captchaVars>>
  BY <1>1, <1>2, PolicyStep, Stays DEF AccessInv
<1>3. CASE TokenNext /\ UNCHANGED <<policyVars, captchaVars>>
  BY <1>1, <1>3, TokenStep, Stays DEF AccessInv
<1>4. CASE CaptchaNext /\ UNCHANGED <<policyVars, tokenVars>>
  BY <1>1, <1>4, CaptchaStep, Stays DEF AccessInv
<1>5. CASE UNCHANGED vars
  BY <1>1, <1>5, Stays DEF AccessInv, vars
<1>. QED BY <1>1, <1>2, <1>3, <1>4, <1>5 DEF Next

\* The invariant of all three parts, which the theorems below follow from.
THEOREM AccessCorrect == Spec => []AccessInv
<1>. QED BY AccessInit, AccessStep, PTL DEF Spec

\* Every variable of rules, tokens and captchas has its type, always.
THEOREM AccessTyped == Spec => []TypeOK
<1>1. Init => part \in {"policy", "token", "captcha"}
  BY DEF Init
<1>2. part \in {"policy", "token", "captcha"} /\ [Next]_vars
        => (part \in {"policy", "token", "captcha"})'
  BY DEF Next, vars
<1>3. AccessInv /\ part \in {"policy", "token", "captcha"} => TypeOK
  BY DEF AccessInv, PolicyInv, TokenInv, CaptchaInv, TypeOK
<1>. QED BY <1>1, <1>2, <1>3, AccessCorrect, PTL DEF Spec

\* GetCasbinByAuthorityId lists what the table held during the call, for any
\* number of updates and renames by others.  A listing is not covered when
\* another caller put older rules in place between its own load and its end, nor
\* when its own load failed: see ListedFresh.
THEOREM ListedFreshCorrect == Spec => []ListedFresh
<1>1. AccessInv => ListedFresh
  BY DEF AccessInv, PolicyInv
<1>. QED BY <1>1, AccessCorrect, PTL

\* CheckToken keeps a client logged in that comes often enough, for all clocks,
\* lifetimes and orders of the answers: see Survives.
THEOREM SurvivesCorrect == Spec => []Survives
<1>1. AccessInv => Survives
  <2>1. SUFFICES ASSUME TokenInv, NEW r \in Requests, request[r].at = "refused",
                        request[r].token.by = "GetTokenClaims"
                 PROVE  \/ request[r].parsed < request[r].token.iat
                        \/ request[r].parsed - request[r].seen >=
                             request[r].token.expire - Half(request[r].token.expire)
    BY DEF AccessInv, Survives
  <2>2. request[r] \in Sent /\ Answered(request[r])
    BY <2>1, RequestSent DEF TokenInv
  <2> DEFINE q == request[r]  t == q.token  half == Half(t.expire)
  <2>3. /\ q.seen <= t.refreshAt /\ t.exp = t.refreshAt + (t.expire - half)
        /\ q.parsed < t.iat \/ q.parsed >= t.exp
    BY <2>1, <2>2 DEF Answered, Fits
  <2>4. q.seen \in Nat /\ q.parsed \in Nat /\ t \in Token
    BY <2>2 DEF Sent
  <2>5. t.refreshAt \in Nat /\ t.expire \in Nat /\ t.exp \in Nat /\ half \in Nat
    BY <2>4, HalfIs DEF Token
  <2>6. q.parsed < t.iat \/ q.parsed - q.seen >= t.expire - half
    <3> HIDE DEF half, t, q
    <3>. QED BY <2>3, <2>4, <2>5
  <2>. QED BY <2>6
<1>. QED BY <1>1, AccessCorrect, PTL

\* A Verify that begins after a captcha was removed, or has expired, is refused.
\* Verifications that have begun before are not covered: those that overlap may
\* all be accepted, and any number when the removal fails.  See OneAttempt.
THEOREM OneAttemptCorrect == Spec => []OneAttempt
<1>1. AccessInv => OneAttempt
  BY DEF AccessInv, CaptchaInv, Attempt, OneAttempt
<1>. QED BY <1>1, AccessCorrect, PTL


-----------------------------------------------------------------------------
\* The table changes only where an update clears or adds, and by a rename.
LEMMA ReplaceStep ==
  ASSUME PolicyInv, PolicyNext
  PROVE  Replaces
<1>1. PolicyTypeOK /\ PolicyTypeOK'
  BY PolicyStep DEF PolicyInv
<1>2. ASSUME NEW c \in Callers, Clear(c) PROVE Replaces
  <2>1. /\ call[c].at = "clear" /\ Goes(c, "read2") /\ call[c].at # "idle" /\ c \in Running
        /\ table' = table \ Of(call[c].sub, table) /\ c \in Updaters
    BY <1>2 DEF Clear, Table, Running, PolicyInv, Place
  <2>2. call'[c].at = "read2" /\ \A d \in Callers \ {c} : call'[d] = call[d]
    BY <1>1, <2>1, GoesIs DEF CallStages
  <2>3. \A sub \in Authorities : sub # call[c].sub => Of(sub, table') = Of(sub, table)
    BY <2>1 DEF Of
  <2>4. call'[c] # call[c]
    BY <2>1, <2>2
  <2>. QED BY <2>1, <2>2, <2>3, <2>4 DEF Replaces, Callers
<1>3. ASSUME NEW c \in Callers, Add(c) PROVE Replaces
  <2>1. call[c].at = "add" /\ call[c].at # "idle" /\ c \in Running /\ c \in Updaters
    BY <1>3 DEF Add, Running, PolicyInv, Place
  <2>2. PICK at \in {"ok", "error"} :
          /\ Goes(c, at)
          /\ table' = IF at = "ok" THEN table \cup Wanted(c) ELSE table
    BY <1>3 DEF Add, Table
  <2>3. call'[c].at = at /\ \A d \in Callers \ {c} : call'[d] = call[d]
    BY <1>1, <2>1, <2>2, GoesIs DEF CallStages
  <2>4. \A sub \in Authorities : sub # call[c].sub => Of(sub, table') = Of(sub, table)
    BY <2>2 DEF Of, Wanted
  <2>5. c \notin excused => Of(call[c].sub, table) = {}
    BY <2>1 DEF PolicyInv, Cleared
  <2>6. c \notin excused => Of(call[c].sub, table') = IF at = "ok" THEN Wanted(c) ELSE {}
    BY <2>2, <2>5 DEF Of, Wanted
  <2>7. call'[c] # call[c]
    BY <2>1, <2>2, <2>3
  <2>. QED BY <2>1, <2>2, <2>3, <2>4, <2>6, <2>7 DEF Replaces, Callers
<1>4. ASSUME table' = table, \A c \in Updaters : call[c].at = "add" => call'[c] = call[c]
      PROVE  Replaces
  BY <1>4 DEF Replaces
<1>5. ASSUME NEW old \in Apis, NEW new \in Apis, Rename(old, new) PROVE Replaces
  BY <1>1, <1>5 DEF Rename, Replaces, PolicyTypeOK
<1>6. ASSUME NEW c \in Callers, NEW w, call' = [call EXCEPT ![c] = w], call[c].at # "add"
      PROVE  \A d \in Updaters : call[d].at = "add" => call'[d] = call[d]
  BY <1>1, <1>6 DEF PolicyTypeOK, Callers
<1>7. ASSUME NEW c \in Callers, LoadApplies(c) PROVE Replaces
  BY <1>4, <1>6, <1>7 DEF LoadApplies, Goes
<1>8. ASSUME NEW c \in Callers,
             \/ Make(c) \/ MakeFails(c) \/ Panic(c) \/ LoadReads(c) \/ LoadFails(c)
             \/ ClearFails(c)
      PROVE  Replaces
  BY <1>4, <1>6, <1>8 DEF Make, MakeFails, Panic, LoadReads, LoadFails, ClearFails, Goes
<1>9. ASSUME NEW c \in Callers, List(c) PROVE Replaces
  BY <1>4, <1>6, <1>9 DEF List
<1>10. ASSUME NEW sub \in Authorities, NEW c \in Updaters, NEW want \in Wants, Update(c, sub, want)
       PROVE  Replaces
  BY <1>4, <1>6, <1>10 DEF Update, Callers
<1>11. ASSUME NEW sub \in Authorities, NEW c \in Listers, AskList(c, sub) PROVE Replaces
  BY <1>4, <1>6, <1>11 DEF AskList, Callers
<1>. QED BY <1>2, <1>3, <1>5, <1>7, <1>8, <1>9, <1>10, <1>11 DEF PolicyNext

\* UpdateCasbin replaces the rules of its authority, for any number of loads and
\* listings, and of updates of other authorities, between its steps.  It is not
\* covered when another update of the same authority or a rename overlaps, or
\* when its removal fails; the second half, that nobody else changes the rules
\* of an authority, holds of every update: see Replaced.
THEOREM ReplacedCorrect == Spec => Replaced
<1>1. AccessInv /\ [Next]_vars => [Replaces]_policyVars
  BY ReplaceStep DEF AccessInv, Next, vars, policyVars
<1>. QED BY <1>1, AccessCorrect, PTL DEF Spec, Replaced

=============================================================================
