------------------------------- MODULE Token -------------------------------
(***************************************************************************)
(* Tokens: package jwtx.  GetTokenClaims makes a token that is valid for   *)
(* some seconds; CheckToken accepts it until then, and gives a new one for *)
(* it in the second half of its life; GetClaimsFromToken and its like, and *)
(* ParseTokenFromRequest, accept it and give none.  Nothing is kept on the *)
(* servers, and each has a clock of its own, which CheckToken reads three  *)
(* times.                                                                  *)
(*                                                                         *)
(* A client sends its token, and takes the new one when there is one.  Its *)
(* requests may overlap, so that the answers come in any order.            *)
(***************************************************************************)
EXTENDS Integers

CONSTANTS Servers, Requests,
          Seconds,      \* lifetimes that a login may ask for
          Ahead,        \* how much the clock of every server is ahead
          MaxTime       \* bound on the time

ASSUME TokenAssumption ==
  Seconds \subseteq Nat /\ Ahead \in [Servers -> Nat] /\ MaxTime \in Nat

VARIABLES
  time,
  token,    \* what the client holds
  request,  \* of every request: where it is, its server, the function that
            \* it is handled by, its token, the clock that it was parsed at,
            \* and the new token
  seen      \* history: when the token that the client holds was made, or last
            \* accepted by CheckToken as far as the client has heard

tokenVars == <<time, token, request, seen>>

Half(n) == n \div 2
Clock(s) == time + Ahead[s]

NoToken == [by |-> "nobody", iat |-> 0, exp |-> 0, refreshAt |-> 0, expire |-> 0]

\* The functions that look at a token; GetUserIdFromToken, GetRoleIdFromToken
\* and GetDeptIdFromToken do it like GetClaimsFromToken.
Ways == {"CheckToken", "GetClaimsFromToken", "ParseTokenFromRequest"}

\* GetTokenClaims and GetToken write the same times.
NewToken(by, iat, seconds) ==
  [by |-> by, iat |-> iat, exp |-> iat + seconds, refreshAt |-> iat + Half(seconds),
   expire |-> seconds]

TokenStages == {"idle", "parse", "decide", "sign", "accepted", "refused", "panic"}
Token == [by : {"nobody", "GetTokenClaims", "GetToken"}, iat : Nat, exp : Nat,
          refreshAt : Nat, expire : Nat]

TokenTypeOK ==
  /\ time \in 0..MaxTime
  /\ token \in Token /\ seen \in Nat
  /\ request \in [Requests -> [at : {"idle"}] \cup
       [at : TokenStages \ {"idle"}, on : Servers, by : Ways, token : Token, seen : Nat,
        parsed : Nat, new : Token]]

TokenInit ==
  /\ time = 0
  /\ token = NoToken /\ seen = 0
  /\ request = [r \in Requests |-> [at |-> "idle"]]

Tick ==
  /\ time < MaxTime /\ time' = time + 1
  /\ UNCHANGED << token, request, seen>>

Login(s, by, seconds) ==
  /\ token = NoToken
  /\ token' = NewToken(by, Clock(s), seconds) /\ seen' = Clock(s)
  /\ UNCHANGED <<time, request>>

Send(r, s, way) ==
  /\ request[r].at = "idle"
  /\ request' = [request EXCEPT ![r] = [at |-> "parse", on |-> s, by |-> way, token |-> token,
                   seen |-> seen, parsed |-> 0, new |-> NoToken]]
  /\ UNCHANGED <<time, token, seen>>

\* ParseToken: a string that is no token has no claims to look at, and a user
\* who is a number does not fit the claims that are read.
Parsed(t, now) ==
  CASE t = NoToken -> "panic"
    [] t # NoToken /\ (t.by = "GetToken" \/ now < t.iat \/ now >= t.exp) -> "refused"
    [] OTHER -> "decide"

\* What becomes of it: CheckToken goes on, the others return the claims.  A
\* request without a token is an error of ParseTokenFromRequest.
Taken(way, t, now) ==
  CASE way = "ParseTokenFromRequest" /\ t = NoToken -> "refused"
    [] way # "CheckToken" /\ Parsed(t, now) = "decide" -> "accepted"
    [] OTHER -> Parsed(t, now)

Parse(r) ==
  LET q == request[r] now == Clock(q.on) IN
  /\ q.at = "parse"
  /\ request' = [request EXCEPT ![r].at = Taken(q.by, q.token, now), ![r].parsed = now]
  /\ UNCHANGED <<time, token, seen>>

\* Mutant of Renewed: the old end is kept.
Renewed_Late(t, now) == [t EXCEPT !.refreshAt = now + Half(t.expire)]

\* The claims of the new token, but for the time it is made.
Renewed(t, now) == [t EXCEPT !.exp = now + t.expire, !.refreshAt = now + Half(t.expire)]

\* The clock is read again: the token goes on, or gets new times.
Decide(r) ==
  LET q == request[r] now == Clock(q.on) IN
  /\ q.at = "decide"
  /\ request' = IF q.token.refreshAt < now
                THEN [request EXCEPT ![r].at = "sign", ![r].new = Renewed(q.token, now)]
                ELSE [request EXCEPT ![r].at = "accepted"]
  /\ UNCHANGED <<time, token, seen>>

\* And once more, for the time that the new token is made.
Sign(r) ==
  LET q == request[r] IN
  /\ q.at = "sign"
  /\ request' = [request EXCEPT ![r].at = "accepted", ![r].new.iat = Clock(q.on)]
  /\ UNCHANGED <<time, token, seen>>

\* The client gets the answer.  An acceptance by CheckToken counts for the
\* token it is of.
Receive(r) ==
  LET q == request[r] IN
  /\ q.at \in {"accepted", "refused", "panic"}
  /\ request' = [request EXCEPT ![r] = [at |-> "idle"]]
  /\ IF q.at = "accepted" /\ q.new # NoToken
       THEN token' = q.new /\ seen' = q.parsed
       ELSE /\ UNCHANGED token
            /\ seen' = IF q.at = "accepted" /\ q.by = "CheckToken"
                          /\ q.token = token /\ q.parsed > seen
                       THEN q.parsed ELSE seen
  /\ UNCHANGED time

TokenNext ==
  \/ Tick
  \/ \E s \in Servers, by \in {"GetTokenClaims", "GetToken"}, n \in Seconds : Login(s, by, n)
  \/ \E r \in Requests :
       \/ \E s \in Servers, way \in Ways : Send(r, s, way)
       \/ Parse(r) \/ Decide(r) \/ Sign(r) \/ Receive(r)

-----------------------------------------------------------------------------
(* Properties *)

\* A client that keeps coming stays logged in: its token is refused only by a
\* clock that has run half a lifetime (rounded up) since the last acceptance
\* by CheckToken it has heard of, or that is behind the one that made the token.  Holds
\* whatever the clocks, overlapping requests, late and reordered answers.
\* Tokens of GetToken are never accepted.
Survives ==
  \A r \in Requests : LET q == request[r] t == q.token IN
    q.at = "refused" /\ t.by = "GetTokenClaims" =>
      \/ q.parsed < t.iat
      \/ q.parsed - q.seen >= t.expire - Half(t.expire)

=============================================================================
