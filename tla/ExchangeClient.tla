---------------------------- MODULE ExchangeClient ----------------------------
(***************************************************************************)
(* Asking the exchange: the session and its keep-alive, calls that sign in *)
(* again when the session has lapsed, requests for books cut into batches  *)
(* and halved when they are too large, and settled markets asked again     *)
(* when an answer left them out.                                           *)
(* Source: apps/server/internal/betfair/session.go and client.go, with the *)
(* keep-alive goroutine of cmd/races-server.                               *)
(*                                                                         *)
(* Jobs hold a mutex, so one call is made at a time; the keep-alive runs   *)
(* beside it.  This is one life of the process.                            *)
(***************************************************************************)
EXTENDS Naturals, FiniteSets

CONSTANTS
  Token,
  NoToken,
  Market,
  Requests,          \* the sets of markets jobs ask for
  MaxMarketsPerBook

ASSUME ExchangeAssumption ==
  /\ NoToken \notin Token
  /\ \A s, k \in Token \cup {NoToken} : \E t \in Token : t \notin {s, k}
  /\ IsFiniteSet(Market) /\ Requests \subseteq SUBSET Market
  /\ MaxMarketsPerBook \in Nat \ {0}

VARIABLES
  session,   \* the token, whether it is due for a keep-alive, the latch
  call,      \* the call a job is in
  keepAlive, \* the request of the keep-alive goroutine
  honoured,  \* the tokens the exchange accepts
  open,      \* the markets not settled yet
  calm       \* the exchange does what it is asked from now on

vars == <<session, call, keepAlive, honoured, open, calm>>
worldVars == <<honoured, open, calm>>

Session == [token : Token \cup {NoToken}, old : BOOLEAN, permanent : BOOLEAN]
NoSession == [token |-> NoToken, old |-> FALSE, permanent |-> FALSE]

Kinds == {"markets", "prices", "startingPrices"}

\* todo are the batches still to be sent, batch the one that is, tries how often
\* it was, token the one sent with it.  settled are the markets of the call that were settled when it began,
\* seen those whose book has come, priced those whose starting prices have.
Call == [pc : {"idle", "next", "token", "login", "ask", "ok", "failed"},
         kind : Kinds, markets : SUBSET Market, settled : SUBSET Market,
         todo : SUBSET SUBSET Market, batch : SUBSET Market, tries : 1..2,
         token : Token \cup {NoToken}, recovering : BOOLEAN,
         seen : SUBSET Market, priced : SUBSET Market]
NoCall == [pc |-> "idle", kind |-> "markets", markets |-> {}, settled |-> {},
           todo |-> {}, batch |-> {}, tries |-> 1, token |-> NoToken,
           recovering |-> FALSE, seen |-> {}, priced |-> {}]

KeepAlive == [pc : {"idle", "sent", "extended", "refused"},
              token : Token \cup {NoToken}]
NoKeepAlive == [pc |-> "idle", token |-> NoToken]

TypeOK ==
  /\ session \in Session
  /\ call \in Call
  /\ keepAlive \in KeepAlive
  /\ honoured \in SUBSET Token
  /\ open \in SUBSET Market
  /\ calm \in BOOLEAN

Init ==
  /\ session = NoSession
  /\ call = NoCall
  /\ keepAlive = NoKeepAlive
  /\ honoured = {}
  /\ open = Market
  /\ calm = FALSE

-----------------------------------------------------------------------------
(* Batches.  Which ids share one does not matter, how many do. *)

\* The batches books sends: full ones, and at most one that is not.
Batched(markets) ==
  {parts \in SUBSET (SUBSET markets \ {{}}) :
     /\ UNION parts = markets
     /\ \A p, q \in parts : p # q => p \cap q = {}
     /\ \A p \in parts : Cardinality(p) <= MaxMarketsPerBook
     /\ \A p, q \in parts : p # q =>
          \/ Cardinality(p) = MaxMarketsPerBook
          \/ Cardinality(q) = MaxMarketsPerBook}

\* A catalogue is one request without ids.
Batches(kind, markets) == IF kind = "markets" THEN {{{}}} ELSE Batched(markets)

LeftHalves(batch) ==
  {left \in SUBSET batch : Cardinality(left) = Cardinality(batch) \div 2}

\* A slip: the right half starts one too late.
HalvesLosingOne(batch) ==
  {{left, batch \ (left \cup {m})} : left \in LeftHalves(batch), m \in batch}

\* A slip: the middle of a pair is its start.
HalvesOfPairs(batch) ==
  {{left, batch \ left} : left \in
     {l \in SUBSET batch : Cardinality(l) = (Cardinality(batch) - 1) \div 2}}

Halves(batch) == {{left, batch \ left} : left \in LeftHalves(batch)}

-----------------------------------------------------------------------------
(* The session *)

\* A slip: what a lapsed session left behind is kept.
StillValid(s) == s

Invalidate(s) == [s EXCEPT !.token = NoToken]

LoggedIn(token) == [token |-> token, old |-> FALSE, permanent |-> FALSE]

\* A slip: the latch is not looked at.
NeverLatched(s) == FALSE

Latched(s) == s.permanent

-----------------------------------------------------------------------------
(* A call *)

\* On to the next batch, with what is left to do.
Go(c, todo) == [c EXCEPT !.pc = "next", !.todo = todo, !.batch = {}, !.tries = 1,
                         !.token = NoToken]

Fail(c) == [NoCall EXCEPT !.pc = "failed", !.kind = c.kind]

StartCall(kind, markets) ==
  /\ call.pc = "idle"
  /\ \E todo \in Batches(kind, markets) :
       call' = [NoCall EXCEPT !.pc = "next", !.kind = kind, !.todo = todo,
                  !.markets = markets, !.settled = markets \ open]
  /\ UNCHANGED <<session, keepAlive, worldVars>>

NextBatch ==
  /\ call.pc = "next"
  /\ \E batch \in call.todo :
       call' = [call EXCEPT !.pc = "token", !.batch = batch]
  /\ UNCHANGED <<session, keepAlive, worldVars>>

\* The token is used as it is, or a login is sent after the lock is let go.
Authenticate ==
  /\ call.pc = "token"
  /\ call' = IF Latched(session) THEN Fail(call)
             ELSE IF session.token # NoToken
             THEN [call EXCEPT !.pc = "ask", !.token = session.token]
             ELSE [call EXCEPT !.pc = "login"]
  /\ UNCHANGED <<session, keepAlive, worldVars>>

\* A token nobody holds.  Those that nobody holds any more are forgotten, so that
\* their names can be used again.
NewToken == CHOOSE t \in Token : t \notin {session.token, keepAlive.token}

LoginSucceeds ==
  /\ call.pc = "login"
  /\ session' = LoggedIn(NewToken)
  /\ honoured' = (honoured \cap {keepAlive.token}) \cup {NewToken}
  /\ call' = [call EXCEPT !.pc = "ask", !.token = NewToken]
  /\ UNCHANGED <<keepAlive, open, calm>>

\* Refused for good, for now, unreadable, or not answered.
LoginFails(permanent) ==
  /\ call.pc = "login" /\ ~calm
  /\ session' = [session EXCEPT !.permanent = @ \/ permanent]
  /\ call' = Fail(call)
  /\ UNCHANGED <<keepAlive, worldVars>>

MayTryAgain(tries) == tries < 2

\* The session has lapsed.  Whatever token is held now is dropped.
SessionRefused ==
  /\ call.pc = "ask" /\ call.token \notin honoured
  /\ IF MayTryAgain(call.tries)
     THEN /\ session' = Invalidate(session)
          /\ call' = [call EXCEPT !.pc = "token", !.tries = @ + 1, !.token = NoToken]
     ELSE call' = Fail(call) /\ UNCHANGED session
  /\ UNCHANGED <<keepAlive, worldVars>>

TooMuchData ==
  /\ call.pc = "ask" /\ call.token \in honoured
  /\ IF Cardinality(call.batch) > 1
     THEN \E halves \in Halves(call.batch) :
            call' = Go(call, (call.todo \ {call.batch}) \cup halves)
     ELSE ~calm /\ call' = Fail(call)
  /\ UNCHANGED <<session, keepAlive, worldVars>>

\* Settled markets may be left out of an answer that has open ones.
Answers(batch) ==
  IF batch \cap open = {} THEN {batch}
  ELSE {books \in SUBSET batch : batch \cap open \subseteq books}

BooksCome ==
  /\ call.pc = "ask" /\ call.token \in honoured
  /\ \E books \in Answers(call.batch) :
       call' = [Go(call, call.todo \ {call.batch}) EXCEPT
                  !.seen = @ \cup books, !.priced = @ \cup (books \ open)]
  /\ UNCHANGED <<session, keepAlive, worldVars>>

\* Another fault, no answer, or one that does not decode.
RequestFails ==
  /\ call.pc = "ask" /\ ~calm
  /\ call' = Fail(call)
  /\ UNCHANGED <<session, keepAlive, worldVars>>

\* What no answer had a book for.
LeftOut(c) == IF Cardinality(c.markets) > 1 THEN c.markets \ c.seen ELSE {}

FinishBooks ==
  /\ call.pc = "next" /\ call.todo = {}
  /\ call' = IF call.kind = "startingPrices" /\ ~call.recovering
             THEN [call EXCEPT !.recovering = TRUE,
                               !.todo = {{m} : m \in LeftOut(call)}]
             ELSE [call EXCEPT !.pc = "ok"]
  /\ UNCHANGED <<session, keepAlive, worldVars>>

EndCall ==
  /\ call.pc \in {"ok", "failed"}
  /\ call' = NoCall
  /\ UNCHANGED <<session, keepAlive, worldVars>>

CallStep ==
  \/ NextBatch \/ Authenticate \/ LoginSucceeds
  \/ \E permanent \in BOOLEAN : LoginFails(permanent)
  \/ SessionRefused \/ TooMuchData \/ BooksCome \/ RequestFails
  \/ FinishBooks \/ EndCall

-----------------------------------------------------------------------------
(* The keep-alive.  Its answer is applied to whatever the session is then. *)

KeepAliveIfNeeded ==
  /\ keepAlive.pc = "idle"
  /\ session.token # NoToken /\ session.old
  /\ keepAlive' = [pc |-> "sent", token |-> session.token]
  /\ UNCHANGED <<session, call, worldVars>>

\* The exchange extends a token it honours, and may refuse it all the same.
KeepAliveAnswered ==
  /\ keepAlive.pc = "sent"
  /\ \/ keepAlive.token \in honoured /\ keepAlive' = [keepAlive EXCEPT !.pc = "extended"]
     \/ /\ keepAlive.token \notin honoured \/ ~calm
        /\ keepAlive' = [keepAlive EXCEPT !.pc = "refused"]
  /\ UNCHANGED <<session, call, worldVars>>

\* The answer names the token, or does not.
KeepAliveApplied ==
  /\ \/ /\ keepAlive.pc = "extended"
        /\ \E token \in {keepAlive.token, session.token} :
             session' = [session EXCEPT !.token = token, !.old = FALSE]
     \/ keepAlive.pc = "refused" /\ session' = Invalidate(session)
  /\ keepAlive' = NoKeepAlive
  /\ UNCHANGED <<call, worldVars>>

KeepAliveFails ==
  /\ keepAlive.pc # "idle"
  /\ keepAlive' = NoKeepAlive
  /\ UNCHANGED <<session, call, worldVars>>

KeepAliveStep ==
  KeepAliveIfNeeded \/ KeepAliveAnswered \/ KeepAliveApplied \/ KeepAliveFails

-----------------------------------------------------------------------------
(* The world *)

GrowOld ==
  /\ session.token # NoToken /\ ~session.old
  /\ session' = [session EXCEPT !.old = TRUE]
  /\ UNCHANGED <<call, keepAlive, worldVars>>

Lapse(token) ==
  /\ ~calm /\ token \in honoured
  /\ honoured' = honoured \ {token}
  /\ UNCHANGED <<session, call, keepAlive, open, calm>>

SettleMarket(m) ==
  /\ m \in open
  /\ open' = open \ {m}
  /\ UNCHANGED <<session, call, keepAlive, honoured, calm>>

CalmDown ==
  /\ ~calm
  /\ calm' = TRUE
  /\ UNCHANGED <<session, call, keepAlive, honoured, open>>

WorldStep ==
  \/ GrowOld \/ CalmDown
  \/ (\E token \in Token : Lapse(token)) \/ (\E m \in Market : SettleMarket(m))

Next ==
  \/ \E markets \in Requests, kind \in {"prices", "startingPrices"} :
       StartCall(kind, markets)
  \/ StartCall("markets", {})
  \/ CallStep \/ KeepAliveStep \/ WorldStep

Spec == Init /\ [][Next]_vars

\* Every request is answered or given up, and the caller goes on.
FairSpec == Spec /\ WF_vars(CallStep)

-----------------------------------------------------------------------------

\* A call that succeeds has every book it asked for: starting prices of all
\* markets that were settled when it began, and all markets open to the end,
\* however the request was cut, halved and answered, and whatever settled
\* meanwhile.  (client.go:111, "Betfair omits closed markets when a request
\* also contains open markets".)
NothingLost ==
  call.pc = "ok" =>
    /\ call.markets \cap open \subseteq call.seen
    /\ call.kind = "startingPrices" => call.settled \subseteq call.priced

\* Once a login was refused for good, none is sent again, whatever the
\* keep-alive brings back.  (session.go:108, "retrying it on every refresh would
\* look like a hang and could lock the account".)
LatchedForGood ==
  [][session.permanent =>
       session'.permanent /\ ~(call.pc # "login" /\ call'.pc = "login")]_vars

\* Halving and signing in again come to an end.
EveryCallReturns ==
  call.pc \in {"next", "token", "login", "ask"} ~> call.pc \in {"ok", "failed"}

\* When the exchange behaves, calls stop failing without anybody's help, unless
\* the account is latched, though late answers to the keep-alive bring dead
\* tokens back or drop new ones.
SessionHeals ==
  <>calm => <>[](call.pc = "failed" => session.permanent)
=============================================================================
