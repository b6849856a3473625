------------------------ MODULE ExchangeClient_proofs ------------------------
(***************************************************************************)
(* What a call to the exchange brings back, for any number of markets and  *)
(* tokens, any cut into batches and any answers.                           *)
(***************************************************************************)
EXTENDS ExchangeClient, FiniteSetTheorems, TLAPS

InFlight == call.pc \in {"next", "token", "login", "ask"}

ToAsk == UNION call.todo

\* The batch in hand is one of those to be sent, and all are of the call.
BatchesAreOurs ==
  /\ call.pc \in {"token", "login", "ask"} => call.batch \in call.todo
  /\ ToAsk \subseteq call.markets
  /\ call.settled \subseteq call.markets \ open

\* A book that has come of a settled market has its prices.
SeenIsPriced == call.settled \cap call.seen \subseteq call.priced

\* The first time round every market is still to be asked for, or has come, or
\* was left out: then it was settled, and not alone.
FirstRound ==
  InFlight /\ ~call.recovering =>
    \A m \in call.markets :
      \/ m \in ToAsk \cup call.seen
      \/ m \notin open /\ Cardinality(call.markets) > 1

\* After it, what was left out is asked for alone.
SecondRound ==
  InFlight /\ call.recovering =>
    /\ \A batch \in call.todo : \E m \in Market : batch = {m}
    /\ call.markets \subseteq ToAsk \cup call.seen

CallInv == BatchesAreOurs /\ SeenIsPriced /\ FirstRound /\ SecondRound /\ NothingLost

IInv == TypeOK /\ CallInv

-----------------------------------------------------------------------------

\* The idle session, call and keep-alive are typed.
LEMMA Blank ==
  NoSession \in Session /\ NoCall \in Call /\ NoKeepAlive \in KeepAlive
BY DEF NoSession, Session, NoCall, Call, Kinds, NoKeepAlive, KeepAlive

\* The token a login brings is one of the model's.
LEMMA NewTokenType ==
  ASSUME TypeOK PROVE NewToken \in Token
<1>1. session.token \in Token \cup {NoToken} /\ keepAlive.token \in Token \cup {NoToken}
  BY DEF TypeOK, Session, KeepAlive
<1>2. \E t \in Token : t \notin {session.token, keepAlive.token}
  BY <1>1, ExchangeAssumption
<1> QED
  BY <1>2 DEF NewToken

\* Batches are sets of the markets asked for, and together they are all of them.
LEMMA BatchesCover ==
  ASSUME NEW kind \in Kinds, NEW markets \in SUBSET Market,
         NEW todo \in Batches(kind, markets), kind = "markets" => markets = {}
  PROVE  todo \in SUBSET SUBSET Market /\ UNION todo = markets
<1>1. CASE kind = "markets"
  <2>1. todo = {{}} /\ markets = {}
    BY <1>1 DEF Batches
  <2>2. UNION {{}} = {}
    OBVIOUS
  <2> QED
    BY <2>1, <2>2
<1>2. CASE kind # "markets"
  BY <1>2 DEF Batches, Batched
<1> QED
  BY <1>1, <1>2

\* The halves of a batch make up the batch.
LEMMA HalvesCover ==
  ASSUME NEW batch \in SUBSET Market, NEW halves \in Halves(batch)
  PROVE  halves \in SUBSET SUBSET Market /\ UNION halves = batch
<1>1. PICK left \in SUBSET batch : halves = {left, batch \ left}
  BY DEF Halves, LeftHalves
<1>2. UNION {left, batch \ left} = left \cup (batch \ left)
  OBVIOUS
<1> QED
  BY <1>1, <1>2

\* A set that is not larger than one has one member at most.
LEMMA AtMostOne ==
  ASSUME NEW markets \in SUBSET Market, ~(Cardinality(markets) > 1),
         NEW m \in markets
  PROVE  markets = {m}
<1>1. IsFiniteSet(markets)
  BY ExchangeAssumption, FS_Subset
<1>2. Cardinality(markets) \in Nat
  BY <1>1, FS_CardinalityType
<1>3. Cardinality(markets) # 0
  BY <1>1, FS_EmptySet
<1>4. Cardinality(markets) = 1
  BY <1>2, <1>3
<1> QED
  BY <1>1, <1>4, FS_Singleton

\* Going on keeps what the call has.
LEMMA GoType ==
  ASSUME NEW c \in Call, NEW todo \in SUBSET SUBSET Market
  PROVE  /\ Go(c, todo) \in Call
         /\ Go(c, todo).pc = "next" /\ Go(c, todo).todo = todo
         /\ Go(c, todo).kind = c.kind /\ Go(c, todo).markets = c.markets
         /\ Go(c, todo).settled = c.settled /\ Go(c, todo).seen = c.seen
         /\ Go(c, todo).priced = c.priced /\ Go(c, todo).recovering = c.recovering
<1>1. {} \in SUBSET Market /\ 1 \in 1..2 /\ NoToken \in Token \cup {NoToken}
  OBVIOUS
<1>2. Go(c, todo) \in Call
  BY <1>1 DEF Go, Call
<1> QED
  BY <1>2 DEF Go, Call

\* A failed call has nothing left to do.
LEMMA FailType ==
  ASSUME NEW c \in Call
  PROVE  /\ Fail(c) \in Call /\ Fail(c).pc = "failed" /\ Fail(c).todo = {}
         /\ Fail(c).settled = {}
<1>1. Fail(c) \in Call
  BY Blank DEF Fail, Call
<1> QED
  BY <1>1 DEF Fail, NoCall

-----------------------------------------------------------------------------

\* The session, the keep-alive and the world keep their types.
LEMMA StepType ==
  ASSUME TypeOK, [Next]_vars
  PROVE  TypeOK'
<1> USE DEF TypeOK
<1>1. ASSUME NEW kind \in Kinds, NEW markets \in SUBSET Market,
             kind = "markets" => markets = {}, StartCall(kind, markets)
      PROVE  TypeOK'
  <2>1. PICK todo \in Batches(kind, markets) :
          call' = [NoCall EXCEPT !.pc = "next", !.kind = kind, !.todo = todo,
                     !.markets = markets, !.settled = markets \ open]
    BY <1>1 DEF StartCall
  <2>2. call' \in Call
    BY <1>1, <2>1, BatchesCover, Blank DEF Call
  <2> QED
    BY <1>1, <2>2 DEF StartCall, worldVars
<1>2. CASE NextBatch
  <2>1. PICK batch \in call.todo :
          call' = [call EXCEPT !.pc = "token", !.batch = batch]
    BY <1>2 DEF NextBatch
  <2>2. batch \in SUBSET Market
    BY DEF Call
  <2>3. call' \in Call
    BY <2>1, <2>2 DEF Call
  <2> QED
    BY <1>2, <2>3 DEF NextBatch, worldVars
<1>3. CASE Authenticate
  <2>1. call' \in Call
    BY <1>3, FailType DEF Authenticate, Call, Session
  <2> QED
    BY <1>3, <2>1 DEF Authenticate, worldVars
<1>4. CASE LoginSucceeds
  BY <1>4, NewTokenType DEF LoginSucceeds, LoggedIn, Session, Call
<1>5. ASSUME NEW permanent \in BOOLEAN, LoginFails(permanent) PROVE TypeOK'
  <2>1. session' \in Session
    BY <1>5 DEF LoginFails, Session
  <2> QED
    BY <1>5, <2>1, FailType DEF LoginFails, worldVars
<1>6. CASE SessionRefused
  <2>1. session' \in Session
    BY <1>6 DEF SessionRefused, Invalidate, Session
  <2>2. call' \in Call
    <3>1. CASE MayTryAgain(call.tries)
      <4>1. call.tries + 1 \in 1..2
        BY <3>1 DEF MayTryAgain, Call
      <4>2. call' = [call EXCEPT !.pc = "token", !.tries = @ + 1, !.token = NoToken]
        BY <1>6, <3>1 DEF SessionRefused
      <4> QED
        BY <4>1, <4>2 DEF Call
    <3>2. CASE ~MayTryAgain(call.tries)
      BY <1>6, <3>2, FailType DEF SessionRefused
    <3> QED
      BY <3>1, <3>2
  <2> QED
    BY <1>6, <2>1, <2>2 DEF SessionRefused, worldVars
<1>7. CASE TooMuchData
  <2>1. call.batch \in SUBSET Market /\ call.todo \in SUBSET SUBSET Market
    BY DEF Call
  <2>2. CASE Cardinality(call.batch) > 1
    <3>1. PICK halves \in Halves(call.batch) :
            call' = Go(call, (call.todo \ {call.batch}) \cup halves)
      BY <1>7, <2>2 DEF TooMuchData
    <3>2. (call.todo \ {call.batch}) \cup halves \in SUBSET SUBSET Market
      BY <2>1, HalvesCover
    <3> QED
      BY <1>7, <3>1, <3>2, GoType DEF TooMuchData, worldVars
  <2>3. CASE ~(Cardinality(call.batch) > 1)
    BY <1>7, <2>3, FailType DEF TooMuchData, worldVars
  <2> QED
    BY <2>2, <2>3
<1>8. CASE BooksCome
  <2>1. PICK books \in Answers(call.batch) :
          call' = [Go(call, call.todo \ {call.batch}) EXCEPT
                     !.seen = @ \cup books, !.priced = @ \cup (books \ open)]
    BY <1>8 DEF BooksCome
  <2>2. books \in SUBSET Market
    BY DEF Answers, Call
  <2> DEFINE next == Go(call, call.todo \ {call.batch})
  <2>3. next \in Call
    BY GoType DEF Call
  <2>4. call' \in Call
    <3> HIDE DEF next
    <3> QED
      BY <2>1, <2>2, <2>3 DEF Call, next
  <2> QED
    BY <1>8, <2>4 DEF BooksCome, worldVars
<1>9. CASE RequestFails
  BY <1>9, FailType DEF RequestFails, worldVars
<1>10. CASE FinishBooks
  <2>1. {{m} : m \in LeftOut(call)} \in SUBSET SUBSET Market
    BY DEF LeftOut, Call
  <2>2. call' \in Call
    BY <1>10, <2>1 DEF FinishBooks, Call
  <2> QED
    BY <1>10, <2>2 DEF FinishBooks, worldVars
<1>11. CASE EndCall
  BY <1>11, Blank DEF EndCall, worldVars
<1>12. CASE KeepAliveStep
  <2>1. CASE KeepAliveIfNeeded
    BY <2>1 DEF KeepAliveIfNeeded, KeepAlive, Session, worldVars
  <2>2. CASE KeepAliveAnswered
    BY <2>2 DEF KeepAliveAnswered, KeepAlive, worldVars
  <2>3. CASE KeepAliveApplied
    <3>1. session' \in Session
      BY <2>3 DEF KeepAliveApplied, KeepAlive, Session, Invalidate
    <3> QED
      BY <2>3, <3>1, Blank DEF KeepAliveApplied, worldVars
  <2>4. CASE KeepAliveFails
    BY <2>4, Blank DEF KeepAliveFails, worldVars
  <2> QED
    BY <1>12, <2>1, <2>2, <2>3, <2>4 DEF KeepAliveStep
<1>13. CASE WorldStep
  BY <1>13 DEF WorldStep, GrowOld, Lapse, SettleMarket, CalmDown, Session, worldVars
<1>14. CASE UNCHANGED vars
  BY <1>14 DEF vars
<1>15. ASSUME NEW markets \in Requests, NEW kind \in {"prices", "startingPrices"},
              StartCall(kind, markets)
       PROVE  TypeOK'
  BY <1>1, <1>15, ExchangeAssumption DEF Kinds
<1>16. CASE StartCall("markets", {})
  BY <1>1, <1>16 DEF Kinds
<1> QED
  BY <1>2, <1>3, <1>4, <1>5, <1>6, <1>7, <1>8, <1>9, <1>10, <1>11, <1>12,
     <1>13, <1>14, <1>15, <1>16 DEF Next, CallStep

-----------------------------------------------------------------------------

\* Markets that settle meanwhile take nothing away from a call: a market that is
\* settled later was not settled when the call began.
LEMMA KeptByTheWorld ==
  ASSUME TypeOK, CallInv, call' = call, open' \subseteq open
  PROVE  CallInv'
<1>1. BatchesAreOurs' /\ SeenIsPriced'
  BY DEF CallInv, BatchesAreOurs, SeenIsPriced, ToAsk
<1>2. FirstRound' /\ SecondRound'
  BY DEF CallInv, FirstRound, SecondRound, InFlight, ToAsk
<1>3. NothingLost'
  BY DEF CallInv, NothingLost
<1> QED
  BY <1>1, <1>2, <1>3 DEF CallInv

\* A call that failed or is over promises nothing.
LEMMA KeptWhenOver ==
  ASSUME call'.pc \in {"idle", "failed"}, call'.todo = {}, call'.settled = {}
  PROVE  CallInv'
<1>1. UNION {} = {}
  OBVIOUS
<1> QED
  BY <1>1 DEF CallInv, BatchesAreOurs, SeenIsPriced, FirstRound, SecondRound,
              InFlight, ToAsk, NothingLost

\* What remains to be asked is what counts, not how far the request has got.
LEMMA KeptOnTheWay ==
  ASSUME CallInv, InFlight,
         call'.pc \in {"token", "login", "ask"}, call'.batch \in call'.todo,
         call'.todo = call.todo, call'.markets = call.markets,
         call'.settled = call.settled, call'.recovering = call.recovering,
         call'.seen = call.seen, call'.priced = call.priced, open' = open
  PROVE  CallInv'
<1>1. BatchesAreOurs' /\ SeenIsPriced'
  BY DEF CallInv, BatchesAreOurs, SeenIsPriced, ToAsk
<1>2. FirstRound'
  BY DEF CallInv, FirstRound, InFlight, ToAsk
<1>3. SecondRound'
  BY DEF CallInv, SecondRound, InFlight, ToAsk
<1>4. NothingLost'
  BY DEF NothingLost
<1> QED
  BY <1>1, <1>2, <1>3, <1>4 DEF CallInv

\* A call begins with everything still to be asked for.
LEMMA CallBegins ==
  ASSUME TypeOK, NEW kind \in Kinds, NEW markets \in SUBSET Market,
         kind = "markets" => markets = {}, StartCall(kind, markets)
  PROVE  CallInv'
<1>1. PICK todo \in Batches(kind, markets) :
        call' = [NoCall EXCEPT !.pc = "next", !.kind = kind, !.todo = todo,
                   !.markets = markets, !.settled = markets \ open]
  BY DEF StartCall
<1>2. todo \in SUBSET SUBSET Market /\ UNION todo = markets /\ open' = open
  BY <1>1, BatchesCover DEF StartCall, worldVars
<1>3. /\ call'.pc = "next" /\ call'.todo = todo /\ call'.markets = markets
      /\ call'.settled = markets \ open /\ call'.recovering = FALSE
      /\ call'.seen = {}
  BY <1>1 DEF NoCall
<1> QED
  BY <1>2, <1>3 DEF CallInv, BatchesAreOurs, SeenIsPriced, FirstRound,
                    SecondRound, InFlight, ToAsk, NothingLost

\* The halves of a batch ask for what the batch asked for, and a market that is
\* asked for alone is not halved.
LEMMA CallSplits ==
  ASSUME TypeOK, CallInv, TooMuchData
  PROVE  CallInv'
<1> USE DEF TypeOK
<1>1. CASE ~(Cardinality(call.batch) > 1)
  BY <1>1, FailType, KeptWhenOver DEF TooMuchData
<1>2. CASE Cardinality(call.batch) > 1
  <2>1. PICK halves \in Halves(call.batch) :
          call' = Go(call, (call.todo \ {call.batch}) \cup halves)
    BY <1>2 DEF TooMuchData
  <2>2. /\ call.batch \in SUBSET Market /\ call.batch \in call.todo
        /\ call.todo \in SUBSET SUBSET Market
    BY DEF TooMuchData, CallInv, BatchesAreOurs, Call
  <2> DEFINE todo == (call.todo \ {call.batch}) \cup halves
  <2>3. todo \in SUBSET SUBSET Market /\ UNION todo = ToAsk
    BY <2>2, HalvesCover DEF ToAsk
  <2>4. /\ call'.pc = "next" /\ call'.todo = todo /\ call'.markets = call.markets
        /\ call'.settled = call.settled /\ call'.seen = call.seen
        /\ call'.priced = call.priced /\ call'.recovering = call.recovering
        /\ open' = open
    BY <2>1, <2>3, GoType DEF TooMuchData, worldVars
  <2>5. ToAsk' = ToAsk
    BY <2>3, <2>4 DEF ToAsk
  <2>6. ~call.recovering
    <3>1. InFlight /\ SecondRound
      BY DEF TooMuchData, InFlight, CallInv
    <3>2. call.recovering => \E m \in Market : call.batch = {m}
      BY <2>2, <3>1 DEF SecondRound
    <3>3. ASSUME NEW m \in Market PROVE ~(Cardinality({m}) > 1)
      <4>1. Cardinality({m}) = 1
        BY FS_Singleton
      <4> QED
        BY <4>1
    <3> QED
      BY <1>2, <3>2, <3>3
  <2>7. FirstRound'
    BY <2>4, <2>5, <2>6 DEF TooMuchData, CallInv, FirstRound, InFlight
  <2>8. BatchesAreOurs' /\ SeenIsPriced'
    BY <2>4, <2>5 DEF CallInv, BatchesAreOurs, SeenIsPriced
  <2> QED
    BY <2>4, <2>6, <2>7, <2>8 DEF CallInv, SecondRound, NothingLost
<1> QED
  BY <1>1, <1>2

\* Of the batch that was answered every book has come, but for settled markets
\* that had an open one beside them.
LEMMA CallIsAnswered ==
  ASSUME TypeOK, CallInv, BooksCome
  PROVE  CallInv'
<1> USE DEF TypeOK
<1> DEFINE batch == call.batch
           todo == call.todo \ {batch}
<1>1. PICK books \in Answers(batch) :
        call' = [Go(call, todo) EXCEPT
                   !.seen = @ \cup books, !.priced = @ \cup (books \ open)]
  BY DEF BooksCome
<1>2. /\ batch \in SUBSET Market /\ batch \in call.todo
      /\ todo \in SUBSET SUBSET Market
  BY DEF BooksCome, CallInv, BatchesAreOurs, Call
<1>3. /\ books \subseteq batch /\ batch \cap open \subseteq books
      /\ batch \cap open = {} => books = batch
  BY DEF Answers
<1>4. /\ call'.pc = "next" /\ call'.todo = todo /\ call'.markets = call.markets
      /\ call'.settled = call.settled /\ call'.recovering = call.recovering
      /\ call'.seen = call.seen \cup books
      /\ call'.priced = call.priced \cup (books \ open)
      /\ open' = open
  <2> DEFINE next == Go(call, todo)
  <2>1. /\ next \in Call /\ next.pc = "next" /\ next.todo = todo
        /\ next.markets = call.markets /\ next.settled = call.settled
        /\ next.seen = call.seen /\ next.priced = call.priced
        /\ next.recovering = call.recovering
    BY <1>2, GoType
  <2>2. call' = [next EXCEPT !.seen = @ \cup books, !.priced = @ \cup (books \ open)]
    BY <1>1
  <2>3. open' = open
    BY DEF BooksCome, worldVars
  <2> HIDE DEF next, todo
  <2> QED
    BY <2>1, <2>2, <2>3 DEF Call
<1>5. ToAsk = ToAsk' \cup batch
  BY <1>2, <1>4 DEF ToAsk
<1>6. batch \subseteq call.markets /\ call.markets \in SUBSET Market
  BY <1>5 DEF CallInv, BatchesAreOurs, Call
<1>7. (~call.recovering /\ FirstRound) \/ (call.recovering /\ SecondRound)
  BY DEF CallInv, Call
<1>8. InFlight
  BY DEF BooksCome, InFlight
<1>9. \A b \in call.todo : b \in todo \/ b = batch
  OBVIOUS
<1> HIDE DEF batch, todo
<1>10. BatchesAreOurs' /\ SeenIsPriced'
  BY <1>4, <1>5 DEF CallInv, BatchesAreOurs, SeenIsPriced
<1>11. CASE ~call.recovering
  <2>1. ASSUME NEW m \in call.markets
        PROVE  \/ m \in ToAsk' \cup call'.seen
               \/ m \notin open /\ Cardinality(call.markets) > 1
    <3>1. CASE m \in batch /\ m \notin books
      <4>1. m \notin open /\ \E o \in batch : o \in open
        BY <1>3, <3>1
      <4>2. PICK o \in batch : o # m
        BY <4>1
      <4>3. Cardinality(call.markets) > 1
        <5> SUFFICES ASSUME ~(Cardinality(call.markets) > 1) PROVE FALSE
          OBVIOUS
        <5>1. call.markets = {m}
          BY <1>6, <2>1, AtMostOne
        <5> QED
          BY <1>6, <4>2, <5>1
      <4> QED
        BY <4>1, <4>3
    <3>2. CASE ~(m \in batch /\ m \notin books)
      BY <1>4, <1>5, <1>7, <1>8, <1>11, <3>2 DEF FirstRound
    <3> QED
      BY <3>1, <3>2
  <2>2. FirstRound'
    BY <1>4, <2>1 DEF FirstRound
  <2> QED
    BY <1>4, <1>10, <1>11, <2>2 DEF CallInv, SecondRound, NothingLost
<1>12. CASE call.recovering
  <2>1. \A b \in call.todo : \E m \in Market : b = {m}
    BY <1>7, <1>8, <1>12 DEF SecondRound
  <2>2. books = batch
    <3>1. PICK m \in Market : batch = {m}
      BY <1>2, <2>1
    <3> QED
      BY <1>3, <3>1
  <2>3. call.markets \subseteq ToAsk' \cup call'.seen
    BY <1>4, <1>5, <1>7, <1>8, <1>12, <2>2 DEF SecondRound
  <2>4. \A b \in call'.todo : \E m \in Market : b = {m}
    BY <1>4, <2>1 DEF todo
  <2>5. SecondRound'
    BY <1>4, <2>3, <2>4 DEF SecondRound
  <2> QED
    BY <1>4, <1>10, <1>12, <2>5 DEF CallInv, FirstRound, NothingLost
<1> QED
  BY <1>7, <1>11, <1>12

\* When nothing is left to be asked, the call has everything, or asks for what
\* was left out.
LEMMA CallFinishes ==
  ASSUME TypeOK, CallInv, FinishBooks
  PROVE  CallInv'
<1> USE DEF TypeOK
<1>1. call.pc = "next" /\ call.todo = {} /\ open' = open /\ call \in Call
  BY DEF FinishBooks, worldVars
<1>2. ToAsk = {} /\ InFlight
  BY <1>1 DEF ToAsk, InFlight
<1>3. CASE call.kind = "startingPrices" /\ ~call.recovering
  <2> DEFINE todo == {{m} : m \in LeftOut(call)}
  <2>1. call' = [call EXCEPT !.recovering = TRUE, !.todo = todo]
    BY <1>3 DEF FinishBooks
  <2>2. /\ \A m \in LeftOut(call) : {m} \in todo
        /\ \A b \in todo : \E m \in LeftOut(call) : b = {m}
    OBVIOUS
  <2>3. LeftOut(call) \subseteq call.markets /\ call.markets \subseteq Market
    BY <1>1 DEF LeftOut, Call
  <2>4. call.markets \subseteq LeftOut(call) \cup call.seen
    BY <1>2, <1>3 DEF CallInv, FirstRound, LeftOut
  <2>0. todo \in SUBSET SUBSET Market
    BY <2>3
  <2> HIDE DEF todo
  <2>5. /\ call'.pc = "next" /\ call'.todo = todo /\ call'.markets = call.markets
        /\ call'.settled = call.settled /\ call'.seen = call.seen
        /\ call'.priced = call.priced /\ call'.recovering
    BY <1>1, <2>1, <2>0 DEF Call
  <2>6. ToAsk' = LeftOut(call)
    <3>1. LeftOut(call) \subseteq UNION todo
      <4> SUFFICES ASSUME NEW m \in LeftOut(call) PROVE \E b \in todo : m \in b
        OBVIOUS
      <4>1. {m} \in todo /\ m \in {m}
        BY <2>2
      <4> QED
        BY <4>1
    <3>2. UNION todo \subseteq LeftOut(call)
      <4> SUFFICES ASSUME NEW b \in todo, NEW m \in b PROVE m \in LeftOut(call)
        OBVIOUS
      <4>1. PICK l \in LeftOut(call) : b = {l}
        BY <2>2
      <4> QED
        BY <4>1
    <3> QED
      BY <2>5, <3>1, <3>2 DEF ToAsk
  <2>7. BatchesAreOurs' /\ SeenIsPriced'
    BY <1>1, <2>3, <2>5, <2>6 DEF CallInv, BatchesAreOurs, SeenIsPriced
  <2>8. SecondRound'
    BY <2>2, <2>3, <2>4, <2>5, <2>6 DEF SecondRound
  <2> QED
    BY <2>5, <2>7, <2>8 DEF CallInv, FirstRound, NothingLost
<1>4. CASE ~(call.kind = "startingPrices" /\ ~call.recovering)
  <2>1. call' = [call EXCEPT !.pc = "ok"]
    BY <1>4 DEF FinishBooks
  <2>2. /\ call'.pc = "ok" /\ call'.todo = call.todo /\ call'.kind = call.kind
        /\ call'.markets = call.markets /\ call'.settled = call.settled
        /\ call'.seen = call.seen /\ call'.priced = call.priced
    BY <1>1, <2>1 DEF Call
  <2>3. BatchesAreOurs' /\ SeenIsPriced'
    BY <1>1, <2>2 DEF CallInv, BatchesAreOurs, SeenIsPriced, ToAsk
  <2>4. call.markets \cap open \subseteq call.seen
    BY <1>2 DEF CallInv, FirstRound, SecondRound
  <2>5. call.kind = "startingPrices" => call.settled \subseteq call.priced
    BY <1>2, <1>4 DEF CallInv, SecondRound, SeenIsPriced, BatchesAreOurs
  <2>6. NothingLost'
    BY <1>1, <2>2, <2>4, <2>5 DEF NothingLost
  <2> QED
    BY <2>2, <2>3, <2>6 DEF CallInv, FirstRound, SecondRound, InFlight
<1> QED
  BY <1>3, <1>4

-----------------------------------------------------------------------------

\* Every step keeps what a call may rely on.
LEMMA StepCallInv ==
  ASSUME TypeOK, CallInv, [Next]_vars
  PROVE  CallInv'
<1>1. CASE KeepAliveStep \/ WorldStep \/ UNCHANGED vars
  <2>1. call' = call /\ open' \subseteq open
    BY <1>1 DEF KeepAliveStep, KeepAliveIfNeeded, KeepAliveAnswered,
       KeepAliveApplied, KeepAliveFails, WorldStep, GrowOld, Lapse,
       SettleMarket, CalmDown, worldVars, vars
  <2> QED
    BY <2>1, KeptByTheWorld
<1>2. ASSUME NEW markets \in Requests, NEW kind \in {"prices", "startingPrices"},
             StartCall(kind, markets)
      PROVE  CallInv'
  BY <1>2, CallBegins, ExchangeAssumption DEF Kinds
<1>3. CASE StartCall("markets", {})
  BY <1>3, CallBegins DEF Kinds
<1>4. call \in Call
  BY DEF TypeOK
<1>5. ASSUME call' = Fail(call) PROVE CallInv'
  BY <1>4, <1>5, FailType, KeptWhenOver
<1>6. CASE NextBatch
  <2>1. PICK batch \in call.todo :
          call' = [call EXCEPT !.pc = "token", !.batch = batch]
    BY <1>6 DEF NextBatch
  <2>2. /\ call'.pc = "token" /\ call'.batch = batch /\ call'.todo = call.todo
        /\ call'.markets = call.markets /\ call'.settled = call.settled
        /\ call'.recovering = call.recovering /\ call'.seen = call.seen
        /\ call'.priced = call.priced
    BY <1>4, <2>1 DEF Call
  <2>3. InFlight /\ open' = open
    BY <1>6 DEF NextBatch, InFlight, worldVars
  <2> QED
    BY <2>2, <2>3, KeptOnTheWay
<1> DEFINE OnTheWay ==
      /\ call'.pc \in {"token", "login", "ask"} /\ call'.batch = call.batch
      /\ call'.todo = call.todo /\ call'.markets = call.markets
      /\ call'.settled = call.settled /\ call'.recovering = call.recovering
      /\ call'.seen = call.seen /\ call'.priced = call.priced
<1>7. ASSUME call.pc \in {"token", "login", "ask"}, open' = open, OnTheWay
      PROVE  CallInv'
  <2>1. InFlight /\ call.batch \in call.todo
    BY <1>7 DEF InFlight, CallInv, BatchesAreOurs
  <2> QED
    BY <1>7, <2>1, KeptOnTheWay
<1>8. CASE Authenticate
  <2>1. open' = open /\ call.pc = "token"
    BY <1>8 DEF Authenticate, worldVars
  <2>2. CASE call' = Fail(call)
    BY <1>5, <2>2
  <2>3. CASE call' = [call EXCEPT !.pc = "ask", !.token = session.token]
    <3>1. OnTheWay
      BY <1>4, <2>3 DEF Call
    <3> QED
      BY <1>7, <2>1, <3>1
  <2>4. CASE call' = [call EXCEPT !.pc = "login"]
    <3>1. OnTheWay
      BY <1>4, <2>4 DEF Call
    <3> QED
      BY <1>7, <2>1, <3>1
  <2> QED
    BY <1>8, <2>2, <2>3, <2>4 DEF Authenticate
<1>9. CASE LoginSucceeds
  <2>1. open' = open /\ call.pc = "login"
    BY <1>9 DEF LoginSucceeds
  <2>2. OnTheWay
    BY <1>4, <1>9 DEF LoginSucceeds, Call
  <2> QED
    BY <1>7, <2>1, <2>2
<1>10. CASE SessionRefused
  <2>1. open' = open /\ call.pc = "ask"
    BY <1>10 DEF SessionRefused, worldVars
  <2>2. CASE call' = Fail(call)
    BY <1>5, <2>2
  <2>3. CASE call' = [call EXCEPT !.pc = "token", !.tries = @ + 1, !.token = NoToken]
    <3>1. OnTheWay
      BY <1>4, <2>3 DEF Call
    <3> QED
      BY <1>7, <2>1, <3>1
  <2> QED
    BY <1>10, <2>2, <2>3 DEF SessionRefused
<1>11. CASE RequestFails \/ \E permanent \in BOOLEAN : LoginFails(permanent)
  BY <1>5, <1>11 DEF RequestFails, LoginFails
<1>12. CASE EndCall
  BY <1>12, KeptWhenOver DEF EndCall, NoCall
<1> QED
  BY <1>1, <1>2, <1>3, <1>6, <1>8, <1>9, <1>10, <1>11, <1>12, CallSplits,
     CallIsAnswered, CallFinishes DEF Next, CallStep

\* Nothing has been asked for when the process starts.
LEMMA InitInv == Init => IInv
<1> SUFFICES ASSUME Init PROVE IInv
  OBVIOUS
<1>1. TypeOK
  BY Blank DEF Init, TypeOK
<1>2. CallInv
  <2>1. UNION {} = {}
    OBVIOUS
  <2> QED
    BY <2>1 DEF Init, NoCall, CallInv, BatchesAreOurs, SeenIsPriced, FirstRound,
                SecondRound, InFlight, ToAsk, NothingLost
<1> QED
  BY <1>1, <1>2 DEF IInv

\* The invariant holds however requests are cut and answered.
THEOREM CallsInductive == Spec => []IInv
<1>1. IInv /\ [Next]_vars => IInv'
  BY StepType, StepCallInv DEF IInv
<1> QED
  BY InitInv, <1>1, PTL DEF Spec

\* The session, the call and the keep-alive keep their types.
THEOREM ExchangeTyped == Spec => []TypeOK
<1>1. IInv => TypeOK
  BY DEF IInv
<1> QED
  BY CallsInductive, <1>1, PTL

\* A call that succeeds has every book it asked for, for any number of markets,
\* any cap, any halving and any omissions the exchange is known for.
THEOREM CallsLoseNothing == Spec => []NothingLost
<1>1. IInv => NothingLost
  BY DEF IInv, CallInv
<1> QED
  BY CallsInductive, <1>1, PTL

\* A login is sent by a session that is not latched, and nothing else latches it.
LoginIsUnlatched == call.pc = "login" => ~session.permanent

\* No step sends a login for a latched session.
LEMMA StepUnlatched ==
  ASSUME TypeOK, LoginIsUnlatched, [Next]_vars
  PROVE  LoginIsUnlatched'
<1> USE DEF TypeOK, LoginIsUnlatched
<1>1. CASE call' = call /\ session'.permanent = session.permanent
  BY <1>1
<1>2. CASE call'.pc # "login"
  BY <1>2
<1>3. CASE Authenticate
  BY <1>3, FailType DEF Authenticate, Latched
<1>4. CASE KeepAliveStep
  BY <1>1, <1>4 DEF KeepAliveStep, KeepAliveIfNeeded, KeepAliveAnswered,
     KeepAliveApplied, KeepAliveFails, Session, Invalidate
<1>5. CASE WorldStep
  BY <1>1, <1>5 DEF WorldStep, GrowOld, Lapse, SettleMarket, CalmDown, Session
<1>6. CASE UNCHANGED vars
  BY <1>1, <1>6 DEF vars
<1>7. CASE \/ \E markets \in Requests, kind \in {"prices", "startingPrices"} :
                StartCall(kind, markets)
           \/ StartCall("markets", {})
  <2>1. PICK markets, kind : StartCall(kind, markets)
    BY <1>7
  <2>2. call'.pc = "next"
    BY <2>1 DEF StartCall, NoCall
  <2> QED
    BY <1>2, <2>2
<1>0. call \in Call
  OBVIOUS
<1>8. CASE NextBatch \/ LoginSucceeds \/ EndCall
  <2>1. call'.pc \in {"token", "ask", "idle"}
    <3>1. CASE NextBatch
      BY <1>0, <3>1 DEF NextBatch, Call
    <3>2. CASE LoginSucceeds
      BY <1>0, <3>2 DEF LoginSucceeds, Call
    <3>3. CASE EndCall
      BY <3>3 DEF EndCall, NoCall
    <3> QED
      BY <1>8, <3>1, <3>2, <3>3
  <2> QED
    BY <1>2, <2>1
<1>9. CASE \/ \E permanent \in BOOLEAN : LoginFails(permanent)
           \/ SessionRefused \/ RequestFails
  <2>1. \/ call' = Fail(call)
        \/ call' = [call EXCEPT !.pc = "token", !.tries = @ + 1, !.token = NoToken]
    BY <1>9 DEF LoginFails, SessionRefused, RequestFails
  <2>2. call'.pc \in {"failed", "token"}
    BY <1>0, <2>1, FailType DEF Call
  <2> QED
    BY <1>2, <2>2
<1>10. CASE TooMuchData \/ BooksCome
  <2>1. call'.pc \in {"failed", "next"}
    BY <1>0, <1>10, FailType DEF TooMuchData, BooksCome, Go, Call
  <2> QED
    BY <1>2, <2>1
<1>11. CASE FinishBooks
  <2>1. call'.pc \in {"next", "ok"}
    BY <1>0, <1>11 DEF FinishBooks, Call
  <2> QED
    BY <1>2, <2>1
<1> QED
  BY <1>3, <1>4, <1>5, <1>6, <1>7, <1>8, <1>9, <1>10, <1>11 DEF Next, CallStep

\* A latched session sends no login and stays latched.
THEOREM NoLoginOnceLatched == Spec => LatchedForGood
<1>1. Init => LoginIsUnlatched
  BY DEF Init, NoCall, LoginIsUnlatched
<1>2. TypeOK /\ LoginIsUnlatched /\ [Next]_vars => LoginIsUnlatched'
  BY StepUnlatched
<1>3. TypeOK /\ LoginIsUnlatched /\ LoginIsUnlatched' /\ [Next]_vars =>
        [session.permanent =>
           session'.permanent /\ ~(call.pc # "login" /\ call'.pc = "login")]_vars
  <2> SUFFICES ASSUME TypeOK, LoginIsUnlatched, LoginIsUnlatched', [Next]_vars,
                      session.permanent
               PROVE  session'.permanent
    BY DEF LoginIsUnlatched
  <2>1. CASE session' = session
    BY <2>1
  <2>2. CASE KeepAliveApplied \/ SessionRefused \/ GrowOld
    BY <2>2 DEF KeepAliveApplied, SessionRefused, GrowOld, Invalidate, TypeOK, Session
  <2>3. CASE LoginSucceeds \/ \E permanent \in BOOLEAN : LoginFails(permanent)
    BY <2>3 DEF LoginSucceeds, LoginFails, LoginIsUnlatched
  <2> QED
    BY <2>1, <2>2, <2>3 DEF Next, CallStep, StartCall, NextBatch, Authenticate,
       TooMuchData, BooksCome, RequestFails, FinishBooks, EndCall, KeepAliveStep,
       KeepAliveIfNeeded, KeepAliveAnswered, KeepAliveFails, WorldStep, Lapse,
       SettleMarket, CalmDown, vars
<1> QED
  BY ExchangeTyped, <1>1, <1>2, <1>3, PTL DEF Spec, LatchedForGood
=============================================================================
