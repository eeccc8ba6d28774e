--------------------------- MODULE ScriptsProofs ---------------------------
(***************************************************************************)
(* Theorems of the scripts, one part each.                                  *)
(*                                                                         *)
(* The login and the dataset (DailyUpdate), for any number of runs, days,   *)
(* connections, instruments and chunks.  LoginInv is about the wait for the   *)
(* browser: the pair a login works with was delivered to its server as a    *)
(* success.  DataInv is about the files.  Its heart is what one run may rely *)
(* on although others write the same names: AloneInv, what a run that writes *)
(* alone finds in the files; Apart, that of two that write neither is alone; *)
(* BackupInv, that the dataset is the one backed up until another run       *)
(* replaces it; TokenInv, that what a run is about to write is what         *)
(* validate_bars let through, of its own token (FetchedIsUsable: nothing    *)
(* else passes, however the history is cut into requests and whatever the   *)
(* broker answers to one of them).                                          *)
(*                                                                         *)
(* The daily review (AgentReview), for any watchlist and any limits.        *)
(* ConversationInv: a conversation is answered but for the calls that wait, *)
(* in their order; TradeInv: what it knows of the trades it made.           *)
(*                                                                         *)
(* The research tools (ResearchDesk).  IndicatorInv: the rolling windows    *)
(* hold the last values of the bars they are caught up with, and their sums *)
(* (StateOf); FoldExists is why a fold over those bars is what it should    *)
(* be.  EvaluationInv: which windows of which candidate have been run, and  *)
(* what was selected.  CollectInv, of the collectors: a run writes a record *)
(* only after its document is archived, and one that writes alone finds the *)
(* list it read.                                                            *)
(***************************************************************************)
EXTENDS DailyUpdate, AgentReview, ResearchDesk,
        SequenceTheorems, FiniteSetTheorems, WellFoundedInduction, TLAPS

-----------------------------------------------------------------------------
(* Data *)

\* A non-empty set of naturals has a least element.
LEMMA LeastNat ==
  ASSUME NEW T, T \subseteq Nat, T # {}
  PROVE  \E x \in T : \A y \in T : x <= y
<1>1. \E x \in T : \A y \in T : ~(<<y, x>> \in OpToRel(<, Nat))
  BY NatLessThanWellFounded, WFMin
<1>2. \A x, y \in Nat : <<y, x>> \in OpToRel(<, Nat) <=> y < x
  BY DEF OpToRel
<1>3. PICK x \in T : \A y \in T : ~(<<y, x>> \in OpToRel(<, Nat))
  BY <1>1
<1>4. ASSUME NEW y \in T PROVE x <= y
  <2>1. x \in Nat /\ y \in Nat
    OBVIOUS
  <2>2. ~(y < x)
    BY <1>2, <1>3, <2>1
  <2>. QED
    BY <2>1, <2>2
<1>. QED
  BY <1>4

\* A multiple within a quotient is within what was divided.
LEMMA MultipleFits ==
  ASSUME NEW a \in Nat, NEW b \in Nat \ {0}, NEW k \in 0..a \div b
  PROVE  k * b <= a
<1>1. PICK m \in Nat : m = a \div b /\ m * b <= a /\ k \in 0..m
  OBVIOUS
<1>2. (m - k) * b \in Nat /\ m * b = k * b + (m - k) * b /\ k * b \in Nat /\ m * b \in Nat
  BY <1>1
<1>. QED
  BY <1>1, <1>2

\* FlattenSeq's function satisfies its recursive equation, up to any length.
LEMMA FlattenExists ==
  ASSUME NEW seqs, NEW n \in Nat \ {0}
  PROVE  \E f : f = [i \in 1..n |-> IF i = 1 THEN seqs[i] ELSE f[i - 1] \o seqs[i]]
<1> DEFINE Has(m) == \E f : f = [i \in 1..m |-> IF i = 1 THEN seqs[i] ELSE f[i - 1] \o seqs[i]]
           T == {m \in Nat \ {0} : ~Has(m)}
<1> SUFFICES ASSUME T # {} PROVE FALSE
  OBVIOUS
<1>1. PICK m \in T : \A k \in T : m <= k
  BY LeastNat
<1>2. CASE m = 1
  <2>1. [i \in 1..1 |-> seqs[i]] =
          [i \in 1..1 |-> IF i = 1 THEN seqs[i]
                          ELSE [j \in 1..1 |-> seqs[j]][i - 1] \o seqs[i]]
    OBVIOUS
  <2>. QED
    BY <1>2, <2>1
<1>3. CASE m # 1
  <2>1. m - 1 \in Nat \ {0} /\ Has(m - 1)
    <3> HIDE DEF Has
    <3>1. m - 1 \in Nat \ {0} /\ ~(m <= m - 1)
      BY <1>3
    <3>. QED
      BY <1>1, <3>1
  <2>2. PICK f : f = [i \in 1..m - 1 |-> IF i = 1 THEN seqs[i] ELSE f[i - 1] \o seqs[i]]
    BY <2>1
  <2> DEFINE g == [i \in 1..m |-> IF i = m THEN f[m - 1] \o seqs[m] ELSE f[i]]
  <2>3. /\ g[m] = f[m - 1] \o seqs[m]
        /\ \A i \in 1..m - 1 : g[i] = f[i]
        /\ g = [i \in 1..m |-> g[i]]
    <3>1. m \in 1..m
      BY <2>1
    <3>2. g[m] = f[m - 1] \o seqs[m]
      BY <3>1
    <3>3. \A i \in 1..m - 1 : i \in 1..m /\ i # m
      BY <2>1
    <3>4. \A i \in 1..m - 1 : g[i] = f[i]
      BY <3>3
    <3>. QED
      BY <3>2, <3>4, Zenon
  <2> HIDE DEF g
  <2>4. \A i \in 1..m - 1 : f[i] = IF i = 1 THEN seqs[i] ELSE f[i - 1] \o seqs[i]
    BY <2>2
  <2>5. ASSUME NEW i \in 1..m
        PROVE  g[i] = IF i = 1 THEN seqs[i] ELSE g[i - 1] \o seqs[i]
    <3>1. CASE i = m
      <4>1. m - 1 \in 1..m - 1
        BY <2>1
      <4>. QED
        BY <1>3, <2>3, <3>1, <4>1
    <3>2. CASE i # m
      <4>1. i \in 1..m - 1 /\ (i # 1 => i - 1 \in 1..m - 1)
        BY <3>2
      <4>. QED
        BY <2>3, <2>4, <4>1
    <3>. QED
      BY <3>1, <3>2
  <2>6. g = [i \in 1..m |-> IF i = 1 THEN seqs[i] ELSE g[i - 1] \o seqs[i]]
    BY <2>3, <2>5
  <2>. QED
    BY <1>1, <2>6
<1>. QED
  BY <1>2, <1>3

\* What the flattened sequence is built from: f[i] joins the first i parts.
LEMMA FlattenIs ==
  ASSUME NEW S, NEW seqs \in Seq(S), Len(seqs) # 0
  PROVE  \E f : /\ FlattenSeq(seqs) = f[Len(seqs)]
                /\ \A i \in 1..Len(seqs) : f[i] = IF i = 1 THEN seqs[i] ELSE f[i - 1] \o seqs[i]
<1> DEFINE n == Len(seqs)
           flatten == CHOOSE f : f = [i \in 1..n |-> IF i = 1 THEN seqs[i]
                                                     ELSE f[i - 1] \o seqs[i]]
<1>1. n \in Nat \ {0}
  BY LenProperties
<1>2. flatten = [i \in 1..n |-> IF i = 1 THEN seqs[i] ELSE flatten[i - 1] \o seqs[i]]
  BY <1>1, FlattenExists
<1>3. FlattenSeq(seqs) = flatten[n]
  BY DEF FlattenSeq
<1> HIDE DEF flatten
<1>4. \A i \in 1..n : flatten[i] = IF i = 1 THEN seqs[i] ELSE flatten[i - 1] \o seqs[i]
  BY <1>2
<1>. QED
  BY <1>3, <1>4

\* Every element of the flattened sequence is an element of one of its parts.
LEMMA FlattenElements ==
  ASSUME NEW S, NEW seqs \in Seq(Seq(S))
  PROVE  FlattenSeq(seqs) \in Seq(S)
<1>1. CASE Len(seqs) = 0
  BY <1>1 DEF FlattenSeq
<1>2. CASE Len(seqs) # 0
  <2> DEFINE n == Len(seqs)
  <2>1. n \in Nat \ {0} /\ \A i \in 1..n : seqs[i] \in Seq(S)
    BY <1>2, LenProperties
  <2>2. PICK flatten : /\ FlattenSeq(seqs) = flatten[n]
                       /\ \A i \in 1..n : flatten[i] = IF i = 1 THEN seqs[i]
                                                        ELSE flatten[i - 1] \o seqs[i]
    BY <1>2, FlattenIs
  <2> DEFINE T == {i \in 1..n : flatten[i] \notin Seq(S)}
  <2>3. T = {}
    <3> SUFFICES ASSUME T # {} PROVE FALSE
      OBVIOUS
    <3>1. PICK i \in T : \A k \in T : i <= k
      <4>1. T \subseteq Nat
        OBVIOUS
      <4>. QED
        BY <4>1, LeastNat
    <3>2. seqs[i] \in Seq(S)
      BY <2>1
    <3>3. CASE i = 1
      BY <2>2, <3>2, <3>3
    <3>4. CASE i # 1
      <4>1. i - 1 \in 1..n /\ ~(i <= i - 1)
        BY <3>4
      <4>2. flatten[i - 1] \in Seq(S)
        BY <3>1, <4>1
      <4>3. flatten[i] = flatten[i - 1] \o seqs[i]
        BY <2>2, <3>4
      <4>4. flatten[i - 1] \o seqs[i] \in Seq(S)
        BY <3>2, <4>2, ConcatProperties
      <4>. QED
        BY <4>3, <4>4
    <3>. QED
      BY <3>3, <3>4
  <2>. QED
    BY <2>1, <2>2, <2>3
<1>. QED
  BY <1>1, <1>2

\* A part at the end comes at the end.
LEMMA FlattenLast ==
  ASSUME NEW S, NEW seqs \in Seq(Seq(S)), NEW s \in Seq(S)
  PROVE  FlattenSeq(Append(seqs, s)) = FlattenSeq(seqs) \o s
<1> DEFINE n == Len(seqs)
           longer == Append(seqs, s)
<1>1. /\ n \in Nat /\ longer \in Seq(Seq(S)) /\ Len(longer) = n + 1 /\ longer[n + 1] = s
      /\ \A i \in 1..n : longer[i] = seqs[i]
  BY AppendProperties, LenProperties
<1> HIDE DEF longer
<1>2. PICK g : /\ FlattenSeq(longer) = g[n + 1]
               /\ \A i \in 1..n + 1 : g[i] = IF i = 1 THEN longer[i] ELSE g[i - 1] \o longer[i]
  <2>1. Len(longer) # 0
    BY <1>1
  <2>2. \E g : /\ FlattenSeq(longer) = g[Len(longer)]
               /\ \A i \in 1..Len(longer) : g[i] = IF i = 1 THEN longer[i] ELSE g[i - 1] \o longer[i]
    BY <1>1, <2>1, FlattenIs
  <2>. QED
    BY <1>1, <2>2
<1>3. n + 1 \in 1..n + 1
  BY <1>1
<1>4. CASE n = 0
  <2>1. seqs = <<>> /\ FlattenSeq(seqs) = <<>>
    <3>1. seqs = <<>>
      BY <1>4, EmptySeq
    <3>. QED
      BY <3>1 DEF FlattenSeq
  <2>2. g[n + 1] = s
    BY <1>1, <1>2, <1>3, <1>4
  <2>3. <<>> \o s = s
    BY ConcatEmptySeq
  <2>. QED
    BY <1>2, <2>1, <2>2, <2>3 DEF longer
<1>5. CASE n # 0
  <2>1. PICK f : /\ FlattenSeq(seqs) = f[n]
                 /\ \A i \in 1..n : f[i] = IF i = 1 THEN seqs[i] ELSE f[i - 1] \o seqs[i]
    BY <1>5, FlattenIs
  <2> DEFINE T == {i \in 1..n : f[i] # g[i]}
  <2>2. T = {}
    <3> SUFFICES ASSUME T # {} PROVE FALSE
      OBVIOUS
    <3>1. PICK i \in T : \A k \in T : i <= k
      <4>1. T \subseteq Nat
        OBVIOUS
      <4>. QED
        BY <4>1, LeastNat
    <3>2. i \in 1..n /\ i \in 1..n + 1 /\ longer[i] = seqs[i]
      BY <1>1
    <3>3. CASE i = 1
      BY <1>2, <2>1, <3>2, <3>3
    <3>4. CASE i # 1
      <4>1. i - 1 \in 1..n /\ ~(i <= i - 1)
        BY <3>2, <3>4
      <4>2. f[i - 1] = g[i - 1]
        BY <3>1, <4>1
      <4>3. f[i] = f[i - 1] \o seqs[i] /\ g[i] = g[i - 1] \o longer[i]
        BY <1>2, <2>1, <3>2, <3>4
      <4>. QED
        BY <3>2, <4>2, <4>3
    <3>. QED
      BY <3>3, <3>4
  <2>3. n \in 1..n /\ n + 1 # 1 /\ n + 1 - 1 = n
    BY <1>1, <1>5
  <2>4. f[n] = g[n]
    BY <2>2, <2>3
  <2>5. g[n + 1] = g[n] \o s
    <3>1. PICK i \in 1..n + 1 : i = n + 1
      BY <1>3
    <3>2. g[i] = IF i = 1 THEN longer[i] ELSE g[i - 1] \o longer[i]
      BY <1>2
    <3>3. i # 1 /\ i - 1 = n
      BY <1>1, <2>3, <3>1
    <3>4. g[i] = g[n] \o longer[i]
      BY <3>2, <3>3
    <3>. QED
      BY <1>1, <3>1, <3>4
  <2>. QED
    BY <1>2, <2>1, <2>4, <2>5 DEF longer
<1>. QED
  BY <1>4, <1>5

-----------------------------------------------------------------------------
(* The login *)

Delivered ==
  /\ login.got.token \in RequestTokens
  /\ [token |-> login.got.token, status |-> "success"] \in server.answered

\* A login that still waits has no end yet and hears every callback; the pair
\* it works with was delivered as a success; no token is of a later day than
\* its stamp.
LoginInv ==
  /\ LoginTypeOK
  /\ login.stage \in {"browser", "waiting"} =>
       login.end = "none" /\ (early => server.event)
  /\ server.result = NoResult \/ server.result \in server.answered
  /\ login.stage = "exchange" \/ login.issued # 0 => Delivered
  /\ login.stage = "saving" => login.issued # 0
  /\ login.issued <= day
  /\ session.issued <= session.stamped
  /\ CallbackIsNotLost
  /\ SavedWasASuccess

LoginRecord == [stage : LoginStage, got : Result, issued : 0..MaxDay, end : LoginEnd]
ServerRecord == [up : BOOLEAN, held : BOOLEAN, event : BOOLEAN, result : Result,
                 answered : SUBSET Result, count : 0..MaxConnections]

LEMMA SuccessMade ==
  ASSUME NEW result \in Result, result.status = "success"
  PROVE  result = [token |-> result.token, status |-> "success"]
BY DEF Result

\* The typed parts of the login's state.
LEMMA LoginParts ==
  ASSUME LoginInv
  PROVE  /\ login \in LoginRecord /\ server \in ServerRecord
         /\ day \in 1..MaxDay
         /\ session.issued \in Nat /\ session.stamped \in Nat
         /\ login.issued \in 0..MaxDay /\ login.got \in Result
         /\ server.result \in Result
<1>1. login \in LoginRecord /\ server \in ServerRecord
  BY DEF LoginInv, LoginTypeOK, LoginRecord, ServerRecord
<1>2. session \in Session => session.issued \in Nat /\ session.stamped \in Nat
  BY DEF Session
<1>3. session = NoSession => session.issued \in Nat /\ session.stamped \in Nat
  BY DEF NoSession
<1>4. day \in 1..MaxDay /\ session \in Session \cup {NoSession}
  BY DEF LoginInv, LoginTypeOK
<1>. QED
  BY <1>1, <1>2, <1>3, <1>4 DEF LoginRecord, ServerRecord

LEMMA BeginLoginInv == ASSUME LoginInv, BeginLogin, day' = day PROVE LoginInv'
<1>1. /\ login = NoLogin
      /\ login' = [stage |-> "browser", got |-> NoResult, issued |-> 0, end |-> "none"]
      /\ early' = FALSE /\ session' = session
  BY DEF BeginLogin, NoLogin
<1>2. PICK s \in ServerRecord : s = server
  BY LoginParts
<1>3. server' = [s EXCEPT !.up = TRUE, !.held = FALSE, !.event = FALSE, !.result = NoResult]
  BY <1>2 DEF BeginLogin
<1>4. NoResult \in Result
  BY DEF NoResult, Result, Status
<1>5. server' \in ServerRecord /\ server'.result = NoResult
  BY <1>3, <1>4 DEF ServerRecord
<1>6. LoginTypeOK'
  <2>1. login' \in LoginRecord
    BY <1>1, <1>4, MaxDayAssumption DEF LoginRecord, LoginStage, LoginEnd
  <2>. QED
    BY <1>1, <1>5, <2>1 DEF LoginInv, LoginTypeOK, LoginRecord, ServerRecord
<1>7. login'.issued <= day'
  BY <1>1, LoginParts, MaxDayAssumption
<1>. QED
  BY <1>1, <1>5, <1>6, <1>7
     DEF LoginInv, CallbackIsNotLost, SavedWasASuccess

LEMMA ForgetLoginInv ==
  ASSUME LoginInv, ForgetLogin, UNCHANGED <<day, session>> PROVE LoginInv'
<1>1. /\ login' = [stage |-> "idle", got |-> NoResult, issued |-> 0, end |-> "none"]
      /\ early' = FALSE
  BY DEF ForgetLogin, NoLogin
<1>2. NoResult \in Result
  BY DEF NoResult, Result, Status
<1>3. /\ server' = [up |-> FALSE, held |-> FALSE, event |-> FALSE, result |-> NoResult,
                    answered |-> {}, count |-> server.count]
      /\ server.count \in 0..MaxConnections
  BY LoginParts DEF ForgetLogin, NoServer, ServerRecord
<1>4. login' \in LoginRecord /\ server' \in ServerRecord
  BY <1>1, <1>2, <1>3, MaxDayAssumption
     DEF LoginRecord, LoginStage, LoginEnd, ServerRecord
<1>5. login'.issued <= day'
  BY <1>1, LoginParts, MaxDayAssumption
<1>. QED
  BY <1>1, <1>3, <1>4, <1>5
     DEF LoginInv, LoginTypeOK, LoginRecord, ServerRecord, CallbackIsNotLost, SavedWasASuccess

\* A raise inside the try, at any stage before the session is saved.
LEMMA AbandonInv ==
  ASSUME LoginInv, day' = day, NEW end \in LoginEnd \ {"saved"}, Abandon(end),
         end = "timeout" => ~early
  PROVE  LoginInv'
<1>1. PICK l \in LoginRecord : l = login
  BY LoginParts
<1>2. /\ login' = [l EXCEPT !.stage = "closing", !.end = end]
      /\ UNCHANGED <<session, server, early>>
  BY <1>1 DEF Abandon
<1>3. "closing" \in LoginStage
  BY DEF LoginStage
<1>4. /\ login' \in LoginRecord /\ login'.stage = "closing" /\ login'.end = end
      /\ login'.got = l.got /\ login'.issued = l.issued
  BY <1>2, <1>3 DEF LoginRecord
<1>5. LoginTypeOK'
  BY <1>2, <1>4 DEF LoginInv, LoginTypeOK, LoginRecord
<1>. QED
  BY <1>1, <1>2, <1>4, <1>5 DEF LoginInv, Delivered, CallbackIsNotLost, SavedWasASuccess

\* The stage moves on, and nothing else does.
LEMMA StageInv ==
  ASSUME LoginInv, day' = day, NEW next \in LoginStage \ {"browser", "exchange", "saving"},
         login' = [login EXCEPT !.stage = next], UNCHANGED <<session, server, early>>,
         next = "waiting" => login.stage = "browser"
  PROVE  LoginInv'
<1>1. PICK l \in LoginRecord : l = login
  BY LoginParts
<1>2. login' = [l EXCEPT !.stage = next]
  BY <1>1
<1>3. /\ login' \in LoginRecord /\ login'.stage = next /\ login'.end = l.end
      /\ login'.got = l.got /\ login'.issued = l.issued
  BY <1>2 DEF LoginRecord
<1>4. LoginTypeOK'
  BY <1>3 DEF LoginInv, LoginTypeOK, LoginRecord
<1>. QED
  BY <1>1, <1>3, <1>4 DEF LoginInv, Delivered, CallbackIsNotLost, SavedWasASuccess

LEMMA OpenBrowserInv == ASSUME LoginInv, OpenBrowser, day' = day PROVE LoginInv'
<1>1. CASE Abandon("browser")
  BY <1>1, AbandonInv DEF LoginEnd
<1>2. CASE /\ login' = [login EXCEPT !.stage = "waiting"]
           /\ UNCHANGED <<session, server, early>>
  <2>1. "waiting" \in LoginStage \ {"browser", "exchange", "saving"}
    BY DEF LoginStage
  <2>. QED
    BY <1>2, <2>1, StageInv DEF OpenBrowser
<1>. QED
  BY <1>1, <1>2 DEF OpenBrowser

LEMMA HearInv == ASSUME LoginInv, Hear, day' = day PROVE LoginInv'
<1>1. "heard" \in LoginStage \ {"browser", "exchange", "saving"}
  BY DEF LoginStage
<1>. QED
  BY <1>1, StageInv DEF Hear

LEMMA TimeOutInv == ASSUME LoginInv, TimeOut, day' = day PROVE LoginInv'
<1>1. ~early /\ Abandon("timeout")
  BY DEF TimeOut, LoginInv
<1>. QED
  BY <1>1, AbandonInv DEF LoginEnd

LEMMA ReadResultInv == ASSUME LoginInv, ReadResult, day' = day PROVE LoginInv'
<1>1. CASE Abandon("refused")
  BY <1>1, AbandonInv DEF LoginEnd
<1>2. CASE /\ server.result.status = "success" /\ server.result.token # NoToken
           /\ login' = [login EXCEPT !.stage = "exchange", !.got = server.result]
           /\ UNCHANGED <<session, server, early>>
  <2>1. PICK l \in LoginRecord, got \in Result : l = login /\ got = server.result
    BY LoginParts
  <2>2. login' = [l EXCEPT !.stage = "exchange", !.got = got] /\ "exchange" \in LoginStage
    BY <1>2, <2>1 DEF LoginStage
  <2>3. /\ login' \in LoginRecord /\ login'.stage = "exchange" /\ login'.end = l.end
        /\ login'.got = got /\ login'.issued = l.issued
    BY <2>2 DEF LoginRecord
  <2>4. Delivered'
    <3>1. got # NoResult
      <4>1. NoResult.status = ""
        BY DEF NoResult
      <4>2. got.status = "success"
        BY <1>2, <2>1
      <4>. QED
        BY <4>1, <4>2
    <3>2. got \in server.answered
      BY <2>1, <3>1 DEF LoginInv
    <3>3. got = [token |-> got.token, status |-> "success"]
      BY <1>2, <2>1, SuccessMade
    <3>4. got.token \in RequestTokens
      BY <1>2, <2>1 DEF Result
    <3>. QED
      BY <1>2, <2>3, <3>2, <3>3, <3>4 DEF Delivered
  <2>5. LoginTypeOK'
    BY <1>2, <2>3 DEF LoginInv, LoginTypeOK, LoginRecord
  <2>. QED
    BY <1>2, <2>1, <2>3, <2>4, <2>5 DEF LoginInv, CallbackIsNotLost, SavedWasASuccess
<1>. QED
  BY <1>1, <1>2 DEF ReadResult

LEMMA GenerateSessionInv == ASSUME LoginInv, GenerateSession, day' = day PROVE LoginInv'
<1>1. CASE Abandon("exchange")
  BY <1>1, AbandonInv DEF LoginEnd
<1>2. CASE /\ login' = [login EXCEPT !.stage = "closing", !.issued = day]
           /\ UNCHANGED <<session, server, early>>
  <2>1. PICK l \in LoginRecord, today \in 0..MaxDay : l = login /\ today = day
    BY LoginParts, MaxDayAssumption
  <2>2. login' = [l EXCEPT !.stage = "closing", !.issued = today] /\ "closing" \in LoginStage
    BY <1>2, <2>1 DEF LoginStage
  <2>3. /\ login' \in LoginRecord /\ login'.stage = "closing" /\ login'.end = l.end
        /\ login'.got = l.got /\ login'.issued = today
    BY <2>2 DEF LoginRecord
  <2>4. Delivered'
    BY <1>2, <2>1, <2>3 DEF GenerateSession, LoginInv, Delivered
  <2>5. LoginTypeOK'
    BY <1>2, <2>3 DEF LoginInv, LoginTypeOK, LoginRecord
  <2>6. login'.issued <= day'
    BY <2>1, <2>3, LoginParts
  <2>. QED
    BY <1>2, <2>1, <2>3, <2>4, <2>5, <2>6 DEF LoginInv, CallbackIsNotLost, SavedWasASuccess
<1>. QED
  BY <1>1, <1>2 DEF GenerateSession

LEMMA CloseServerInv == ASSUME LoginInv, CloseServer, day' = day PROVE LoginInv'
<1>1. PICK l \in LoginRecord, s \in ServerRecord, next \in LoginStage :
         /\ l = login /\ s = server
         /\ next = IF login.issued # 0 THEN "saving" ELSE "failed"
  BY LoginParts DEF LoginStage
<1>2. /\ login' = [l EXCEPT !.stage = next]
      /\ server' = [s EXCEPT !.up = FALSE]
      /\ UNCHANGED <<session, early>>
  BY <1>1 DEF CloseServer
<1>3. /\ login' \in LoginRecord /\ login'.stage = next /\ login'.end = l.end
      /\ login'.got = l.got /\ login'.issued = l.issued
  BY <1>2 DEF LoginRecord
<1>4. /\ server' \in ServerRecord /\ server'.result = s.result
      /\ server'.answered = s.answered /\ server'.event = s.event
  BY <1>2 DEF ServerRecord
<1>5. LoginTypeOK'
  BY <1>2, <1>3, <1>4 DEF LoginInv, LoginTypeOK, LoginRecord, ServerRecord
<1>6. next \notin {"browser", "waiting", "exchange"} /\ (next = "saving" => login.issued # 0)
  BY <1>1
<1>. QED
  BY <1>1, <1>2, <1>3, <1>4, <1>5, <1>6
     DEF LoginInv, Delivered, CallbackIsNotLost, SavedWasASuccess

LEMMA SaveSessionInv == ASSUME LoginInv, SaveSession, day' = day PROVE LoginInv'
<1>1. PICK l \in LoginRecord : l = login
  BY LoginParts
<1>2. /\ login' = [l EXCEPT !.stage = "saved", !.end = "saved"]
      /\ session' = [request |-> l.got.token, issued |-> l.issued, stamped |-> day]
      /\ UNCHANGED <<server, early>>
  BY <1>1 DEF SaveSession, Saved
<1>3. "saved" \in LoginStage /\ "saved" \in LoginEnd
  BY DEF LoginStage, LoginEnd
<1>4. /\ login' \in LoginRecord /\ login'.stage = "saved" /\ login'.end = "saved"
      /\ login'.got = l.got /\ login'.issued = l.issued
  BY <1>2, <1>3 DEF LoginRecord
<1>5. l.issued # 0 /\ Delivered /\ l.issued <= day
  BY <1>1 DEF SaveSession, LoginInv
<1>6. l.got.token \in RequestTokens /\ l.issued \in 1..MaxDay /\ day \in 1..MaxDay
  BY <1>1, <1>5, LoginParts DEF Delivered, LoginRecord
<1>7. /\ session' \in Session /\ session'.issued = l.issued
      /\ session'.stamped = day /\ session'.request = l.got.token
  BY <1>2, <1>6 DEF Session
<1>8. LoginTypeOK'
  BY <1>2, <1>4, <1>7 DEF LoginInv, LoginTypeOK, LoginRecord
<1>9. Delivered' /\ SavedWasASuccess'
  BY <1>1, <1>2, <1>4, <1>5, <1>7 DEF Delivered, SavedWasASuccess
<1>. QED
  BY <1>2, <1>4, <1>5, <1>7, <1>8, <1>9 DEF LoginInv, CallbackIsNotLost

\* The file that a login about to save would leave.
LEMMA SavedIsTyped ==
  ASSUME LoginInv, login.stage = "saving"
  PROVE  Saved \in Session /\ Saved.issued <= Saved.stamped
<1>1. PICK l \in LoginRecord : l = login
  BY LoginParts
<1>2. Saved = [request |-> l.got.token, issued |-> l.issued, stamped |-> day]
  BY <1>1 DEF Saved
<1>3. l.issued # 0 /\ Delivered /\ l.issued <= day
  BY <1>1 DEF LoginInv
<1>4. l.got.token \in RequestTokens /\ l.issued \in 1..MaxDay /\ day \in 1..MaxDay
  BY <1>1, <1>3, LoginParts DEF Delivered, LoginRecord
<1>. QED
  BY <1>2, <1>3, <1>4 DEF Session

LEMMA SaveFailsInv == ASSUME LoginInv, SaveFails, day' = day PROVE LoginInv'
<1>1. PICK l \in LoginRecord : l = login
  BY LoginParts
<1>2. /\ login' = [l EXCEPT !.stage = "failed", !.end = "save"]
      /\ session' \in {session, Saved, NoSession}
      /\ UNCHANGED <<server, early>>
      /\ login.stage = "saving"
  BY <1>1 DEF SaveFails
<1>3. "failed" \in LoginStage /\ "save" \in LoginEnd
  BY DEF LoginStage, LoginEnd
<1>4. /\ login' \in LoginRecord /\ login'.stage = "failed" /\ login'.end = "save"
      /\ login'.got = l.got /\ login'.issued = l.issued
  BY <1>2, <1>3 DEF LoginRecord
<1>5. NoSession.issued <= NoSession.stamped
  BY DEF NoSession
<1>6. session' \in Session \cup {NoSession} /\ session'.issued <= session'.stamped
  BY <1>2, <1>5, SavedIsTyped DEF LoginInv, LoginTypeOK
<1>7. LoginTypeOK'
  BY <1>2, <1>4, <1>6 DEF LoginInv, LoginTypeOK, LoginRecord
<1>. QED
  BY <1>1, <1>2, <1>4, <1>6, <1>7 DEF LoginInv, Delivered, CallbackIsNotLost, SavedWasASuccess

\* A connection that is taken, or goes, says nothing to the login.
LEMMA ConnectionInv == ASSUME LoginInv, Connect \/ HangUp, day' = day PROVE LoginInv'
<1>1. PICK s \in ServerRecord : s = server
  BY LoginParts
<1>2. /\ server' \in ServerRecord /\ server'.result = s.result
      /\ server'.answered = s.answered /\ server'.event = s.event
  <2>1. CASE Connect
    <3>1. s.count \in 0..MaxConnections /\ s.count < MaxConnections
          /\ server' = [s EXCEPT !.held = TRUE, !.count = s.count + 1]
      BY <1>1, <2>1 DEF Connect, ServerRecord
    <3>2. s.count + 1 \in 0..MaxConnections
      BY <3>1, MaxConnectionsAssumption
    <3>. QED
      BY <3>1, <3>2 DEF ServerRecord
  <2>2. CASE HangUp
    <3>1. server' = [s EXCEPT !.held = FALSE]
      BY <1>1, <2>2 DEF HangUp
    <3>. QED
      BY <3>1 DEF ServerRecord
  <2>. QED
    BY <2>1, <2>2
<1>3. UNCHANGED <<session, login, early>>
  BY DEF Connect, HangUp
<1>4. LoginTypeOK'
  BY <1>2, <1>3 DEF LoginInv, LoginTypeOK, ServerRecord
<1>. QED
  BY <1>1, <1>2, <1>3, <1>4 DEF LoginInv, Delivered, CallbackIsNotLost, SavedWasASuccess

\* A callback is heard while the login waits, and kept with the others.
LEMMA CallbackInv ==
  ASSUME LoginInv, day' = day, NEW token \in RequestTokens \cup {NoToken},
         NEW answer \in Status, Callback(token, answer)
  PROVE  LoginInv'
<1> DEFINE result == [token |-> token, status |-> answer]
<1>1. result \in Result
  BY DEF Result
<1>2. PICK s \in ServerRecord : s = server
  BY LoginParts
<1>3. /\ server' = [s EXCEPT !.held = FALSE, !.result = result, !.event = TRUE,
                             !.answered = s.answered \cup {result}]
      /\ early' = (early \/ login.stage \in {"browser", "waiting"})
      /\ UNCHANGED <<session, login>>
  BY <1>2 DEF Callback
<1> HIDE DEF result
<1>4. s.answered \cup {result} \in SUBSET Result
  BY <1>1 DEF ServerRecord
<1>5. /\ server' \in ServerRecord /\ server'.result = result /\ server'.event = TRUE
      /\ server'.answered = s.answered \cup {result}
  BY <1>1, <1>3, <1>4 DEF ServerRecord
<1>6. LoginTypeOK'
  BY <1>3, <1>5 DEF LoginInv, LoginTypeOK, ServerRecord
<1>7. CallbackIsNotLost'
  BY <1>3 DEF LoginInv, CallbackIsNotLost
<1>. QED
  BY <1>2, <1>3, <1>5, <1>6, <1>7 DEF LoginInv, Delivered, SavedWasASuccess

LEMMA LoginStepInv ==
  ASSUME LoginInv, LoginStep \/ BrowserStep, day' = day PROVE LoginInv'
<1>1. CASE LoginStep
  BY <1>1, OpenBrowserInv, HearInv, TimeOutInv, ReadResultInv, GenerateSessionInv,
     CloseServerInv, SaveSessionInv, SaveFailsInv DEF LoginStep
<1>2. CASE BrowserStep
  <2>1. CASE Connect \/ HangUp
    BY <2>1, ConnectionInv
  <2>2. ASSUME NEW token \in RequestTokens, Callback(token, "success") PROVE LoginInv'
    <3>1. token \in RequestTokens \cup {NoToken} /\ "success" \in Status
      BY DEF Status
    <3>. QED
      BY <2>2, <3>1, CallbackInv
  <2>3. CASE Callback(NoToken, "failed")
    <3>1. NoToken \in RequestTokens \cup {NoToken} /\ "failed" \in Status
      BY DEF Status
    <3>. QED
      BY <2>3, <3>1, CallbackInv
  <2>. QED
    BY <1>2, <2>1, <2>2, <2>3 DEF BrowserStep
<1>. QED
  BY <1>1, <1>2

LEMMA LoginUnchanged ==
  ASSUME LoginInv, UNCHANGED loginVars, day' \in 1..MaxDay, day <= day'
  PROVE  LoginInv'
<1>1. UNCHANGED <<session, login, server, early>>
  BY DEF loginVars
<1>2. LoginTypeOK'
  BY <1>1 DEF LoginInv, LoginTypeOK
<1>3. login'.issued <= day'
  BY <1>1, LoginParts DEF LoginInv
<1>. QED
  BY <1>1, <1>2, <1>3 DEF LoginInv, Delivered, CallbackIsNotLost, SavedWasASuccess

\* Every step of the scripts, the login, the browser and the calendar.
LEMMA LoginInductive == LoginInv /\ [Next]_vars => LoginInv'
<1> SUFFICES ASSUME LoginInv, [Next]_vars PROVE LoginInv'
  OBVIOUS
<1>1. day \in 1..MaxDay /\ day <= day
  BY LoginParts
<1>2. ASSUME NEW r \in Runs, Start(r) \/ RunStep(r) \/ Crash(r), day' = day
      PROVE  LoginInv'
  <2>1. \/ UNCHANGED loginVars
        \/ BeginLogin
        \/ ForgetLogin /\ session' = session
    BY <1>2 DEF Start, RunStep, DailyStep, UniverseStep, FetchStep, Resolve, LoggedIn, Verify,
       Backup, Ingest, Fetch, OpenData, FillData, SwapData, WriteManifest, SwapManifest,
       SwapFails, Load, Report, Crash, loginVars
  <2>. QED
    BY <1>1, <1>2, <2>1, LoginUnchanged, BeginLoginInv, ForgetLoginInv
<1>3. CASE Login \/ Browser
  BY <1>3, LoginStepInv DEF Login, Browser
<1>4. CASE Tick
  <2>1. day' \in 1..MaxDay /\ day <= day'
    BY <1>1, <1>4, MaxDayAssumption DEF Tick
  <2>. QED
    BY <1>4, <2>1, LoginUnchanged DEF Tick
<1>5. CASE UNCHANGED vars
  <2>1. UNCHANGED loginVars /\ day' = day
    BY <1>5 DEF vars, loginVars
  <2>. QED
    BY <1>1, <2>1, LoginUnchanged
<1>. QED
  BY <1>2, <1>3, <1>4, <1>5 DEF Next

LEMMA LoginInitially == Init => LoginInv
<1> SUFFICES ASSUME LoginInit PROVE LoginInv
  BY DEF Init
<1>1. NoResult \in Result
  BY DEF NoResult, Result, Status
<1>2. login \in LoginRecord /\ server \in ServerRecord
  BY <1>1, MaxDayAssumption, MaxConnectionsAssumption
     DEF LoginInit, NoLogin, NoServer, LoginRecord, LoginStage, LoginEnd, ServerRecord
<1>3. session \in Session \cup {NoSession} /\ session.issued <= session.stamped
  <2>1. CASE session = NoSession
    BY <2>1 DEF NoSession
  <2>2. CASE session \in [request : RequestTokens, issued : {1}, stamped : {1}]
    <3>1. session.issued = 1 /\ session.stamped = 1 /\ session.request \in RequestTokens
          /\ session = [request |-> session.request, issued |-> 1, stamped |-> 1]
      BY <2>2
    <3>. QED
      BY <3>1, MaxDayAssumption DEF Session
  <2>. QED
    BY <2>1, <2>2 DEF LoginInit
<1>4. day \in 1..MaxDay /\ early = FALSE
  BY MaxDayAssumption DEF LoginInit
<1>5. LoginTypeOK
  BY <1>2, <1>3, <1>4 DEF LoginTypeOK, LoginRecord, ServerRecord
<1>. QED
  BY <1>3, <1>4, <1>5
     DEF LoginInit, LoginInv, NoLogin, NoServer, CallbackIsNotLost, SavedWasASuccess

\* The login keeps its word whatever the scripts, the browser and the calendar
\* do: no callback answered in time is lost, what is saved was delivered as a
\* success, and a session taken for fresh is honoured or was stamped a day after
\* its token was issued.
THEOREM HonestLogin == Spec => []LoginIsHonest
<1>1. LoginInv => LoginIsHonest
  <2> SUFFICES ASSUME LoginInv PROVE FreshIsHonoured
    BY DEF LoginInv, LoginIsHonest
  <2>1. session.issued \in Nat /\ session.stamped \in Nat /\ session.issued <= session.stamped
    BY LoginParts DEF LoginInv
  <2>. QED
    BY <2>1 DEF FreshIsHonoured, Fresh
<1>. QED
  BY <1>1, LoginInitially, LoginInductive, PTL DEF Spec

-----------------------------------------------------------------------------
(* The dataset, its manifest and its backups *)

Dataset == [of : Instruments, bars : Seq(Bar)]
Content == Dataset \cup {NoFile, Torn}
RunRecord ==
  [phase : Phases, script : Scripts \cup {"none"}, token : Instruments \cup {Unlisted},
   issued : 0..MaxDay, content : Content, stale : BOOLEAN, alone : BOOLEAN]

DataTypes ==
  /\ run \in [Runs -> RunRecord]
  /\ files \in [Kinds -> Content]
  /\ temps \in [Kinds -> Content]
  /\ handle \in [Runs -> {"closed", "temp", "destination", "gone"}]
  /\ backups \subseteq Dataset
  /\ lost \subseteq Dataset
  /\ mixed \in BOOLEAN /\ cut \in BOOLEAN

\* Where a run holds bars it has fetched, and where it counts on its backup.
Refreshing == {"open data"} \cup WritePhases
Restorable == {"fetch", "open data", "fill data", "swap data"}

\* A run refreshes with usable bars of its own token, which is the wanted one
\* unless its script does not check.
TokenInv(r) ==
  /\ run[r].phase = "idle" => run[r].script = "none"
  /\ run[r].script = "universe" => run[r].token = Wanted
  /\ run[r].script # "fetch" /\ run[r].phase \in {"backup", "fetch"} \cup Refreshing =>
       run[r].token = Wanted
  /\ run[r].phase \in Refreshing =>
       IsUsable(run[r].content) /\ run[r].content.of = run[r].token

\* A run that writes alone finds in the files what it has written itself.
AloneInv(r) ==
  run[r].alone =>
    /\ run[r].phase = "fill data" => handle[r] = "temp"
    /\ run[r].phase = "swap data" => temps["data"] = run[r].content
    /\ run[r].phase \in {"write manifest", "swap manifest"} => files["data"] = run[r].content
    /\ run[r].phase = "swap manifest" => temps["manifest"] = run[r].content

\* What a run has backed up is what is there, until another run replaces it.
BackupInv(r) ==
  run[r].script # "fetch" /\ ~run[r].stale /\ run[r].phase \in Restorable =>
    files["data"] \in backups \cup {NoFile, Torn}

\* A run whose file has moved knows that the dataset is another one.
MovedInv(r) == run[r].phase = "fill data" /\ handle[r] = "destination" => run[r].stale

RunInv(r) == TokenInv(r) /\ AloneInv(r) /\ BackupInv(r) /\ MovedInv(r)

\* Two runs that write at once both know it.
Apart == \A r, s \in Runs : r # s /\ Writing(r) /\ Writing(s) => ~run[r].alone

\* Another instrument than the wanted one comes from an unchecked command line.
Known(c) ==
  c.of \in Instruments \ {Wanted} =>
    \E r \in Runs : run[r].script = "fetch" /\ run[r].token = c.of

DataInv ==
  /\ DataTypes
  /\ \A r \in Runs : RunInv(r)
  /\ Apart
  /\ Known(files["data"]) /\ Known(temps["data"])
  /\ IsTrue
  /\ ManifestDescribesData
  /\ ReplacedIsBackedUp

-----------------------------------------------------------------------------
(* What every step leaves alone *)

\* A step of another run leaves this one where it is, and its hands free.
KeptBy(s) ==
  /\ run'[s].phase = run[s].phase /\ run'[s].script = run[s].script
  /\ run'[s].token = run[s].token /\ run'[s].content = run[s].content
  /\ run'[s].alone => run[s].alone
  /\ Writing(s) /\ run'[s].alone =>
       files' = files /\ temps' = temps /\ handle'[s] = handle[s]
  /\ run[s].phase \in Restorable /\ ~run'[s].stale =>
       ~run[s].stale /\ files'["data"] = files["data"] /\ backups \subseteq backups'
  /\ run[s].phase = "fill data" /\ handle'[s] = "destination" => run'[s].stale

LEMMA OtherRunInv ==
  ASSUME NEW s \in Runs, RunInv(s), KeptBy(s) PROVE RunInv(s)'
<1>1. TokenInv(s)'
  BY DEF RunInv, KeptBy, TokenInv
<1>2. AloneInv(s)'
  BY DEF RunInv, KeptBy, AloneInv, Writing, WritePhases
<1>3. BackupInv(s)'
  BY DEF RunInv, KeptBy, BackupInv
<1>4. MovedInv(s)'
  BY DEF RunInv, KeptBy, MovedInv
<1>. QED
  BY <1>1, <1>2, <1>3, <1>4 DEF RunInv

\* A refresh's content is known.
LEMMA ContentKnown ==
  ASSUME NEW r \in Runs, RunInv(r), run[r].phase \in Refreshing PROVE Known(run[r].content)
BY DEF RunInv, TokenInv, Known

LEMMA MarksKnown == Known(NoFile) /\ Known(Torn)
BY InstrumentsAssumption DEF Known, NoFile, Torn

\* The parts of the invariant that speak of all runs.
LEMMA RunsStep ==
  ASSUME DataInv, NEW r \in Runs, \A s \in Runs \ {r} : KeptBy(s), RunInv(r)',
         run[r].script = "fetch" => run'[r].script = "fetch" /\ run'[r].token = run[r].token,
         Writing(r)' =>
           \/ Writing(r) /\ (run'[r].alone => run[r].alone)
           \/ \A s \in Runs \ {r} : Writing(s) => ~run'[s].alone /\ ~run'[r].alone,
         files'["data"] = files["data"] \/ Known(files'["data"]),
         temps'["data"] = temps["data"] \/ Known(temps'["data"])
  PROVE  /\ \A s \in Runs : RunInv(s)'
         /\ Apart'
         /\ Known(files["data"])' /\ Known(temps["data"])'
<1>1. ASSUME NEW s \in Runs PROVE RunInv(s)'
  <2>1. CASE s = r
    BY <2>1
  <2>2. CASE s # r
    <3>1. RunInv(s) /\ KeptBy(s)
      BY <2>2 DEF DataInv
    <3>. QED
      BY <3>1, OtherRunInv
  <2>. QED
    BY <2>1, <2>2
<1>2. Apart'
  <2>1. \A s \in Runs \ {r} : (Writing(s)' => Writing(s)) /\ (run'[s].alone => run[s].alone)
    BY DEF KeptBy, Writing
  <2>2. Apart
    BY DEF DataInv
  <2>3. ASSUME NEW s \in Runs, NEW t \in Runs, s # t, Writing(s)', Writing(t)', run'[s].alone
        PROVE  FALSE
    <3>1. CASE s # r /\ t # r
      BY <2>1, <2>2, <2>3, <3>1 DEF Apart
    <3>2. CASE s = r
      BY <2>1, <2>2, <2>3, <3>2 DEF Apart
    <3>3. CASE t = r
      BY <2>1, <2>2, <2>3, <3>3 DEF Apart
    <3>. QED
      BY <3>1, <3>2, <3>3
  <2>. QED
    BY <2>3 DEF Apart, Writing
<1>3. ASSUME NEW c, Known(c)
      PROVE  c.of \in Instruments \ {Wanted} =>
               \E s \in Runs : run'[s].script = "fetch" /\ run'[s].token = c.of
  BY <1>3 DEF Known, KeptBy
<1>4. Known(files["data"])' /\ Known(temps["data"])'
  BY <1>3 DEF DataInv, Known
<1>. QED
  BY <1>1, <1>2, <1>4

\* A step of a run that is not writing, before or after, with the files as they
\* are.
LEMMA QuietStep ==
  ASSUME DataInv, NEW r \in Runs, NEW new \in RunRecord, run' = [run EXCEPT ![r] = new],
         UNCHANGED <<files, temps, lost, mixed, cut>>,
         handle' \in [Runs -> {"closed", "temp", "destination", "gone"}],
         \A s \in Runs \ {r} : handle'[s] = handle[s],
         backups' \subseteq Dataset, backups \subseteq backups',
         ~Writing(r), new.phase \notin WritePhases, RunInv(r)',
         run[r].script = "fetch" => new.script = "fetch" /\ new.token = run[r].token
  PROVE  DataInv'
<1>1. run'[r] = new /\ \A s \in Runs \ {r} : run'[s] = run[s]
  BY DEF DataInv, DataTypes
<1>2. DataTypes'
  BY DEF DataInv, DataTypes
<1>3. \A s \in Runs \ {r} : KeptBy(s)
  BY <1>1 DEF KeptBy, DataInv, RunInv, MovedInv
<1>4. ~Writing(r)'
  BY <1>1 DEF Writing
<1>5. /\ \A s \in Runs : RunInv(s)'
      /\ Apart'
      /\ Known(files["data"])' /\ Known(temps["data"])'
  BY <1>1, <1>3, <1>4, RunsStep
<1>6. Entangled => Entangled'
  BY <1>1 DEF Entangled, Writing
<1>7. IsTrue' /\ ReplacedIsBackedUp'
  BY <1>6 DEF DataInv, IsTrue, ReplacedIsBackedUp
<1>8. ManifestDescribesData'
  <2>1. \A s \in Runs : run[s].phase \in {"write manifest", "swap manifest"} =>
          run'[s].phase \in {"write manifest", "swap manifest"}
    BY <1>1 DEF Writing, WritePhases
  <2>. QED
    BY <1>6, <2>1 DEF DataInv, ManifestDescribesData
<1>. QED
  BY <1>2, <1>5, <1>7, <1>8 DEF DataInv

-----------------------------------------------------------------------------
(* Steps that write no file *)

LEMMA NoRunType == NoRun \in RunRecord
BY MaxDayAssumption DEF NoRun, RunRecord, Phases, Content

\* A run that goes on keeps all but its phase.
LEMMA GotoOn ==
  ASSUME DataTypes, NEW r \in Runs, NEW phase \in Phases, phase \notin Ended, Goto(r, phase)
  PROVE  \E new \in RunRecord :
           /\ run' = [run EXCEPT ![r] = new]
           /\ new.phase = phase
           /\ new.script = run[r].script /\ new.token = run[r].token
           /\ new.issued = run[r].issued /\ new.content = run[r].content
           /\ new.stale = run[r].stale /\ new.alone = run[r].alone
<1>1. PICK old \in RunRecord : old = run[r]
  BY DEF DataTypes
<1> DEFINE new == [old EXCEPT !.phase = phase]
<1>2. /\ new \in RunRecord /\ new.phase = phase
      /\ new.script = old.script /\ new.token = old.token
      /\ new.issued = old.issued /\ new.content = old.content
      /\ new.stale = old.stale /\ new.alone = old.alone
  BY DEF RunRecord
<1>3. run' = [run EXCEPT ![r] = new]
  BY <1>1 DEF Goto
<1> HIDE DEF new
<1>. QED
  BY <1>1, <1>2, <1>3

\* A run that ends keeps nothing, or its unchecked command line.
LEMMA GotoEnd ==
  ASSUME DataTypes, NEW r \in Runs, NEW phase \in Phases, phase \in Ended, Goto(r, phase)
  PROVE  \E new \in RunRecord :
           /\ run' = [run EXCEPT ![r] = new]
           /\ new.phase = phase
           /\ run[r].script = "fetch" => new.script = "fetch" /\ new.token = run[r].token
           /\ run[r].script # "fetch" => new.script = "none"
<1>1. PICK old \in RunRecord : old = run[r]
  BY DEF DataTypes
<1>2. CASE run[r].script = "fetch"
  <2> DEFINE new == [NoRun EXCEPT !.phase = phase, !.script = "fetch", !.token = run[r].token]
  <2>1. "fetch" \in Scripts \cup {"none"} /\ run[r].token \in Instruments \cup {Unlisted}
    BY <1>1, <1>2 DEF RunRecord
  <2>2. new \in RunRecord /\ new.phase = phase /\ new.script = "fetch" /\ new.token = run[r].token
    BY <2>1, NoRunType DEF RunRecord
  <2>3. run' = [run EXCEPT ![r] = new]
    BY <1>2 DEF Goto
  <2> HIDE DEF new
  <2>. QED
    BY <1>2, <2>2, <2>3
<1>3. CASE run[r].script # "fetch"
  <2> DEFINE new == [NoRun EXCEPT !.phase = phase]
  <2>1. new \in RunRecord /\ new.phase = phase /\ new.script = NoRun.script
    BY NoRunType DEF RunRecord
  <2>2. run' = [run EXCEPT ![r] = new] /\ NoRun.script = "none"
    BY <1>3 DEF Goto, NoRun
  <2> HIDE DEF new
  <2>. QED
    BY <1>3, <2>1, <2>2
<1>. QED
  BY <1>2, <1>3

\* A record whose phase asks nothing of the files.
LEMMA NewRunInv ==
  ASSUME DataInv, NEW r \in Runs, NEW new \in RunRecord, run' = [run EXCEPT ![r] = new],
         new.phase \notin Refreshing,
         new.phase = "idle" => new.script = "none",
         new.script = "universe" => new.token = Wanted,
         new.phase \in {"backup", "fetch"} /\ new.script # "fetch" => new.token = Wanted,
         new.phase = "fetch" /\ new.script # "fetch" /\ ~new.stale =>
           files'["data"] \in backups' \cup {NoFile, Torn}
  PROVE  RunInv(r)'
<1>1. run'[r] = new
  BY DEF DataInv, DataTypes
<1>2. TokenInv(r)'
  BY <1>1 DEF TokenInv
<1>3. AloneInv(r)'
  BY <1>1 DEF AloneInv, Refreshing, WritePhases
<1>4. BackupInv(r)'
  BY <1>1 DEF BackupInv, Restorable, Refreshing, WritePhases
<1>5. MovedInv(r)'
  BY <1>1 DEF MovedInv, Refreshing, WritePhases
<1>. QED
  BY <1>2, <1>3, <1>4, <1>5 DEF RunInv

\* A run that ends, whatever it was at, if it was not writing.
LEMMA EndedInv ==
  ASSUME DataInv, NEW r \in Runs, NEW phase \in Ended, Goto(r, phase), ~Writing(r),
         UNCHANGED <<files, temps, lost, mixed, cut, backups>>,
         handle' \in [Runs -> {"closed", "temp", "destination", "gone"}],
         \A s \in Runs \ {r} : handle'[s] = handle[s]
  PROVE  DataInv'
<1>1. phase \in Phases /\ phase \notin {"idle", "backup", "fetch"} \cup Refreshing
  BY DEF Phases, Ended, Refreshing, WritePhases
<1>2. PICK new \in RunRecord :
           /\ run' = [run EXCEPT ![r] = new]
           /\ new.phase = phase
           /\ run[r].script = "fetch" => new.script = "fetch" /\ new.token = run[r].token
           /\ run[r].script # "fetch" => new.script = "none"
  BY <1>1, GotoEnd DEF DataInv
<1>3. RunInv(r)'
  BY <1>1, <1>2, NewRunInv
<1>. QED
  BY <1>1, <1>2, <1>3, QuietStep DEF DataInv, DataTypes, Refreshing

LEMMA StartInv == ASSUME DataInv, NEW r \in Runs, Start(r) PROVE DataInv'
<1>1. PICK script \in Scripts, token \in Instruments \cup {Unlisted} :
         /\ script = "universe" => token = Wanted
         /\ run' = [run EXCEPT ![r].phase = "credentials", ![r].script = script, ![r].token = token]
  BY DEF Start
<1>2. PICK old \in RunRecord : old = run[r]
  BY DEF DataInv, DataTypes
<1> DEFINE new == [old EXCEPT !.phase = "credentials", !.script = script, !.token = token]
<1>3. new \in RunRecord /\ new.phase = "credentials" /\ new.script = script /\ new.token = token
  BY DEF RunRecord, Phases
<1>4. run' = [run EXCEPT ![r] = new]
  BY <1>1, <1>2
<1> HIDE DEF new
<1>5. run[r].phase = "idle" /\ run[r].script = "none"
  BY DEF Start, At, DataInv, RunInv, TokenInv
<1>6. RunInv(r)'
  BY <1>1, <1>3, <1>4, NewRunInv DEF Refreshing, WritePhases
<1>. QED
  BY <1>3, <1>4, <1>5, <1>6, QuietStep
     DEF Start, fileVars, history, DataInv, DataTypes, Writing, WritePhases

LEMMA ResolveInv ==
  ASSUME LoginInv, DataInv, NEW r \in Runs, Resolve(r),
         run[r].script \in {"daily", "universe", "fetch"}
  PROVE  DataInv'
<1>1. /\ ~Writing(r) /\ UNCHANGED <<files, temps, handle, lost, mixed, cut, backups>>
      /\ run[r].phase = "credentials"
  BY DEF Resolve, At, Writing, WritePhases, fileVars, history
<1>2. PICK old \in RunRecord : old = run[r]
  BY DEF DataInv, DataTypes
<1>3. run[r].script = "universe" => run[r].token = Wanted
  BY DEF DataInv, RunInv, TokenInv
<1>4. CASE run' = [run EXCEPT ![r].phase = AfterCredentials(run[r].script),
                              ![r].issued = LoadedSession.issued]
  <2>1. PICK phase \in {"verify", "backup", "fetch"}, issued \in 0..MaxDay :
          /\ phase = AfterCredentials(run[r].script)
          /\ phase = "backup" => run[r].script = "universe"
          /\ phase = "fetch" => run[r].script = "fetch"
          /\ issued = LoadedSession.issued
    <3>1. AfterCredentials("daily") = "verify" /\ AfterCredentials("universe") = "backup"
          /\ AfterCredentials("fetch") = "fetch"
      BY DEF AfterCredentials
    <3>2. session.issued \in 0..MaxDay
      <4>1. CASE session \in Session
        BY <4>1 DEF Session
      <4>2. CASE session = NoSession
        BY <4>2, MaxDayAssumption DEF NoSession
      <4>. QED
        BY <4>1, <4>2 DEF LoginInv, LoginTypeOK
    <3>. QED
      BY <3>1, <3>2 DEF LoadedSession
  <2> DEFINE new == [old EXCEPT !.phase = phase, !.issued = issued]
  <2>2. /\ new \in RunRecord /\ new.phase = phase
        /\ new.script = old.script /\ new.token = old.token
    BY DEF RunRecord, Phases
  <2>3. run' = [run EXCEPT ![r] = new]
    BY <1>2, <1>4, <2>1
  <2> HIDE DEF new
  <2>4. RunInv(r)'
    BY <1>2, <1>3, <2>1, <2>2, <2>3, NewRunInv DEF Refreshing, WritePhases
  <2>. QED
    BY <1>1, <1>2, <2>2, <2>3, <2>4, QuietStep DEF DataInv, DataTypes, WritePhases
<1>5. CASE Goto(r, "login")
  <2>0. "login" \in Phases /\ "login" \notin Ended
    BY DEF Phases, Ended
  <2>1. PICK new \in RunRecord :
           /\ run' = [run EXCEPT ![r] = new] /\ new.phase = "login"
           /\ new.script = run[r].script /\ new.token = run[r].token
    BY <1>5, <2>0, GotoOn DEF DataInv
  <2>2. RunInv(r)'
    BY <1>3, <2>1, NewRunInv DEF Refreshing, WritePhases
  <2>. QED
    BY <1>1, <2>1, <2>2, QuietStep DEF DataInv, DataTypes, WritePhases
<1>6. CASE Goto(r, "failed")
  BY <1>1, <1>6, EndedInv DEF DataInv, DataTypes, Ended
<1>. QED
  BY <1>4, <1>5, <1>6 DEF Resolve

LEMMA LoggedInInv ==
  ASSUME LoginInv, DataInv, NEW r \in Runs, LoggedIn(r), run[r].script = "daily"
  PROVE  DataInv'
<1>1. /\ ~Writing(r) /\ UNCHANGED <<files, temps, handle, lost, mixed, cut, backups>>
  BY DEF LoggedIn, At, Writing, WritePhases, fileVars, history
<1>2. PICK old \in RunRecord, issued \in 0..MaxDay : old = run[r] /\ issued = login.issued
  BY LoginParts DEF DataInv, DataTypes
<1>3. CASE run' = [run EXCEPT ![r].phase = "verify", ![r].issued = login.issued]
  <2> DEFINE new == [old EXCEPT !.phase = "verify", !.issued = issued]
  <2>2. /\ new \in RunRecord /\ new.phase = "verify"
        /\ new.script = "daily" /\ new.token = old.token
    BY <1>2 DEF RunRecord, Phases
  <2>3. run' = [run EXCEPT ![r] = new]
    BY <1>2, <1>3
  <2> HIDE DEF new
  <2>4. RunInv(r)'
    BY <2>2, <2>3, NewRunInv DEF Refreshing, WritePhases
  <2>. QED
    BY <1>1, <2>2, <2>3, <2>4, QuietStep DEF DataInv, DataTypes, WritePhases
<1>4. CASE Goto(r, "failed")
  BY <1>1, <1>4, EndedInv DEF DataInv, DataTypes, Ended
<1>. QED
  BY <1>3, <1>4 DEF LoggedIn

LEMMA VerifyInv ==
  ASSUME DataInv, NEW r \in Runs, Verify(r), run[r].script = "daily" PROVE DataInv'
<1>1. /\ ~Writing(r) /\ UNCHANGED <<files, temps, handle, lost, mixed, cut, backups>>
  BY DEF Verify, At, Writing, WritePhases, fileVars, history
<1>2. CASE Goto(r, "backup") /\ run[r].token = Wanted
  <2>0. "backup" \in Phases /\ "backup" \notin Ended
    BY DEF Phases, Ended
  <2>1. PICK new \in RunRecord :
           /\ run' = [run EXCEPT ![r] = new] /\ new.phase = "backup"
           /\ new.script = run[r].script /\ new.token = run[r].token
    BY <1>2, <2>0, GotoOn DEF DataInv
  <2>2. RunInv(r)'
    BY <1>2, <2>1, NewRunInv DEF Refreshing, WritePhases
  <2>. QED
    BY <1>1, <2>1, <2>2, QuietStep DEF DataInv, DataTypes, WritePhases
<1>3. CASE Goto(r, "failed")
  BY <1>1, <1>3, EndedInv DEF DataInv, DataTypes, Ended
<1>. QED
  BY <1>2, <1>3 DEF Verify, Matches

LEMMA BackupStepInv ==
  ASSUME DataInv, NEW r \in Runs, Backup(r), run[r].script # "fetch" PROVE DataInv'
<1>1. /\ ~Writing(r) /\ UNCHANGED <<files, temps, handle, lost, mixed, cut>>
      /\ backups' = backups \cup BackedUp(files) /\ run[r].phase = "backup"
  BY DEF Backup, At, Writing, WritePhases, fileVars, history
<1>2. PICK old \in RunRecord : old = run[r]
  BY DEF DataInv, DataTypes
<1> DEFINE new == [old EXCEPT !.phase = "fetch", !.stale = FALSE]
<1>3. /\ new \in RunRecord /\ new.phase = "fetch"
      /\ new.script = old.script /\ new.token = old.token
  BY DEF RunRecord, Phases
<1>4. run' = [run EXCEPT ![r] = new]
  BY <1>2 DEF Backup
<1> HIDE DEF new
<1>5. files["data"] \in Content
  BY DEF DataInv, DataTypes, Kinds
<1>6. /\ files'["data"] \in backups' \cup {NoFile, Torn}
      /\ backups' \subseteq Dataset /\ backups \subseteq backups'
  BY <1>1, <1>5 DEF BackedUp, DataInv, DataTypes, Content
<1>7. run[r].token = Wanted
  BY <1>1 DEF DataInv, RunInv, TokenInv
<1>8. RunInv(r)'
  BY <1>2, <1>3, <1>4, <1>6, <1>7, NewRunInv DEF Refreshing, WritePhases
<1>. QED
  BY <1>1, <1>2, <1>3, <1>4, <1>6, <1>8, QuietStep DEF DataInv, DataTypes, WritePhases

LEMMA LoadInv ==
  ASSUME DataInv, NEW r \in Runs, Load(r), run[r].script = "daily" PROVE DataInv'
<1>1. /\ ~Writing(r) /\ UNCHANGED <<files, temps, handle, lost, mixed, cut, backups>>
  BY DEF Load, At, Writing, WritePhases, fileVars, history
<1>2. CASE Goto(r, "failed")
  BY <1>1, <1>2, EndedInv DEF DataInv, DataTypes, Ended
<1>3. CASE run' = [run EXCEPT ![r].phase = "report", ![r].content = files["data"]]
  <2>1. PICK old \in RunRecord, content \in Content : old = run[r] /\ content = files["data"]
    BY DEF DataInv, DataTypes, Kinds
  <2> DEFINE new == [old EXCEPT !.phase = "report", !.content = content]
  <2>2. /\ new \in RunRecord /\ new.phase = "report"
        /\ new.script = "daily" /\ new.token = old.token
    BY <2>1 DEF RunRecord, Phases
  <2>3. run' = [run EXCEPT ![r] = new]
    BY <1>3, <2>1
  <2> HIDE DEF new
  <2>4. RunInv(r)'
    BY <2>2, <2>3, NewRunInv DEF Refreshing, WritePhases
  <2>. QED
    BY <1>1, <2>2, <2>3, <2>4, QuietStep DEF DataInv, DataTypes, WritePhases
<1>. QED
  BY <1>2, <1>3 DEF Load

LEMMA ReportInv == ASSUME DataInv, NEW r \in Runs, Report(r) PROVE DataInv'
<1>1. /\ ~Writing(r) /\ UNCHANGED <<files, temps, handle, lost, mixed, cut, backups>>
      /\ Goto(r, "done")
  BY DEF Report, At, Writing, WritePhases, fileVars, history
<1>. QED
  BY <1>1, EndedInv DEF DataInv, DataTypes, Ended

-----------------------------------------------------------------------------
(* What is fetched and passes validate_bars *)

Candles == {Sound(date) : date \in Int} \cup {Unsound(date) : date \in Int}

\* The chunks cover dates, at least one each.
LEMMA ChunkDates ==
  ASSUME NEW end \in FirstDate..LastDate
  PROVE  /\ Len(Chunks(FirstDate, end)) \in Nat
         /\ DOMAIN Chunks(FirstDate, end) = 1..Len(Chunks(FirstDate, end))
         /\ \A n \in DOMAIN Chunks(FirstDate, end) :
              LET chunk == Chunks(FirstDate, end)[n]
              IN chunk.first \in Int /\ chunk.last \in Int /\ chunk.first <= chunk.last
<1> DEFINE count == (end - FirstDate) \div MaxSpan + 1
           first(n) == FirstDate + (n - 1) * MaxSpan
           last(n) == IF first(n) + MaxSpan - 1 < end THEN first(n) + MaxSpan - 1 ELSE end
<1>1. /\ FirstDate \in Nat /\ end \in Nat /\ end - FirstDate \in Nat
      /\ MaxSpan \in Nat \ {0}
  BY DatesAssumption, MaxSpanAssumption
<1>2. count \in Nat
  BY <1>1
<1>3. Chunks(FirstDate, end) = [n \in 1..count |-> [first |-> first(n), last |-> last(n)]]
  BY DEF Chunks
<1>4. ASSUME NEW n \in 1..count
      PROVE  first(n) \in Int /\ last(n) \in Int /\ first(n) <= last(n)
  <2>1. n - 1 \in 0..(end - FirstDate) \div MaxSpan
    BY <1>1, <1>2
  <2>2. (n - 1) * MaxSpan <= end - FirstDate
    BY <1>1, <2>1, MultipleFits
  <2>3. (n - 1) * MaxSpan \in Int
    BY <1>1
  <2>. QED
    BY <1>1, <2>2, <2>3
<1> HIDE DEF count, first, last
<1>. QED
  BY <1>2, <1>3, <1>4

\* A good answer is a sequence of candles, as long as its chunk.
LEMMA GoodCandles ==
  ASSUME NEW first \in Int, NEW last \in Int, first <= last
  PROVE  LET sound == [n \in 1..last - first + 1 |-> Sound(first + n - 1)]
         IN /\ sound \in Seq(Candles)
            /\ Len(sound) = last - first + 1
            /\ Len(sound) # 0
<1> DEFINE m == last - first + 1
           sound == [n \in 1..m |-> Sound(first + n - 1)]
<1>1. m \in Nat /\ m # 0
  OBVIOUS
<1>2. \A n \in 1..m : Sound(first + n - 1) \in Candles
  BY DEF Candles
<1>3. sound \in [1..m -> Candles]
  BY <1>2
<1> HIDE DEF m, sound
<1>4. sound \in Seq(Candles) /\ Len(sound) = m
  <2>1. DOMAIN sound = 1..m
    BY <1>3
  <2>. QED
    BY <1>1, <1>3, <2>1
<1>. QED
  BY <1>1, <1>4 DEF m, sound

LEMMA AnswerCandles ==
  ASSUME NEW chunk, chunk.first \in Int, chunk.last \in Int, chunk.first <= chunk.last,
         NEW answer \in Answers(chunk)
  PROVE  answer \in Seq(Candles)
<1> DEFINE sound == [n \in 1..chunk.last - chunk.first + 1 |-> Sound(chunk.first + n - 1)]
<1>1. sound \in Seq(Candles) /\ Len(sound) # 0
  BY GoodCandles
<1>2. answer \in {sound, <<>>, Append(sound, Last(sound)), Reverse(sound),
                  [sound EXCEPT ![1] = Unsound(chunk.first)]}
  BY DEF Answers
<1> HIDE DEF sound
<1>3. Len(sound) \in Nat \ {0} /\ DOMAIN sound = 1..Len(sound)
      /\ \A n \in 1..Len(sound) : sound[n] \in Candles
  BY <1>1
<1>4. Append(sound, Last(sound)) \in Seq(Candles)
  BY <1>1, <1>3 DEF Last
<1>5. Reverse(sound) \in Seq(Candles)
  BY <1>1, <1>3 DEF Reverse
<1>6. [sound EXCEPT ![1] = Unsound(chunk.first)] \in Seq(Candles)
  <2>1. Unsound(chunk.first) \in Candles /\ 1 \in 1..Len(sound)
    BY <1>3 DEF Candles
  <2>. QED
    BY <1>1, <2>1, ExceptSeq
<1>7. <<>> \in Seq(Candles)
  OBVIOUS
<1>. QED
  BY <1>1, <1>2, <1>4, <1>5, <1>6, <1>7

LEMMA BarMade ==
  ASSUME NEW candle \in Candles
  PROVE  /\ ToBar(candle) \in Bar
         /\ candle.date \in Int
         /\ \/ candle = Sound(candle.date)
            \/ ToBar(candle).open = 2 /\ ToBar(candle).close = 2 /\ ToBar(candle).high = 1
         /\ ToBar(candle).date = candle.date
<1>1. ASSUME NEW date \in Int, candle = Sound(date)
      PROVE  /\ ToBar(candle) \in Bar
             /\ candle.date = date
  BY <1>1 DEF Sound, ToBar, Bar
<1>2. ASSUME NEW date \in Int, candle = Unsound(date)
      PROVE  /\ ToBar(candle) \in Bar
             /\ candle.date = date
             /\ ToBar(candle).open = 2 /\ ToBar(candle).close = 2 /\ ToBar(candle).high = 1
  BY <1>2 DEF Unsound, Sound, ToBar, Bar
<1>3. ToBar(candle).date = candle.date
  BY DEF ToBar
<1>4. CASE \E date \in Int : candle = Sound(date)
  <2>1. PICK date \in Int : candle = Sound(date)
    BY <1>4
  <2>2. candle.date = date /\ ToBar(candle) \in Bar
    BY <1>1, <2>1
  <2>. QED
    BY <1>3, <2>1, <2>2
<1>5. CASE \E date \in Int : candle = Unsound(date)
  BY <1>2, <1>3, <1>5
<1>. QED
  BY <1>4, <1>5 DEF Candles

\* Whatever the broker answers, what comes out of historical_bars is made of
\* its candles.
LEMMA FetchedBars ==
  ASSUME NEW end \in FirstDate..LastDate, NEW fetched \in Fetches(end)
  PROVE  /\ fetched \in Seq(Bar)
         /\ \A n \in DOMAIN fetched : \E candle \in Candles : fetched[n] = ToBar(candle)
<1> DEFINE chunks == Chunks(FirstDate, end)
           good(chunk) == [n \in 1..chunk.last - chunk.first + 1 |-> Sound(chunk.first + n - 1)]
           parts(odd, answer) ==
             [n \in DOMAIN chunks |-> IF n = odd THEN answer ELSE good(chunks[n])]
<1> DEFINE made(odd, answer) == LET all == FlattenSeq(parts(odd, answer))
                               IN [n \in DOMAIN all |-> ToBar(all[n])]
<1>0. fetched \in UNION {{made(odd, answer) : answer \in Answers(chunks[odd])} :
                           odd \in DOMAIN chunks}
  BY DEF Fetches
<1>8. PICK odd \in DOMAIN chunks : fetched \in {made(odd, answer) : answer \in Answers(chunks[odd])}
  <2> HIDE DEF made, chunks
  <2>. QED
    BY <1>0
<1>1. PICK answer \in Answers(chunks[odd]) : fetched = made(odd, answer)
  <2> HIDE DEF made, chunks
  <2>. QED
    BY <1>8
<1>2. parts(odd, answer) \in Seq(Seq(Candles))
  <2>1. ASSUME NEW n \in DOMAIN chunks
        PROVE  parts(odd, answer)[n] \in Seq(Candles)
    BY ChunkDates, AnswerCandles, GoodCandles
  <2>2. DOMAIN parts(odd, answer) = 1..Len(chunks) /\ Len(chunks) \in Nat
    BY ChunkDates
  <2>. QED
    BY <2>1, <2>2
<1> DEFINE all == FlattenSeq(parts(odd, answer))
<1>3. all \in Seq(Candles)
  BY <1>2, FlattenElements
<1>4. fetched = [n \in DOMAIN all |-> ToBar(all[n])]
  BY <1>1
<1> HIDE DEF all
<1>5. DOMAIN all = 1..Len(all) /\ Len(all) \in Nat /\ \A n \in DOMAIN all : all[n] \in Candles
  BY <1>3
<1>6. fetched \in Seq(Bar)
  BY <1>4, <1>5, BarMade
<1>. QED
  BY <1>4, <1>5, <1>6

\* Dates that increase from each bar to the next increase throughout.
LEMMA Increasing ==
  ASSUME NEW fetched \in Seq(Bar), IsValid(fetched)
  PROVE  \A n, m \in DOMAIN fetched : n < m => fetched[n].date < fetched[m].date
<1>1. /\ DOMAIN fetched = 1..Len(fetched) /\ Len(fetched) \in Nat
      /\ \A n \in DOMAIN fetched : fetched[n].date \in Int
      /\ \A n \in DOMAIN fetched : n > 1 => fetched[n - 1].date < fetched[n].date
  <2>1. DOMAIN fetched = 1..Len(fetched) /\ Len(fetched) \in Nat
    OBVIOUS
  <2>2. \A n \in DOMAIN fetched : fetched[n].date \in Int
    <3>1. \A n \in DOMAIN fetched : fetched[n] \in Bar
      BY <2>1
    <3>2. \A b \in Bar : b.date \in Int
      BY DEF Bar
    <3>. QED
      BY <3>1, <3>2
  <2>3. \A n \in DOMAIN fetched : ~(n > 1 /\ fetched[n].date <= fetched[n - 1].date)
    BY DEF IsValid, Issues
  <2>4. ASSUME NEW n \in DOMAIN fetched, n > 1 PROVE fetched[n - 1].date < fetched[n].date
    <3>1. n - 1 \in DOMAIN fetched
      BY <2>1, <2>4
    <3>. QED
      BY <2>2, <2>3, <2>4, <3>1
  <2>. QED
    BY <2>1, <2>2, <2>4
<1> SUFFICES ASSUME NEW n \in DOMAIN fetched,
                    {m \in DOMAIN fetched : n < m /\ ~(fetched[n].date < fetched[m].date)} # {}
             PROVE  FALSE
  OBVIOUS
<1> DEFINE T == {m \in DOMAIN fetched : n < m /\ ~(fetched[n].date < fetched[m].date)}
<1>2. T \subseteq Nat
  BY <1>1
<1>3. PICK m \in T : \A k \in T : m <= k
  BY <1>2, LeastNat
<1>4. m > 1 /\ m - 1 \in DOMAIN fetched /\ m - 1 \notin T
  BY <1>1, <1>3
<1>5. fetched[m - 1].date < fetched[m].date
  BY <1>1, <1>4
<1>6. fetched[m].date <= fetched[n].date
  BY <1>1
<1>7. CASE m - 1 = n
  BY <1>1, <1>5, <1>6, <1>7
<1>8. CASE m - 1 # n
  <2>1. fetched[n].date < fetched[m - 1].date
    BY <1>1, <1>4, <1>8
  <2>. QED
    BY <1>1, <1>4, <1>5, <1>6, <2>1
<1>. QED
  BY <1>7, <1>8

\* validate_bars lets only usable bars through.
LEMMA FetchedIsUsable ==
  ASSUME NEW end \in FirstDate..LastDate, NEW fetched \in ValidFetches[end], NEW of \in Instruments
  PROVE  LET content == [of |-> of, bars |-> fetched]
         IN content \in Dataset /\ IsUsable(content)
<1> DEFINE content == [of |-> of, bars |-> fetched]
<1>1. fetched \in Fetches(end) /\ IsValid(fetched)
  BY DEF ValidFetches
<1>2. /\ fetched \in Seq(Bar)
      /\ \A n \in DOMAIN fetched : \E candle \in Candles : fetched[n] = ToBar(candle)
  BY <1>1, FetchedBars
<1>3. \A n, m \in DOMAIN fetched : n < m => fetched[n].date < fetched[m].date
  BY <1>1, <1>2, Increasing
<1>4. fetched # <<>>
  BY <1>1 DEF IsValid, Issues
<1>5. ASSUME NEW n \in DOMAIN fetched PROVE fetched[n] = ToBar(Sound(fetched[n].date))
  <2>1. PICK candle \in Candles : fetched[n] = ToBar(candle)
    BY <1>2
  <2>2. ~(fetched[n].high < IF fetched[n].open > fetched[n].close
                            THEN fetched[n].open ELSE fetched[n].close)
    BY <1>1 DEF IsValid, Issues
  <2>. QED
    BY <2>1, <2>2, BarMade
<1>6. content \in Dataset /\ IsContent(content)
  <2>1. DOMAIN fetched = 1..Len(fetched) /\ \A n \in DOMAIN fetched : fetched[n] \in Bar
    BY <1>2
  <2>. QED
    BY <1>2, <2>1 DEF Dataset, IsContent
<1>7. IsUsable(content)
  BY <1>3, <1>4, <1>5, <1>6 DEF IsUsable
<1>. QED
  BY <1>6, <1>7

-----------------------------------------------------------------------------
(* The refresh, step by step *)

\* What validate_bars lets through is usable, and is of the token asked for.
LEMMA FetchInv ==
  ASSUME LoginInv, DataInv, NEW r \in Runs, Fetch(r) PROVE DataInv'
<1>1. /\ ~Writing(r) /\ UNCHANGED <<files, temps, handle, lost, mixed, cut, backups>>
      /\ run[r].phase = "fetch"
  BY DEF Fetch, At, Writing, WritePhases, fileVars, history
<1>2. CASE Goto(r, "failed")
  BY <1>1, <1>2, EndedInv DEF DataInv, DataTypes, Ended
<1>3. ASSUME run[r].token \in Instruments, NEW fetched \in ValidFetches[FirstDate + day],
             run' = [run EXCEPT ![r].phase = "open data",
                                ![r].content = [of |-> run[r].token, bars |-> fetched]]
      PROVE  DataInv'
  <2>1. FirstDate + day \in FirstDate..LastDate
    BY LoginParts, DateBound, DatesAssumption, MaxDayAssumption
  <2>2. PICK old \in RunRecord : old = run[r]
    BY DEF DataInv, DataTypes
  <2>3. PICK content \in Dataset :
           /\ content = [of |-> run[r].token, bars |-> fetched]
           /\ IsUsable(content) /\ content.of = old.token
    <3> DEFINE content == [of |-> run[r].token, bars |-> fetched]
    <3>1. content.of = old.token
      BY <2>2
    <3>2. content \in Dataset /\ IsUsable(content)
      BY <1>3, <2>1, FetchedIsUsable
    <3> HIDE DEF content
    <3>. QED
      BY <3>1, <3>2 DEF content
  <2> DEFINE new == [old EXCEPT !.phase = "open data", !.content = content]
  <2>4. /\ new \in RunRecord /\ new.phase = "open data" /\ new.content = content
        /\ new.script = old.script /\ new.token = old.token
        /\ new.stale = old.stale /\ new.alone = old.alone
    BY DEF RunRecord, Phases, Content
  <2>5. run' = [run EXCEPT ![r] = new]
    BY <1>3, <2>2, <2>3
  <2> HIDE DEF new
  <2>6. run'[r] = new
    BY <2>5 DEF DataInv, DataTypes
  <2>7. TokenInv(r) /\ BackupInv(r)
    BY DEF DataInv, RunInv
  <2>8. TokenInv(r)'
    BY <1>1, <2>2, <2>3, <2>4, <2>6, <2>7 DEF TokenInv
  <2>9. AloneInv(r)'
    BY <2>4, <2>6 DEF AloneInv
  <2>10. BackupInv(r)'
    BY <1>1, <2>2, <2>4, <2>6, <2>7 DEF BackupInv, Restorable
  <2>11. RunInv(r)'
    BY <2>4, <2>6, <2>8, <2>9, <2>10 DEF RunInv, MovedInv
  <2>. QED
    BY <1>1, <2>2, <2>4, <2>5, <2>11, QuietStep DEF DataInv, DataTypes, WritePhases
<1>. QED
  BY <1>2, <1>3 DEF Fetch

\* The file is opened: what it held is no longer there, and the run is among
\* those that write.
LEMMA OpenDataInv == ASSUME DataInv, NEW r \in Runs, OpenData(r) PROVE DataInv'
<1> DEFINE others == {s \in Runs \ {r} : Writing(s)}
<1>1. /\ run[r].phase = "open data"
      /\ temps' = [temps EXCEPT !["data"] = Torn]
      /\ handle' = [handle EXCEPT ![r] = "temp"]
      /\ UNCHANGED <<files, backups, lost, mixed, cut>>
  BY DEF OpenData, At, Open, history
<1>2. PICK old \in RunRecord : old = run[r]
  BY DEF DataInv, DataTypes
<1> DEFINE new == [old EXCEPT !.phase = "fill data", !.alone = (others = {})]
<1>3. /\ new \in RunRecord /\ new.phase = "fill data" /\ new.alone = (others = {})
      /\ new.script = old.script /\ new.token = old.token /\ new.content = old.content
      /\ new.stale = old.stale
  BY DEF RunRecord, Phases, WritePhases
<1>4. /\ run'[r] = new
      /\ \A s \in others : run'[s] = [run[s] EXCEPT !.alone = FALSE]
      /\ \A s \in Runs \ {r} : s \notin others => run'[s] = run[s]
      /\ DOMAIN run' = Runs
      /\ run' = [s \in Runs |-> run'[s]]
  BY <1>2 DEF OpenData
<1> HIDE DEF new
<1>5. \A s \in Runs \ {r} :
        /\ run'[s] \in RunRecord
        /\ run'[s].phase = run[s].phase /\ run'[s].script = run[s].script
        /\ run'[s].token = run[s].token /\ run'[s].content = run[s].content
        /\ run'[s].stale = run[s].stale
        /\ run'[s].alone = (run[s].alone /\ s \notin others)
  <2>1. ASSUME NEW s \in Runs \ {r}
        PROVE  /\ run'[s] \in RunRecord
               /\ run'[s].phase = run[s].phase /\ run'[s].script = run[s].script
               /\ run'[s].token = run[s].token /\ run'[s].content = run[s].content
               /\ run'[s].stale = run[s].stale
               /\ run'[s].alone = (run[s].alone /\ s \notin others)
    <3>1. PICK own \in RunRecord : own = run[s]
      BY DEF DataInv, DataTypes
    <3>2. CASE s \in others
      <4>1. run'[s] = [own EXCEPT !.alone = FALSE]
        BY <1>4, <3>1, <3>2
      <4>2. /\ [own EXCEPT !.alone = FALSE] \in RunRecord
            /\ [own EXCEPT !.alone = FALSE].alone = FALSE
        BY DEF RunRecord
      <4>3. LET kept == [own EXCEPT !.alone = FALSE]
            IN /\ kept.phase = own.phase /\ kept.script = own.script /\ kept.token = own.token
               /\ kept.content = own.content /\ kept.stale = own.stale
        BY DEF RunRecord
      <4>. QED
        BY <3>1, <3>2, <4>1, <4>2, <4>3
    <3>3. CASE s \notin others
      BY <1>4, <3>1, <3>3 DEF RunRecord
    <3>. QED
      BY <3>2, <3>3
  <2>. QED
    BY <2>1
<1>6. DataTypes'
  <2>1. run' \in [Runs -> RunRecord]
    BY <1>3, <1>4, <1>5
  <2>2. "data" \in Kinds /\ Torn \in Content
    BY DEF Kinds, Content
  <2>. QED
    BY <1>1, <2>1, <2>2 DEF DataInv, DataTypes
<1>7. \A s \in Runs \ {r} : KeptBy(s)
  BY <1>1, <1>5 DEF KeptBy, DataInv, DataTypes, RunInv, MovedInv
<1>8. TokenInv(r) /\ BackupInv(r)
  BY DEF DataInv, RunInv
<1>9. RunInv(r)'
  <2>1. TokenInv(r)'
    BY <1>1, <1>2, <1>3, <1>4, <1>8 DEF TokenInv, Refreshing, WritePhases
  <2>2. AloneInv(r)'
    BY <1>1, <1>3, <1>4 DEF AloneInv, DataInv, DataTypes
  <2>3. BackupInv(r)'
    BY <1>1, <1>2, <1>3, <1>4, <1>8 DEF BackupInv, Restorable
  <2>4. MovedInv(r)'
    BY <1>1 DEF MovedInv, DataInv, DataTypes
  <2>. QED
    BY <2>1, <2>2, <2>3, <2>4 DEF RunInv
<1>10. /\ \A s \in Runs : RunInv(s)'
       /\ Apart'
       /\ Known(files["data"])' /\ Known(temps["data"])'
  <2>1. \A s \in Runs \ {r} : Writing(s) => ~run'[s].alone /\ ~run'[r].alone
    BY <1>3, <1>4, <1>5
  <2>2. temps'["data"] = Torn
    BY <1>1 DEF DataInv, DataTypes, Kinds
  <2>. QED
    BY <1>1, <1>2, <1>3, <1>4, <1>7, <1>9, <2>1, <2>2, MarksKnown, RunsStep
<1>11. Entangled => Entangled'
  <2>1. \A s \in Runs : Writing(s) /\ ~run[s].alone => Writing(s)' /\ ~run'[s].alone
    BY <1>1, <1>5 DEF Writing, WritePhases
  <2>. QED
    BY <1>1, <2>1 DEF Entangled
<1>12. IsTrue' /\ ReplacedIsBackedUp'
  BY <1>1, <1>11 DEF DataInv, IsTrue, ReplacedIsBackedUp
<1>13. ManifestDescribesData'
  <2>1. \A s \in Runs : run[s].phase \in {"write manifest", "swap manifest"} =>
          run'[s].phase \in {"write manifest", "swap manifest"}
    BY <1>1, <1>5
  <2>. QED
    BY <1>1, <1>11, <2>1 DEF DataInv, ManifestDescribesData
<1>. QED
  BY <1>6, <1>10, <1>12, <1>13 DEF DataInv

\* A run whose dataset another run has replaced keeps all but that mark.
LEMMA StaledKept ==
  ASSUME DataTypes, NEW s \in Runs
  PROVE  /\ Staled(s) \in RunRecord
         /\ Staled(s).phase = run[s].phase /\ Staled(s).script = run[s].script
         /\ Staled(s).token = run[s].token /\ Staled(s).content = run[s].content
         /\ Staled(s).alone = run[s].alone
         /\ run[s].phase \in Restorable => Staled(s).stale
<1> DEFINE stale == run[s].phase \in {"fetch", "open data"} \cup WritePhases
<1>0. stale \in BOOLEAN
  OBVIOUS
<1>4. run[s].phase \in Restorable => stale
  BY DEF Restorable, WritePhases
<1>1. PICK own \in RunRecord : own = run[s]
  BY DEF DataTypes
<1> DEFINE new == [own EXCEPT !.stale = stale]
<1>2. Staled(s) = new
  BY <1>1 DEF Staled
<1> HIDE DEF stale
<1>3. /\ new \in RunRecord /\ new.phase = own.phase /\ new.script = own.script
      /\ new.token = own.token /\ new.content = own.content /\ new.alone = own.alone
      /\ new.stale = stale
  BY <1>0 DEF RunRecord
<1> HIDE DEF new
<1>. QED
  BY <1>4, <1>1, <1>2, <1>3

\* A run that replaces what others count on: they know it.
LEMMA StaledStep ==
  ASSUME DataInv, NEW r \in Runs, Writing(r), NEW s \in Runs \ {r},
         run'[s] = Staled(s), backups' = backups
  PROVE  KeptBy(s)
<1>1. Writing(s) => ~run[s].alone
  BY DEF DataInv, Apart
<1>. QED
  BY <1>1, StaledKept DEF DataInv, KeptBy, Restorable

\* The step of a run that writes on, whatever it does to the others.
LEMMA WriteStep ==
  ASSUME DataInv, NEW r \in Runs, Writing(r), NEW new \in RunRecord, run'[r] = new,
         run' = [s \in Runs |-> run'[s]],
         \A s \in Runs \ {r} : run'[s] \in RunRecord /\ KeptBy(s),
         files' \in [Kinds -> Content], temps' \in [Kinds -> Content],
         handle' \in [Runs -> {"closed", "temp", "destination", "gone"}],
         UNCHANGED <<backups, mixed, cut>>, lost' = {}, RunInv(r)',
         new.phase \in WritePhases, new.script = run[r].script, new.token = run[r].token,
         new.alone = run[r].alone,
         files'["data"] = files["data"] \/ Known(files'["data"]),
         temps'["data"] = temps["data"] \/ Known(temps'["data"]),
         ~run[r].alone \/ IsTrue', ~run[r].alone \/ ManifestDescribesData'
  PROVE  DataInv'
<1>1. DataTypes'
  <2>1. run' \in [Runs -> RunRecord]
    <3>1. \A s \in Runs : run'[s] \in RunRecord
      OBVIOUS
    <3>. QED
      BY <3>1
  <2>. QED
    BY <2>1 DEF DataInv, DataTypes
<1>2. /\ \A s \in Runs : RunInv(s)'
      /\ Apart'
      /\ Known(files["data"])' /\ Known(temps["data"])'
  BY RunsStep
<1>3. ~run[r].alone => Entangled'
  BY DEF Entangled, Writing
<1>4. IsTrue' /\ ManifestDescribesData' /\ ReplacedIsBackedUp'
  BY <1>3 DEF IsTrue, ManifestDescribesData, ReplacedIsBackedUp
<1>. QED
  BY <1>1, <1>2, <1>4 DEF DataInv

LEMMA WriterFacts ==
  ASSUME DataInv, NEW r \in Runs, Writing(r)
  PROVE  /\ run[r].content \in Content /\ IsUsable(run[r].content) /\ Known(run[r].content)
         /\ run[r] \in RunRecord
<1>1. run[r].phase \in Refreshing
  BY DEF Writing, Refreshing
<1>2. RunInv(r) /\ run[r] \in RunRecord
  BY DEF DataInv, DataTypes
<1>3. IsUsable(run[r].content)
  BY <1>1, <1>2 DEF RunInv, TokenInv
<1>. QED
  BY <1>1, <1>2, <1>3, ContentKnown DEF RunRecord

\* The content goes where the file is by now.
LEMMA FillDataInv == ASSUME DataInv, NEW r \in Runs, FillData(r) PROVE DataInv'
<1>1. /\ run[r].phase = "fill data" /\ Writing(r)
      /\ Fill(r, "data", run[r].content)
      /\ UNCHANGED <<backups, lost, mixed, cut>>
  BY DEF FillData, At, Writing, WritePhases, history
<1>2. PICK old \in RunRecord : old = run[r]
  BY DEF DataInv, DataTypes
<1> DEFINE new == [old EXCEPT !.phase = "swap data"]
<1>3. /\ new \in RunRecord /\ new.phase = "swap data" /\ new.alone = old.alone
      /\ new.script = old.script /\ new.token = old.token /\ new.content = old.content
      /\ new.stale = old.stale
  BY DEF RunRecord, Phases, WritePhases
<1>4. /\ run'[r] = new
      /\ \A s \in Runs \ {r} : run'[s] = IF handle[r] = "destination" THEN Staled(s) ELSE run[s]
      /\ run' = [s \in Runs |-> run'[s]]
  BY <1>2 DEF FillData
<1> HIDE DEF new
<1>5. "data" \in Kinds /\ run[r].content \in Content /\ Known(run[r].content)
  BY <1>1, WriterFacts DEF Kinds
<1>6. /\ files' \in [Kinds -> Content] /\ temps' \in [Kinds -> Content]
      /\ handle' \in [Runs -> {"closed", "temp", "destination", "gone"}]
      /\ \A s \in Runs \ {r} : handle'[s] = handle[s]
  BY <1>1, <1>5 DEF DataInv, DataTypes, Fill
<1>7. ASSUME NEW s \in Runs \ {r} PROVE run'[s] \in RunRecord /\ KeptBy(s)
  <2>1. CASE handle[r] = "destination"
    BY <1>1, <1>4, <2>1, StaledStep, StaledKept DEF DataInv
  <2>2. CASE handle[r] # "destination"
    <3>1. run'[s] = run[s] /\ run[s] \in RunRecord /\ files' = files /\ handle'[s] = handle[s]
      BY <1>1, <1>4, <1>6, <2>2 DEF Fill, DataInv, DataTypes
    <3>2. Writing(s) => ~run[s].alone
      BY <1>1 DEF DataInv, Apart
    <3>. QED
      BY <1>1, <3>1, <3>2 DEF KeptBy, DataInv, RunInv, MovedInv
  <2>. QED
    BY <2>1, <2>2
<1>8. run[r].alone => handle[r] = "temp"
  BY <1>1 DEF DataInv, RunInv, AloneInv
<1>9. TokenInv(r) /\ BackupInv(r) /\ MovedInv(r)
  BY DEF DataInv, RunInv
<1>10. RunInv(r)'
  <2>1. TokenInv(r)'
    BY <1>1, <1>2, <1>3, <1>4, <1>9 DEF TokenInv, Refreshing, WritePhases
  <2>2. AloneInv(r)'
    BY <1>1, <1>2, <1>3, <1>4, <1>5, <1>8 DEF AloneInv, DataInv, DataTypes, Fill
  <2>3. BackupInv(r)'
    BY <1>1, <1>2, <1>3, <1>4, <1>9 DEF BackupInv, MovedInv, Restorable, Fill
  <2>4. MovedInv(r)'
    BY <1>3, <1>4 DEF MovedInv
  <2>. QED
    BY <2>1, <2>2, <2>3, <2>4 DEF RunInv
<1>11. /\ files'["data"] = files["data"] \/ Known(files'["data"])
       /\ temps'["data"] = temps["data"] \/ Known(temps'["data"])
  BY <1>1, <1>5 DEF DataInv, DataTypes, Fill
<1>12. lost' = {}
  BY <1>1 DEF DataInv, ReplacedIsBackedUp
<1>13. CASE ~run[r].alone
  BY <1>1, <1>2, <1>3, <1>4, <1>6, <1>7, <1>10, <1>11, <1>12, <1>13, WriteStep DEF WritePhases
<1>14. CASE run[r].alone
  <2>1. files' = files
    BY <1>1, <1>8, <1>14 DEF Fill
  <2>2. \A s \in Runs \ {r} : run'[s] = run[s]
    BY <1>4, <1>8, <1>14
  <2>3. Entangled => Entangled'
    BY <1>1, <1>14, <2>2 DEF Entangled, Writing
  <2>4. IsTrue' /\ ManifestDescribesData'
    BY <1>1, <2>1, <2>2, <2>3 DEF DataInv, IsTrue, ManifestDescribesData
  <2>. QED
    BY <1>1, <1>2, <1>3, <1>4, <1>6, <1>7, <1>10, <1>11, <1>12, <2>4, WriteStep DEF WritePhases
<1>. QED
  BY <1>13, <1>14

\* The dataset is replaced by what the temporary file holds.
LEMMA SwapDataInv == ASSUME DataInv, NEW r \in Runs, SwapData(r) PROVE DataInv'
<1>1. /\ run[r].phase = "swap data" /\ Writing(r)
      /\ Swap("data", {s \in Runs : At(s, "fill data")})
      /\ UNCHANGED <<backups, mixed, cut>>
  BY DEF SwapData, At, Writing, WritePhases
<1>2. PICK old \in RunRecord : old = run[r]
  BY DEF DataInv, DataTypes
<1> DEFINE new == [old EXCEPT !.phase = "write manifest", !.stale = FALSE]
<1>3. /\ new \in RunRecord /\ new.phase = "write manifest" /\ new.alone = old.alone
      /\ new.script = old.script /\ new.token = old.token /\ new.content = old.content
  BY DEF RunRecord, Phases, WritePhases
<1>4. /\ run'[r] = new
      /\ \A s \in Runs \ {r} : run'[s] = Staled(s)
      /\ run' = [s \in Runs |-> run'[s]]
  BY <1>2 DEF SwapData
<1> HIDE DEF new
<1>5. "data" \in Kinds /\ NoFile \in Content /\ IsUsable(run[r].content)
  BY <1>1, WriterFacts DEF Kinds, Content
<1>6. /\ files' \in [Kinds -> Content] /\ temps' \in [Kinds -> Content]
      /\ handle' \in [Runs -> {"closed", "temp", "destination", "gone"}]
  BY <1>1, <1>5 DEF DataInv, DataTypes, Swap
<1>7. \A s \in Runs \ {r} : run'[s] \in RunRecord /\ KeptBy(s)
  BY <1>1, <1>4, StaledStep, StaledKept DEF DataInv
<1>8. run[r].alone => temps["data"] = run[r].content
  BY <1>1 DEF DataInv, RunInv, AloneInv
<1>9. files'["data"] = temps["data"] /\ temps'["data"] = NoFile
  BY <1>1, <1>5 DEF DataInv, DataTypes, Swap
<1>10. TokenInv(r) /\ BackupInv(r)
  BY DEF DataInv, RunInv
<1>11. RunInv(r)'
  <2>1. TokenInv(r)'
    BY <1>1, <1>2, <1>3, <1>4, <1>10 DEF TokenInv, Refreshing, WritePhases
  <2>2. AloneInv(r)'
    BY <1>2, <1>3, <1>4, <1>8, <1>9 DEF AloneInv
  <2>3. BackupInv(r)' /\ MovedInv(r)'
    BY <1>3, <1>4 DEF BackupInv, MovedInv, Restorable
  <2>. QED
    BY <2>1, <2>2, <2>3 DEF RunInv
<1>12. Known(files'["data"]) /\ Known(temps'["data"])
  BY <1>9, MarksKnown DEF DataInv
<1>13. lost' = {}
  <2>1. run[r].script # "fetch" /\ ~run[r].stale => files["data"] \in backups \cup {NoFile, Torn}
    BY <1>1, <1>10 DEF BackupInv, Restorable
  <2>2. lost = {}
    BY DEF DataInv, ReplacedIsBackedUp
  <2>. QED
    BY <2>1, <2>2 DEF SwapData
<1>14. ManifestDescribesData'
  BY <1>3, <1>4 DEF ManifestDescribesData
<1>15. ~run[r].alone \/ IsTrue'
  BY <1>5, <1>8, <1>9 DEF IsTrue
<1>. QED
  BY <1>1, <1>2, <1>3, <1>4, <1>6, <1>7, <1>11, <1>12, <1>13, <1>14, <1>15, WriteStep
     DEF WritePhases

\* The manifest's temporary file is written.
LEMMA WriteManifestInv == ASSUME DataInv, NEW r \in Runs, WriteManifest(r) PROVE DataInv'
<1>1. /\ run[r].phase = "write manifest" /\ Writing(r)
      /\ temps' = [temps EXCEPT !["manifest"] = run[r].content]
      /\ Goto(r, "swap manifest")
      /\ UNCHANGED <<files, handle, backups, lost, mixed, cut>>
  BY DEF WriteManifest, At, Writing, WritePhases, history
<1>2. "swap manifest" \in Phases /\ "swap manifest" \notin Ended
  BY DEF Phases, Ended, WritePhases
<1>3. PICK new \in RunRecord :
        /\ run' = [run EXCEPT ![r] = new]
        /\ new.phase = "swap manifest"
        /\ new.script = run[r].script /\ new.token = run[r].token
        /\ new.issued = run[r].issued /\ new.content = run[r].content
        /\ new.stale = run[r].stale /\ new.alone = run[r].alone
  <2>1. DataTypes /\ Goto(r, "swap manifest")
    BY <1>1 DEF DataInv
  <2>. QED
    BY <1>2, <2>1, GotoOn
<1>4. /\ run'[r] = new
      /\ \A s \in Runs \ {r} : run'[s] = run[s]
      /\ run' = [s \in Runs |-> run'[s]]
  BY <1>3 DEF DataInv, DataTypes
<1>5. run[r].content \in Content
  BY <1>1, WriterFacts
<1>6. /\ temps' \in [Kinds -> Content] /\ temps'["data"] = temps["data"]
      /\ temps'["manifest"] = run[r].content
  BY <1>1, <1>5 DEF DataInv, DataTypes, Kinds
<1>7. ASSUME NEW s \in Runs \ {r} PROVE run'[s] \in RunRecord /\ KeptBy(s)
  <2>1. Writing(s) => ~run[s].alone
    BY <1>1 DEF DataInv, Apart
  <2>. QED
    BY <1>1, <1>4, <2>1 DEF KeptBy, DataInv, DataTypes, RunInv, MovedInv
<1>8. RunInv(r)
  BY DEF DataInv
<1>9. RunInv(r)'
  <2>1. TokenInv(r)'
    BY <1>1, <1>3, <1>4, <1>8 DEF RunInv, TokenInv, Refreshing, WritePhases
  <2>2. AloneInv(r)'
    BY <1>1, <1>3, <1>4, <1>6, <1>8 DEF RunInv, AloneInv
  <2>3. BackupInv(r)' /\ MovedInv(r)'
    BY <1>3, <1>4 DEF BackupInv, MovedInv, Restorable
  <2>. QED
    BY <2>1, <2>2, <2>3 DEF RunInv
<1>10. Entangled => Entangled'
  BY <1>1, <1>3, <1>4 DEF Entangled, Writing, WritePhases
<1>11. IsTrue' /\ ManifestDescribesData' /\ lost' = {}
  BY <1>1, <1>3, <1>4, <1>10 DEF DataInv, IsTrue, ManifestDescribesData, ReplacedIsBackedUp
<1>12. files' \in [Kinds -> Content] /\ handle' \in [Runs -> {"closed", "temp", "destination", "gone"}]
  BY <1>1 DEF DataInv, DataTypes
<1>. QED
  BY <1>1, <1>3, <1>4, <1>6, <1>7, <1>9, <1>11, <1>12, WriteStep DEF WritePhases

\* A run leaves its refresh, done or not.
LEMMA LeaveStep ==
  ASSUME DataInv, NEW r \in Runs, Writing(r), NEW new \in RunRecord, run' = [run EXCEPT ![r] = new],
         new.phase \notin Refreshing \cup {"idle", "backup", "fetch"},
         new.script = "universe" => new.token = Wanted,
         run[r].script = "fetch" => new.script = "fetch" /\ new.token = run[r].token,
         files' \in [Kinds -> Content], temps' \in [Kinds -> Content],
         handle' \in [Runs -> {"closed", "temp", "destination", "gone"}],
         \A s \in Runs \ {r} : handle'[s] = handle[s],
         files'["data"] = files["data"], temps'["data"] = temps["data"],
         UNCHANGED <<backups, lost>>, mixed' \in BOOLEAN, cut' \in BOOLEAN,
         IsTrue', ManifestDescribesData'
  PROVE  DataInv'
<1>1. run'[r] = new /\ \A s \in Runs \ {r} : run'[s] = run[s]
  BY DEF DataInv, DataTypes
<1>2. DataTypes'
  BY DEF DataInv, DataTypes
<1>3. ASSUME NEW s \in Runs \ {r} PROVE KeptBy(s)
  <2>1. Writing(s) => ~run[s].alone
    BY DEF DataInv, Apart
  <2>. QED
    BY <1>1, <2>1 DEF KeptBy, DataInv, RunInv, MovedInv
<1>4. RunInv(r)'
  BY NewRunInv
<1>5. ~Writing(r)'
  BY <1>1 DEF Writing, Refreshing
<1>6. /\ \A s \in Runs : RunInv(s)'
      /\ Apart'
      /\ Known(files["data"])' /\ Known(temps["data"])'
  BY <1>1, <1>3, <1>4, <1>5, RunsStep
<1>7. ReplacedIsBackedUp'
  BY DEF DataInv, ReplacedIsBackedUp
<1>. QED
  BY <1>2, <1>6, <1>7 DEF DataInv

\* The refresh is complete.
LEMMA SwapManifestInv == ASSUME DataInv, NEW r \in Runs, SwapManifest(r) PROVE DataInv'
<1>1. /\ run[r].phase = "swap manifest" /\ Writing(r)
      /\ Swap("manifest", {})
      /\ UNCHANGED <<backups, lost>>
      /\ mixed' = ~run[r].alone
      /\ cut' = (cut /\ ~run[r].alone)
  BY DEF SwapManifest, At, Writing, WritePhases
<1>2. \E new \in RunRecord :
        /\ run' = [run EXCEPT ![r] = new]
        /\ new.phase \notin Refreshing \cup {"idle", "backup", "fetch"}
        /\ new.script = "universe" => new.token = Wanted
        /\ run[r].script = "fetch" => new.script = "fetch" /\ new.token = run[r].token
  <2>1. CASE run[r].script = "daily"
    <3>1. PICK old \in RunRecord : old = run[r]
      BY DEF DataInv, DataTypes
    <3> DEFINE new == [old EXCEPT !.phase = "load", !.content = NoFile, !.alone = TRUE]
    <3>2. new \in RunRecord /\ new.phase = "load" /\ new.script = old.script
      BY DEF RunRecord, Phases, Content
    <3>3. run' = [run EXCEPT ![r] = new]
      BY <2>1, <3>1 DEF SwapManifest
    <3> HIDE DEF new
    <3>. QED
      BY <2>1, <3>1, <3>2, <3>3 DEF Refreshing, WritePhases
  <2>2. CASE run[r].script # "daily"
    <3>1. Goto(r, "done") /\ "done" \in Phases /\ "done" \in Ended
      BY <2>2 DEF SwapManifest, Phases, Ended
    <3>2. PICK new \in RunRecord :
            /\ run' = [run EXCEPT ![r] = new]
            /\ new.phase = "done"
            /\ run[r].script = "fetch" => new.script = "fetch" /\ new.token = run[r].token
            /\ run[r].script # "fetch" => new.script = "none"
      BY <3>1, GotoEnd DEF DataInv
    <3>. QED
      BY <3>2 DEF Refreshing, WritePhases
  <2>. QED
    BY <2>1, <2>2
<1>3. PICK new \in RunRecord :
        /\ run' = [run EXCEPT ![r] = new]
        /\ new.phase \notin Refreshing \cup {"idle", "backup", "fetch"}
        /\ new.script = "universe" => new.token = Wanted
        /\ run[r].script = "fetch" => new.script = "fetch" /\ new.token = run[r].token
  BY <1>2
<1>4. "manifest" \in Kinds /\ NoFile \in Content /\ IsUsable(run[r].content)
  BY <1>1, WriterFacts DEF Kinds, Content
<1>5. /\ files' \in [Kinds -> Content] /\ temps' \in [Kinds -> Content]
      /\ handle' \in [Runs -> {"closed", "temp", "destination", "gone"}]
      /\ \A s \in Runs \ {r} : handle'[s] = handle[s]
      /\ files'["data"] = files["data"] /\ temps'["data"] = temps["data"]
      /\ files'["manifest"] = temps["manifest"]
  BY <1>1, <1>4 DEF DataInv, DataTypes, Swap, Kinds
<1>6. run[r].alone => files["data"] = run[r].content /\ temps["manifest"] = run[r].content
  BY <1>1 DEF DataInv, RunInv, AloneInv
<1>7. IsTrue' /\ ManifestDescribesData'
  <2>1. CASE run[r].alone
    BY <1>4, <1>5, <1>6, <2>1 DEF IsTrue, ManifestDescribesData
  <2>2. CASE ~run[r].alone
    BY <1>1, <2>2 DEF IsTrue, ManifestDescribesData, Entangled
  <2>. QED
    BY <2>1, <2>2
<1>8. mixed' \in BOOLEAN /\ cut' \in BOOLEAN
  BY <1>1
<1>. QED
  BY <1>1, <1>3, <1>5, <1>7, <1>8, LeaveStep

\* The end of a run that writes, at a failure or a crash.
LEMMA AbortStep ==
  ASSUME DataInv, NEW r \in Runs, Writing(r), NEW phase \in Ended, Goto(r, phase),
         UNCHANGED <<files, temps, backups, lost>>,
         handle' \in [Runs -> {"closed", "temp", "destination", "gone"}],
         \A s \in Runs \ {r} : handle'[s] = handle[s],
         mixed' \in BOOLEAN, cut' \in BOOLEAN,
         mixed \/ ~run[r].alone => mixed',
         cut \/ run[r].phase \in {"write manifest", "swap manifest"} => cut'
  PROVE  DataInv'
<1>1. phase \in Phases /\ phase \notin {"idle", "backup", "fetch"} \cup Refreshing
  BY DEF Phases, Ended, Refreshing, WritePhases
<1>2. PICK new \in RunRecord :
           /\ run' = [run EXCEPT ![r] = new]
           /\ new.phase = phase
           /\ run[r].script = "fetch" => new.script = "fetch" /\ new.token = run[r].token
           /\ run[r].script # "fetch" => new.script = "none"
  <2>1. DataTypes /\ Goto(r, phase)
    BY DEF DataInv
  <2>. QED
    BY <1>1, <2>1, GotoEnd
<1>3. \A s \in Runs \ {r} : run'[s] = run[s]
  BY <1>2 DEF DataInv, DataTypes
<1>4. Entangled => Entangled'
  BY <1>3 DEF Entangled, Writing
<1>5. IsTrue'
  BY <1>4 DEF DataInv, IsTrue
<1>6. ManifestDescribesData'
  BY <1>3, <1>4 DEF DataInv, ManifestDescribesData
<1>7. files' \in [Kinds -> Content] /\ temps' \in [Kinds -> Content]
  BY DEF DataInv, DataTypes
<1>. QED
  BY <1>1, <1>2, <1>5, <1>6, <1>7, LeaveStep

LEMMA SwapFailsInv == ASSUME DataInv, NEW r \in Runs, SwapFails(r) PROVE DataInv'
<1>1. /\ Writing(r) /\ Goto(r, "failed") /\ "failed" \in Ended
      /\ UNCHANGED <<files, temps, handle, backups, lost>>
      /\ mixed' = TRUE
      /\ cut' = (cut \/ At(r, "swap manifest"))
      /\ run[r].phase # "write manifest"
  BY DEF SwapFails, At, Writing, WritePhases, Ended, fileVars
<1>2. handle' \in [Runs -> {"closed", "temp", "destination", "gone"}]
  BY <1>1 DEF DataInv, DataTypes
<1>. QED
  BY <1>1, <1>2, AbortStep DEF At

LEMMA CrashInv == ASSUME DataInv, NEW r \in Runs, Crash(r) PROVE DataInv'
<1>1. /\ Goto(r, "crashed") /\ "crashed" \in Ended
      /\ UNCHANGED <<files, temps, backups, lost>>
      /\ mixed' = (mixed \/ (Writing(r) /\ ~run[r].alone))
      /\ cut' = (cut \/ run[r].phase \in {"write manifest", "swap manifest"})
  BY DEF Crash, Ended
<1>2. /\ handle' \in [Runs -> {"closed", "temp", "destination", "gone"}]
      /\ \A s \in Runs \ {r} : handle'[s] = handle[s]
  BY DEF Crash, DataInv, DataTypes
<1>3. CASE Writing(r)
  BY <1>1, <1>2, <1>3, AbortStep
<1>4. CASE ~Writing(r)
  <2>1. UNCHANGED <<mixed, cut>>
    BY <1>1, <1>4 DEF Writing, WritePhases, DataInv, DataTypes
  <2>. QED
    BY <1>1, <1>2, <1>4, <2>1, EndedInv
<1>. QED
  BY <1>3, <1>4

-----------------------------------------------------------------------------
(* The specification *)

LEMMA DataInductive == ASSUME LoginInv, DataInv, [Next]_vars PROVE DataInv'
<1>1. ASSUME NEW r \in Runs, Start(r) PROVE DataInv'
  BY <1>1, StartInv
<1>2. ASSUME NEW r \in Runs, RunStep(r) PROVE DataInv'
  <2>1. run[r].script \in {"daily", "universe", "fetch"}
    BY <1>2 DEF RunStep, DailyStep, UniverseStep, FetchStep
  <2>2. CASE Ingest(r)
    BY <2>2, FetchInv, OpenDataInv, FillDataInv, SwapDataInv, WriteManifestInv,
       SwapManifestInv, SwapFailsInv DEF Ingest
  <2>3. CASE DailyStep(r)
    BY <2>2, <2>3, ResolveInv, LoggedInInv, VerifyInv, BackupStepInv, LoadInv, ReportInv
       DEF DailyStep
  <2>4. CASE UniverseStep(r)
    BY <2>2, <2>4, ResolveInv, BackupStepInv DEF UniverseStep
  <2>5. CASE FetchStep(r)
    BY <2>2, <2>5, ResolveInv DEF FetchStep
  <2>. QED
    BY <1>2, <2>3, <2>4, <2>5 DEF RunStep
<1>3. ASSUME NEW r \in Runs, Crash(r) PROVE DataInv'
  BY <1>3, CrashInv
<1>4. CASE UNCHANGED Unmoved
  BY <1>4 DEF Unmoved, fileVars, history, DataInv, DataTypes, RunInv, TokenInv, AloneInv,
     BackupInv, MovedInv, Apart, Known, IsTrue, ManifestDescribesData, ReplacedIsBackedUp,
     Entangled, Writing
<1>5. CASE Login \/ Browser \/ Tick
  BY <1>4, <1>5 DEF Login, Browser, Tick
<1>6. CASE UNCHANGED vars
  BY <1>4, <1>6 DEF vars, Unmoved, fileVars, history
<1>. QED
  BY <1>1, <1>2, <1>3, <1>5, <1>6 DEF Next

LEMMA DataInitially == ASSUME Init PROVE DataInv
<1>1. /\ run = [r \in Runs |-> NoRun]
      /\ files = [k \in Kinds |-> NoFile] /\ temps = [k \in Kinds |-> NoFile]
      /\ handle = [r \in Runs |-> "closed"]
      /\ backups = {} /\ lost = {} /\ mixed = FALSE /\ cut = FALSE
  BY DEF Init, FilesInit
<1>2. files["data"] = NoFile /\ temps["data"] = NoFile /\ files["manifest"] = NoFile
  BY <1>1 DEF Kinds
<1>3. DataTypes
  BY <1>1, NoRunType DEF DataTypes, Content
<1>4. \A r \in Runs : run[r].phase = "idle" /\ run[r].script = "none"
  BY <1>1 DEF NoRun
<1>5. \A r \in Runs : RunInv(r)
  BY <1>4 DEF RunInv, TokenInv, AloneInv, BackupInv, MovedInv, Refreshing, Restorable, WritePhases
<1>6. Apart /\ Known(files["data"]) /\ Known(temps["data"])
  BY <1>2, <1>4, MarksKnown DEF Apart, Writing, WritePhases
<1>7. IsTrue /\ ManifestDescribesData /\ ReplacedIsBackedUp
  BY <1>1, <1>2 DEF IsTrue, ManifestDescribesData, ReplacedIsBackedUp
<1>. QED
  BY <1>3, <1>5, <1>6, <1>7 DEF DataInv

LEMMA InductiveInvariant == Spec => [](LoginInv /\ DataInv)
<1>1. Init => LoginInv /\ DataInv
  BY LoginInitially, DataInitially
<1>2. LoginInv /\ DataInv /\ [Next]_vars => (LoginInv /\ DataInv)'
  BY LoginInductive, DataInductive
<1>. QED
  BY <1>1, <1>2, PTL DEF Spec

LEMMA ContentTyped == \A c \in Content : c \in {NoFile, Torn} \/ IsContent(c)
<1>1. ASSUME NEW c \in Dataset PROVE IsContent(c)
  <2>1. c.of \in Instruments /\ c.bars \in Seq(Bar)
    BY DEF Dataset
  <2>2. \A n \in DOMAIN c.bars : c.bars[n] \in Bar
    BY <2>1
  <2>. QED
    BY <2>1, <2>2 DEF IsContent
<1>. QED
  BY <1>1 DEF Content

\* Type correctness: a run is at a place of its script with a token, a flag is
\* a Boolean, and what a file or a backup holds is nothing, torn, or bars.
THEOREM TypeCorrect == Spec => []TypeOK
<1>1. LoginInv /\ DataInv => TypeOK
  <2> SUFFICES ASSUME LoginInv, DataInv PROVE TypeOK
    OBVIOUS
  <2>1. DataTypes /\ LoginTypeOK
    BY DEF LoginInv, DataInv
  <2>2. FilesTypeOK
    <3>1. \A k \in Kinds : files[k] \in Content /\ temps[k] \in Content
      BY <2>1 DEF DataTypes
    <3>. QED
      BY <2>1, <3>1, ContentTyped DEF FilesTypeOK, DataTypes
  <2>3. \A r \in Runs :
          /\ run[r].phase \in Phases
          /\ run[r].script \in Scripts \cup {"none"}
          /\ run[r].token \in Instruments \cup {Unlisted}
          /\ run[r].issued \in 0..MaxDay
          /\ run[r].stale \in BOOLEAN /\ run[r].alone \in BOOLEAN
    <3>1. \A r \in Runs : run[r] \in RunRecord
      BY <2>1 DEF DataTypes
    <3>. QED
      BY <3>1 DEF RunRecord
  <2>4. \A c \in backups \cup lost : IsContent(c)
    <3>1. \A c \in Dataset : c \in Content /\ c \notin {NoFile, Torn}
      BY InstrumentsAssumption DEF Content, Dataset, NoFile, Torn
    <3>. QED
      BY <2>1, <3>1, ContentTyped DEF DataTypes
  <2>. QED
    BY <2>1, <2>2, <2>3, <2>4 DEF TypeOK, DataTypes
<1>. QED
  BY <1>1, InductiveInvariant, PTL

\* The dataset is complete and usable unless runs shared the temporary file,
\* and of the wanted instrument unless an unchecked command line said another
\* (ingestion.py's write_bytes, run_daily_shadow_update.py's check).
THEOREM SoundDataset == Spec => []DatasetIsSound
<1>1. DataInv => DatasetIsSound
  <2> SUFFICES ASSUME DataInv PROVE DatasetIsSound
    OBVIOUS
  <2>1. IsTrue /\ Known(files["data"])
    BY DEF DataInv
  <2>2. IsTheWanted
    BY <2>1 DEF Known, IsTheWanted, IsContent
  <2>. QED
    BY <2>1, <2>2 DEF DatasetIsSound
<1>. QED
  BY <1>1, InductiveInvariant, PTL

\* Whatever a daily or universe refresh replaced is among the backups, for any
\* number of overlapping runs, crashes included.
THEOREM BackupsComplete == Spec => []ReplacedIsBackedUp
<1>1. DataInv => ReplacedIsBackedUp
  BY DEF DataInv
<1>. QED
  BY <1>1, InductiveInvariant, PTL

\* The manifest describes the dataset outside the windows the property names.
THEOREM FaithfulManifest == Spec => []ManifestDescribesData
<1>1. DataInv => ManifestDescribesData
  BY DEF DataInv
<1>. QED
  BY <1>1, InductiveInvariant, PTL

-----------------------------------------------------------------------------
(* The daily review: its conversations and its report *)

CallId == Nat \X Nat
Message == [role : {"user", "assistant", "tool"}, calls : Seq(CallId), results : Seq(CallId)]
ToolCall == [id : CallId, name : ClientTools]
TalkRecord ==
  [stage : Stages, iteration : Nat, messages : Seq(Message), pending : Seq(ToolCall),
   results : Seq(CallId), stop : {"none", "tool_use", "tool_calls", "end"},
   called : Seq(ClientTools), proposed : BOOLEAN]

\* What both providers accept.
Answered(messages) ==
  /\ AnsweredInOne(messages)
  /\ AnsweredOneByOne(ToOpenAI(messages))

\* The conversation ends with a message of these calls.
Waiting(messages, ids) ==
  \E front \in Seq(Message) :
    messages = Append(front, Assistant(ids)) /\ Answered(front)

\* A call waits in the order it was made, after those that have their results.
ConversationInv ==
  /\ provider \in {"claude", "compatible"}
  /\ talk \in TalkRecord
  /\ talk.stage = "ask" => Answered(talk.messages)
  /\ talk.stage = "dispatch" =>
       talk.pending # <<>> /\ Waiting(talk.messages, talk.results \o Ids(talk.pending))
  /\ talk.stage = "answer" => talk.results # <<>> /\ Waiting(talk.messages, talk.results)

-----------------------------------------------------------------------------
(* The two forms of a conversation *)

\* A message in OpenAI's form.
Converted(m) ==
  IF m.results = <<>> THEN <<m>>
  ELSE [n \in DOMAIN m.results |->
          [role |-> "tool", calls |-> <<>>, results |-> <<m.results[n]>>]]

LEMMA MessageParts ==
  ASSUME NEW m \in Message
  PROVE  m.calls \in Seq(CallId) /\ m.results \in Seq(CallId)
BY DEF Message

LEMMA ToolResult ==
  ASSUME NEW id \in CallId
  PROVE  [role |-> "tool", calls |-> <<>>, results |-> <<id>>] \in Message
<1>1. <<>> \in Seq(CallId) /\ <<id>> \in Seq(CallId)
  BY EmptySeq
<1>. QED
  BY <1>1 DEF Message

LEMMA ConvertedTyped == ASSUME NEW m \in Message PROVE Converted(m) \in Seq(Message)
<1>1. m.results \in Seq(CallId)
  BY DEF Message
<1>2. CASE m.results = <<>>
  BY <1>2 DEF Converted
<1>3. CASE m.results # <<>>
  <2> DEFINE r == m.results
             single(n) == [role |-> "tool", calls |-> <<>>, results |-> <<r[n]>>]
  <2>1. Len(r) \in Nat /\ DOMAIN r = 1..Len(r) /\ \A n \in 1..Len(r) : r[n] \in CallId
    BY <1>1, LenProperties
  <2>2. \A n \in 1..Len(r) : single(n) \in Message
    BY <2>1, ToolResult
  <2> HIDE DEF single
  <2>3. [n \in 1..Len(r) |-> single(n)] \in Seq(Message)
    BY <2>1, <2>2, IsASeq
  <2>. QED
    BY <1>3, <2>1, <2>3 DEF Converted, single
<1>. QED
  BY <1>2, <1>3

LEMMA Conversion ==
  ASSUME NEW messages \in Seq(Message)
  PROVE  /\ ToOpenAI(messages) = FlattenSeq([n \in DOMAIN messages |-> Converted(messages[n])])
         /\ [n \in DOMAIN messages |-> Converted(messages[n])] \in Seq(Seq(Message))
         /\ ToOpenAI(messages) \in Seq(Message)
<1> DEFINE parts == [n \in DOMAIN messages |-> Converted(messages[n])]
<1>1. ToOpenAI(messages) = FlattenSeq(parts)
  <2>1. ToOpenAI(messages) = FlattenSeq(parts)
    BY DEF ToOpenAI, Converted
  <2>. QED
    BY <2>1
<1>2. parts \in Seq(Seq(Message))
  <2>1. Len(messages) \in Nat /\ DOMAIN messages = 1..Len(messages)
        /\ \A n \in 1..Len(messages) : messages[n] \in Message
    BY LenProperties
  <2>2. \A n \in 1..Len(messages) : Converted(messages[n]) \in Seq(Message)
    BY <2>1, ConvertedTyped
  <2>. QED
    BY <2>1, <2>2, IsASeq
<1>. QED
  BY <1>1, <1>2, FlattenElements

LEMMA ConversionLast ==
  ASSUME NEW messages \in Seq(Message), NEW m \in Message
  PROVE  ToOpenAI(Append(messages, m)) = ToOpenAI(messages) \o Converted(m)
<1> DEFINE n == Len(messages)
           longer == Append(messages, m)
           before == [i \in DOMAIN messages |-> Converted(messages[i])]
           after == [i \in DOMAIN longer |-> Converted(longer[i])]
<1>1. /\ n \in Nat /\ longer \in Seq(Message) /\ Len(longer) = n + 1 /\ longer[n + 1] = m
      /\ \A i \in 1..n : longer[i] = messages[i]
      /\ DOMAIN longer = 1..n + 1 /\ DOMAIN messages = 1..n
  <2>1. /\ n \in Nat /\ longer \in Seq(Message) /\ Len(longer) = n + 1 /\ longer[n + 1] = m
        /\ \A i \in 1..n : longer[i] = messages[i]
    BY AppendProperties, LenProperties
  <2>. QED
    BY <2>1, LenProperties
<1>2. before \in Seq(Seq(Message)) /\ after \in Seq(Seq(Message))
  BY <1>1, Conversion
<1>3. Converted(m) \in Seq(Message)
  BY ConvertedTyped
<1>4. after = Append(before, Converted(m))
  <2> DEFINE other == Append(before, Converted(m))
  <2>1. Len(before) = n /\ Len(after) = n + 1
    <3>1. DOMAIN before = 1..n /\ DOMAIN after = 1..n + 1
      BY <1>1
    <3>. QED
      BY <1>1, <1>2, <3>1, LenProperties
  <2>2. /\ other \in Seq(Seq(Message)) /\ Len(other) = n + 1 /\ other[n + 1] = Converted(m)
        /\ \A i \in 1..n : other[i] = before[i]
    BY <1>2, <1>3, <2>1, AppendProperties
  <2>3. \A i \in 1..n : before[i] = Converted(messages[i]) /\ after[i] = Converted(messages[i])
    BY <1>1
  <2>4. after[n + 1] = Converted(m)
    BY <1>1
  <2> HIDE DEF before, after, other
  <2>5. \A i \in 1..n + 1 : after[i] = other[i]
    <3>1. \A i \in 1..n + 1 : i = n + 1 \/ i \in 1..n
      BY <1>1
    <3>. QED
      BY <2>2, <2>3, <2>4, <3>1
  <2>6. after = other
    BY <1>2, <2>1, <2>2, <2>5, SeqEqual
  <2>. QED
    BY <2>6 DEF other
<1>5. FlattenSeq(after) = FlattenSeq(before) \o Converted(m)
  <2> HIDE DEF before, after
  <2>. QED
    BY <1>2, <1>3, <1>4, FlattenLast
<1>. QED
  BY <1>1, <1>5, Conversion

\* The empty conversation and its first message, which calls nothing.
LEMMA OnlyTask ==
  /\ Task \in Message
  /\ <<Task>> \in Seq(Message)
  /\ Answered(<<Task>>)
<1>1. <<>> \in Seq(CallId)
  BY EmptySeq
<1>2. Task \in Message /\ Task.calls = <<>> /\ Task.results = <<>>
  BY <1>1 DEF Task, Message
<1> DEFINE one == <<Task>>
<1>3. one \in Seq(Message) /\ DOMAIN one = 1..1 /\ one[1] = Task
  BY <1>2
<1>4. ToOpenAI(one) = one
  <2> DEFINE parts == [n \in DOMAIN one |-> Converted(one[n])]
  <2>1. ToOpenAI(one) = FlattenSeq(parts)
    BY <1>3, Conversion
  <2>2. <<>> \in Seq(Message) /\ one = Append(<<>>, Task)
    BY <1>2, EmptySeq
  <2>3. ToOpenAI(one) = ToOpenAI(<<>>) \o Converted(Task)
    BY <1>2, <2>2, ConversionLast
  <2>4. ToOpenAI(<<>>) = <<>>
    <3> DEFINE none == [n \in DOMAIN <<>> |-> Converted(<<>>[n])]
    <3>1. ToOpenAI(<<>>) = FlattenSeq(none) /\ none \in Seq(Seq(Message))
      BY <2>2, Conversion
    <3>2. none = <<>>
      OBVIOUS
    <3>. QED
      BY <3>1, <3>2 DEF FlattenSeq
  <2>5. Converted(Task) = one
    BY <1>2 DEF Converted
  <2>. QED
    BY <1>3, <2>3, <2>4, <2>5, ConcatEmptySeq
<1>. QED
  BY <1>2, <1>3, <1>4 DEF Answered, AnsweredInOne, AnsweredOneByOne

\* Calls that are all answered, in the order they were made, in one message.
LEMMA AnsweredNext ==
  ASSUME NEW front \in Seq(Message), Answered(front), NEW ids \in Seq(CallId), ids # <<>>
  PROVE  LET asked == Append(front, Assistant(ids))
             all == Append(asked, Results(ids))
         IN asked \in Seq(Message) /\ all \in Seq(Message) /\ Answered(all)
<1> DEFINE question == Assistant(ids)
           answer == Results(ids)
           asked == Append(front, question)
           all == Append(asked, answer)
           n == Len(front)
<1>1. /\ question \in Message /\ question.calls = ids /\ question.results = <<>>
      /\ answer \in Message /\ answer.calls = <<>> /\ answer.results = ids
  <2>1. <<>> \in Seq(CallId)
    BY EmptySeq
  <2>. QED
    BY <2>1 DEF Assistant, Results, Message
<1> HIDE DEF question, answer
<1>2. /\ n \in Nat /\ DOMAIN front = 1..n
      /\ asked \in Seq(Message) /\ Len(asked) = n + 1 /\ asked[n + 1] = question
      /\ \A i \in 1..n : asked[i] = front[i]
  BY <1>1, AppendProperties, LenProperties
<1>3. /\ all \in Seq(Message) /\ Len(all) = n + 2 /\ all[n + 2] = answer
      /\ DOMAIN all = 1..n + 2 /\ all[n + 1] = question
      /\ \A i \in 1..n : all[i] = front[i]
  <2> HIDE DEF asked
  <2>1. /\ all \in Seq(Message) /\ Len(all) = Len(asked) + 1 /\ all[Len(asked) + 1] = answer
        /\ \A i \in 1..Len(asked) : all[i] = asked[i]
    BY <1>1, <1>2, AppendProperties
  <2>2. DOMAIN all = 1..Len(all)
    BY <2>1, LenProperties
  <2>. QED
    BY <1>2, <2>1, <2>2
<1>4. AnsweredInOne(all)
  <2> HIDE DEF all
  <2> SUFFICES ASSUME NEW i \in DOMAIN all, all[i].calls # <<>>
               PROVE  i < Len(all) /\ all[i + 1].results = all[i].calls
    BY DEF AnsweredInOne
  <2>1. i \in 1..n \/ i = n + 1 \/ i = n + 2
    BY <1>2, <1>3
  <2>2. CASE i \in 1..n
    <3>1. i < n /\ front[i + 1].results = front[i].calls
      BY <1>2, <1>3, <2>2 DEF Answered, AnsweredInOne
    <3>2. i + 1 \in 1..n
      BY <1>2, <2>2, <3>1
    <3>. QED
      BY <1>2, <1>3, <2>2, <3>1, <3>2
  <2>3. CASE i = n + 1
    <3>1. i + 1 = n + 2 /\ i < Len(all)
      BY <1>2, <1>3, <2>3
    <3>. QED
      BY <1>1, <1>3, <2>3, <3>1
  <2>4. CASE i = n + 2
    BY <1>1, <1>3, <2>4
  <2>. QED
    BY <2>1, <2>2, <2>3, <2>4
<1> DEFINE old == ToOpenAI(front)
           new == ToOpenAI(all)
           m == Len(old)
           k == Len(ids)
           single(j) == [role |-> "tool", calls |-> <<>>, results |-> <<ids[j]>>]
<1>5. k \in Nat \ {0} /\ DOMAIN ids = 1..k /\ \A j \in 1..k : ids[j] \in CallId
  BY EmptySeq, LenProperties
<1>6. /\ m \in Nat /\ DOMAIN old = 1..m
      /\ DOMAIN new = 1..m + 1 + k /\ Len(new) = m + 1 + k
      /\ \A i \in 1..m : new[i] = old[i]
      /\ new[m + 1] = question
      /\ \A j \in 1..k : new[m + 1 + j] = single(j)
  <2> DEFINE middle == ToOpenAI(asked)
  <2>1. old \in Seq(Message)
    BY Conversion
  <2>2. Converted(question) = <<question>>
    BY <1>1 DEF Converted
  <2>3. Converted(answer) = [j \in 1..k |-> single(j)] /\ Converted(answer) \in Seq(Message)
    <3>1. Converted(answer) =
            [j \in DOMAIN answer.results |->
               [role |-> "tool", calls |-> <<>>, results |-> <<answer.results[j]>>]]
      BY <1>1 DEF Converted
    <3>2. Converted(answer) = [j \in DOMAIN ids |-> single(j)]
      BY <1>1, <3>1
    <3>. QED
      BY <1>1, <1>5, <3>2, ConvertedTyped
  <2> HIDE DEF single
  <2>4. middle = old \o <<question>> /\ <<question>> \in Seq(Message)
    <3>1. middle = old \o Converted(question)
      BY <1>1, ConversionLast
    <3>. QED
      BY <1>1, <2>2, <3>1
  <2>5. new = middle \o Converted(answer)
    <3> HIDE DEF asked
    <3>. QED
      BY <1>1, <1>2, ConversionLast
  <2>6. m \in Nat /\ DOMAIN old = 1..m
    BY <2>1, LenProperties
  <2> HIDE DEF old, new, middle, asked, all
  <2>7. /\ middle \in Seq(Message) /\ Len(middle) = m + 1
        /\ \A i \in 1..m : middle[i] = old[i]
        /\ middle[m + 1] = question
    <3>1. /\ middle \in Seq(Message) /\ Len(middle) = m + Len(<<question>>)
          /\ \A i \in 1..m + Len(<<question>>) :
               middle[i] = IF i <= m THEN old[i] ELSE <<question>>[i - m]
      BY <2>1, <2>4, ConcatProperties
    <3>2. Len(<<question>>) = 1 /\ <<question>>[1] = question
      OBVIOUS
    <3>3. middle[m + 1] = <<question>>[m + 1 - m]
      <4>1. PICK i \in 1..m + 1 : i = m + 1
        BY <2>6
      <4>2. middle[i] = IF i <= m THEN old[i] ELSE <<question>>[i - m]
        BY <3>1, <3>2
      <4>. QED
        BY <2>6, <4>1, <4>2
    <3>4. m + 1 - m = 1
      BY <2>6
    <3>. QED
      BY <2>6, <3>1, <3>2, <3>3, <3>4
  <2> DEFINE tools == Converted(answer)
  <2>8. tools \in Seq(Message) /\ Len(tools) = k /\ \A j \in 1..k : tools[j] = single(j)
    <3>1. DOMAIN tools = 1..k
      BY <2>3
    <3>. QED
      BY <1>5, <2>3, <3>1, LenProperties
  <2> HIDE DEF tools
  <2>9. /\ new \in Seq(Message) /\ Len(new) = m + 1 + k
        /\ \A i \in 1..m + 1 + k : new[i] = IF i <= m + 1 THEN middle[i] ELSE tools[i - (m + 1)]
    <3>1. new = middle \o tools
      BY <2>5 DEF tools
    <3>2. /\ middle \o tools \in Seq(Message) /\ Len(middle \o tools) = Len(middle) + Len(tools)
          /\ \A i \in 1..Len(middle) + Len(tools) :
               (middle \o tools)[i] = IF i <= Len(middle) THEN middle[i] ELSE tools[i - Len(middle)]
      BY <2>7, <2>8, ConcatProperties
    <3>. QED
      BY <2>7, <2>8, <3>1, <3>2
  <2>10. DOMAIN new = 1..m + 1 + k
    BY <2>9, LenProperties
  <2>11. ASSUME NEW j \in 1..k PROVE new[m + 1 + j] = single(j)
    <3>1. PICK i \in 1..m + 1 + k : i = m + 1 + j /\ ~(i <= m + 1) /\ i - (m + 1) = j
      BY <1>5, <2>6
    <3>2. new[i] = tools[j]
      BY <2>9, <3>1
    <3>. QED
      BY <2>8, <3>1, <3>2
  <2>12. \A i \in 1..m : new[i] = old[i]
    BY <1>5, <2>6, <2>7, <2>9
  <2>13. new[m + 1] = question
    BY <1>5, <2>6, <2>7, <2>9
  <2>. QED
    BY <2>6, <2>9, <2>10, <2>11, <2>12, <2>13
<1>7. AnsweredOneByOne(new)
  <2> HIDE DEF old, new, single, asked, all
  <2> SUFFICES ASSUME NEW i \in DOMAIN new, NEW j \in DOMAIN new[i].calls
               PROVE  i + j <= Len(new) /\ new[i + j].results = <<new[i].calls[j]>>
    BY DEF AnsweredOneByOne
  <2>1. i \in 1..m \/ i = m + 1 \/ \E h \in 1..k : i = m + 1 + h
    <3>1. i \in 1..m \/ i = m + 1 \/ (i - (m + 1) \in 1..k /\ i = m + 1 + (i - (m + 1)))
      BY <1>5, <1>6
    <3>. QED
      BY <3>1
  <2>2. CASE i \in 1..m
    <3>1. new[i] = old[i] /\ i \in DOMAIN old
      BY <1>6, <2>2
    <3>2. i + j <= m /\ old[i + j].results = <<old[i].calls[j]>>
      BY <3>1 DEF Answered, AnsweredOneByOne, old
    <3>3. j \in Nat \ {0}
      <4>1. old \in Seq(Message)
        BY Conversion DEF old
      <4>2. old[i] \in Message
        BY <1>6, <2>2, <4>1, LenProperties
      <4>3. old[i].calls \in Seq(CallId)
        BY <4>2, MessageParts
      <4>4. DOMAIN old[i].calls = 1..Len(old[i].calls) /\ Len(old[i].calls) \in Nat
        BY <4>3, LenProperties
      <4>. QED
        BY <3>1, <4>4
    <3>4. i + j \in 1..m
      BY <1>6, <2>2, <3>2, <3>3
    <3>. QED
      BY <1>5, <1>6, <3>1, <3>2, <3>4
  <2>3. CASE i = m + 1
    <3>1. j \in 1..k /\ new[i].calls = ids
      BY <1>1, <1>5, <1>6, <2>3
    <3>2. new[m + 1 + j] = single(j)
      BY <1>6, <3>1
    <3>3. single(j).results = <<ids[j]>>
      BY DEF single
    <3>. QED
      BY <1>5, <1>6, <2>3, <3>1, <3>2, <3>3
  <2>4. CASE \E h \in 1..k : i = m + 1 + h
    <3>1. PICK h \in 1..k : i = m + 1 + h
      BY <2>4
    <3>2. new[i] = single(h)
      BY <1>6, <3>1
    <3>3. single(h).calls = <<>>
      BY DEF single
    <3>4. DOMAIN new[i].calls = {}
      BY <3>2, <3>3
    <3>. QED
      BY <3>4
  <2>. QED
    BY <2>1, <2>2, <2>3, <2>4
<1>. QED
  BY <1>2, <1>3, <1>4, <1>7 DEF Answered, question, answer

-----------------------------------------------------------------------------
(* The steps of a conversation *)

LEMMA CallsTyped ==
  ASSUME NEW turn \in Nat, NEW blocks \in Seq(Blocks)
  PROVE  CallsOf(turn, blocks) \in Seq(ToolCall)
<1> DEFINE call(n) == [id |-> <<turn, n>>, name |-> blocks[n]]
           one(n) == IF blocks[n] \in ClientTools THEN <<call(n)>> ELSE <<>>
           parts == [n \in DOMAIN blocks |-> one(n)]
<1>1. Len(blocks) \in Nat /\ DOMAIN blocks = 1..Len(blocks)
  BY LenProperties
<1>2. ASSUME NEW n \in 1..Len(blocks) PROVE one(n) \in Seq(ToolCall)
  <2>1. n \in Nat
    BY <1>1
  <2>2. <<>> \in Seq(ToolCall)
    BY EmptySeq
  <2>3. blocks[n] \in ClientTools => call(n) \in ToolCall
    BY <2>1 DEF ToolCall, CallId
  <2> HIDE DEF call
  <2>. QED
    BY <2>2, <2>3
<1>3. parts \in Seq(Seq(ToolCall))
  <2> HIDE DEF one
  <2>. QED
    BY <1>1, <1>2, IsASeq
<1>4. CallsOf(turn, blocks) = FlattenSeq(parts)
  <2>1. CallsOf(turn, blocks) = FlattenSeq(parts)
    BY DEF CallsOf
  <2>. QED
    BY <2>1
<1>. QED
  BY <1>3, <1>4, FlattenElements

LEMMA IdsTyped ==
  ASSUME NEW calls \in Seq(ToolCall)
  PROVE  /\ Ids(calls) \in Seq(CallId)
         /\ Len(Ids(calls)) = Len(calls)
         /\ \A n \in 1..Len(calls) : Ids(calls)[n] = calls[n].id
<1>1. Len(calls) \in Nat /\ DOMAIN calls = 1..Len(calls) /\ \A n \in 1..Len(calls) : calls[n] \in ToolCall
  BY LenProperties
<1>2. \A n \in 1..Len(calls) : calls[n].id \in CallId
  BY <1>1 DEF ToolCall
<1>3. Ids(calls) = [n \in 1..Len(calls) |-> calls[n].id]
  BY <1>1 DEF Ids
<1>4. Ids(calls) \in Seq(CallId)
  BY <1>1, <1>2, <1>3, IsASeq
<1>5. DOMAIN Ids(calls) = 1..Len(calls)
  BY <1>3
<1>6. Len(Ids(calls)) = Len(calls)
  BY <1>1, <1>4, <1>5, LenProperties
<1>. QED
  BY <1>3, <1>4, <1>6

\* The first call gets its result: what is answered and what waits are still
\* the calls of the message.
LEMMA FirstAnswered ==
  ASSUME NEW results \in Seq(CallId), NEW pending \in Seq(ToolCall), pending # <<>>
  PROVE  /\ Head(pending) \in ToolCall /\ Tail(pending) \in Seq(ToolCall)
         /\ results \o <<Head(pending).id>> \in Seq(CallId)
         /\ results \o <<Head(pending).id>> # <<>>
         /\ (results \o <<Head(pending).id>>) \o Ids(Tail(pending)) =
              results \o Ids(pending)
         /\ Len(pending) = 1 => Ids(Tail(pending)) = <<>>
         /\ Len(pending) # 1 => Tail(pending) # <<>>
<1> DEFINE h == Head(pending)
           t == Tail(pending)
           n == Len(pending)
<1>1. /\ h \in ToolCall /\ t \in Seq(ToolCall) /\ Len(t) = n - 1
      /\ \A i \in 1..Len(t) : t[i] = pending[i + 1]
      /\ n \in Nat \ {0} /\ h = pending[1]
  <2>1. n \in Nat \ {0}
    BY EmptySeq
  <2>. QED
    BY <2>1, HeadTailProperties
<1> HIDE DEF h, t
<1>2. h.id \in CallId /\ <<h.id>> \in Seq(CallId) /\ Len(<<h.id>>) = 1 /\ <<h.id>>[1] = h.id
  BY <1>1 DEF ToolCall
<1>3. /\ Ids(t) \in Seq(CallId) /\ Len(Ids(t)) = n - 1
      /\ \A i \in 1..n - 1 : Ids(t)[i] = t[i].id
  BY <1>1, IdsTyped
<1>4. /\ Ids(pending) \in Seq(CallId) /\ Len(Ids(pending)) = n
      /\ \A i \in 1..n : Ids(pending)[i] = pending[i].id
  BY IdsTyped
<1>5. <<h.id>> \o Ids(t) = Ids(pending)
  <2> DEFINE both == <<h.id>> \o Ids(t)
  <2>1. /\ both \in Seq(CallId) /\ Len(both) = n
        /\ \A i \in 1..n : both[i] = IF i <= 1 THEN <<h.id>>[i] ELSE Ids(t)[i - 1]
    <3>1. /\ both \in Seq(CallId) /\ Len(both) = 1 + (n - 1)
          /\ \A i \in 1..1 + (n - 1) : both[i] = IF i <= 1 THEN <<h.id>>[i] ELSE Ids(t)[i - 1]
      BY <1>2, <1>3, ConcatProperties
    <3>2. 1 + (n - 1) = n
      BY <1>1
    <3>. QED
      BY <3>1, <3>2
  <2> HIDE DEF both
  <2>2. ASSUME NEW i \in 1..n PROVE both[i] = Ids(pending)[i]
    <3>1. CASE i = 1
      BY <1>1, <1>2, <1>4, <2>1, <3>1
    <3>2. CASE i # 1
      <4>1. i - 1 \in 1..n - 1 /\ ~(i <= 1) /\ i - 1 + 1 = i
        BY <1>1, <3>2
      <4>2. both[i] = t[i - 1].id
        BY <1>3, <2>1, <4>1
      <4>3. t[i - 1] = pending[i]
        BY <1>1, <4>1
      <4>. QED
        BY <1>4, <4>2, <4>3
    <3>. QED
      BY <3>1, <3>2
  <2>3. both = Ids(pending)
    BY <1>4, <2>1, <2>2, SeqEqual
  <2>. QED
    BY <2>3 DEF both
<1>6. (results \o <<h.id>>) \o Ids(t) = results \o (<<h.id>> \o Ids(t))
  BY <1>2, <1>3, ConcatAssociative
<1>7. results \o <<h.id>> \in Seq(CallId) /\ results \o <<h.id>> # <<>>
  <2>1. /\ results \o <<h.id>> \in Seq(CallId)
        /\ Len(results \o <<h.id>>) = Len(results) + Len(<<h.id>>)
    BY <1>2, ConcatProperties
  <2>2. Len(results) \in Nat
    BY LenProperties
  <2>3. Len(results \o <<h.id>>) # 0
    BY <1>2, <2>1, <2>2
  <2>. QED
    BY <2>1, <2>3, EmptySeq
<1>8. n = 1 => Ids(t) = <<>>
  BY <1>3, EmptySeq
<1>9. n # 1 => t # <<>>
  BY <1>1, EmptySeq
<1>. QED
  BY <1>1, <1>5, <1>6, <1>7, <1>8, <1>9 DEF h, t

LEMMA NoTalkTyped ==
  /\ NoTalk \in TalkRecord /\ NoTalk.stage = "idle"
  /\ NoTalk.proposed = FALSE /\ NoTalk.called = <<>>
<1>1. /\ <<>> \in Seq(Message) /\ <<>> \in Seq(ToolCall) /\ <<>> \in Seq(CallId)
      /\ <<>> \in Seq(ClientTools)
  BY EmptySeq
<1>. QED
  BY <1>1 DEF NoTalk, TalkRecord, Stages

LEMMA BeginTalkInv == ASSUME ConversationInv, BeginTalk PROVE ConversationInv'
<1>1. /\ provider' = provider
      /\ talk' = [NoTalk EXCEPT !.stage = "ask", !.messages = <<Task>>]
  BY DEF BeginTalk
<1>2. talk' \in TalkRecord /\ talk'.stage = "ask" /\ talk'.messages = <<Task>>
  <2>1. "ask" \in Stages
    BY DEF Stages
  <2>. QED
    BY <1>1, <2>1, NoTalkTyped, OnlyTask DEF TalkRecord
<1>. QED
  BY <1>1, <1>2, OnlyTask DEF ConversationInv

LEMMA ReplyInv == ASSUME ConversationInv, Reply PROVE ConversationInv'
<1>1. PICK reply \in Replies :
        LET calls == CallsOf(talk.iteration + 1, reply.blocks)
        IN talk' = [talk EXCEPT
             !.stage = IF calls = <<>> THEN "finished" ELSE "dispatch",
             !.iteration = @ + 1,
             !.messages = Append(@, Assistant(Ids(calls))),
             !.pending = calls, !.results = <<>>, !.stop = reply.stop]
  BY DEF Reply
<1>2. provider' = provider /\ talk \in TalkRecord /\ Answered(talk.messages)
  BY DEF Reply, ConversationInv
<1>3. PICK calls : calls = CallsOf(talk.iteration + 1, reply.blocks)
  OBVIOUS
<1>4. reply.blocks \in Seq(Blocks) /\ reply.stop \in {"tool_use", "tool_calls", "end"}
  <2>1. reply \in [blocks : SeqOf(Blocks, MaxBlocks),
                   stop : {ToolStop, OtherStop}]
    BY DEF Replies
  <2>2. ToolStop \in {"tool_use", "tool_calls"} /\ OtherStop = "end"
    BY DEF ToolStop, OtherStop
  <2>3. \A s \in SeqOf(Blocks, MaxBlocks) : s \in Seq(Blocks)
    BY DEF SeqOf
  <2>. QED
    BY <2>1, <2>2, <2>3
<1>5. calls \in Seq(ToolCall) /\ talk.iteration + 1 \in Nat
  <2>1. talk.iteration + 1 \in Nat
    BY <1>2 DEF TalkRecord
  <2>. QED
    BY <1>3, <1>4, <2>1, CallsTyped
<1>6. PICK ids : ids = Ids(calls)
  OBVIOUS
<1>7. ids \in Seq(CallId)
  BY <1>5, <1>6, IdsTyped
<1>8. PICK said : said = Assistant(ids)
  OBVIOUS
<1>9. said \in Message
  <2>1. <<>> \in Seq(CallId)
    BY EmptySeq
  <2>. QED
    BY <1>7, <1>8, <2>1 DEF Message, Assistant
<1>10. talk' = [talk EXCEPT
          !.stage = IF calls = <<>> THEN "finished" ELSE "dispatch",
          !.iteration = @ + 1, !.messages = Append(@, said),
          !.pending = calls, !.results = <<>>, !.stop = reply.stop]
  BY <1>1, <1>3, <1>6, <1>8
<1>11. talk.messages \in Seq(Message) /\ Append(talk.messages, said) \in Seq(Message)
  <2>1. talk.messages \in Seq(Message)
    BY <1>2 DEF TalkRecord
  <2>. QED
    BY <1>9, <2>1, AppendProperties
<1>12. /\ talk' \in TalkRecord
       /\ talk'.stage = IF calls = <<>> THEN "finished" ELSE "dispatch"
       /\ talk'.messages = Append(talk.messages, said)
       /\ talk'.pending = calls /\ talk'.results = <<>>
  <2>1. "finished" \in Stages /\ "dispatch" \in Stages
    BY DEF Stages
  <2>2. <<>> \in Seq(CallId)
    BY EmptySeq
  <2>. QED
    BY <1>2, <1>4, <1>5, <1>10, <1>11, <2>1, <2>2 DEF TalkRecord
<1>13. Waiting(talk'.messages, ids)
  BY <1>2, <1>8, <1>11, <1>12 DEF Waiting
<1>14. talk'.results \o Ids(talk'.pending) = ids
  BY <1>6, <1>7, <1>12, ConcatEmptySeq
<1>. QED
  BY <1>2, <1>12, <1>13, <1>14 DEF ConversationInv

\* The conversation moves to a stage in which nothing is promised.
LEMMA StageOnly ==
  ASSUME ConversationInv, provider' = provider,
         NEW stage_ \in {"finished", "failed"}, talk' = [talk EXCEPT !.stage = stage_]
  PROVE  ConversationInv'
<1>1. talk \in TalkRecord /\ stage_ \in Stages
  BY DEF ConversationInv, Stages
<1>2. talk' \in TalkRecord /\ talk'.stage = stage_
  BY <1>1 DEF TalkRecord
<1>. QED
  BY <1>2 DEF ConversationInv

LEMMA DispatchInv == ASSUME ConversationInv, Dispatch PROVE ConversationInv'
<1>1. PICK call, outcome :
        /\ call = Head(talk.pending)
        /\ talk' = [talk EXCEPT
             !.stage = IF Len(talk.pending) = 1 THEN "answer" ELSE "dispatch",
             !.pending = Tail(@),
             !.called = Append(@, call.name),
             !.proposed = @ \/ Proposed(call.name, outcome),
             !.results = @ \o ResultOf(call, outcome)]
  BY DEF Dispatch
<1>2. /\ provider' = provider /\ talk \in TalkRecord /\ talk.pending # <<>>
      /\ Waiting(talk.messages, talk.results \o Ids(talk.pending))
  BY DEF Dispatch, ConversationInv
<1>3. talk.results \in Seq(CallId) /\ talk.pending \in Seq(ToolCall)
  BY <1>2 DEF TalkRecord
<1>4. PICK results, pending, called, proposed :
        /\ results = talk.results \o <<call.id>>
        /\ pending = Tail(talk.pending)
        /\ called = Append(talk.called, call.name)
        /\ proposed = (talk.proposed \/ Proposed(call.name, outcome))
  OBVIOUS
<1>5. /\ results \in Seq(CallId) /\ results # <<>> /\ pending \in Seq(ToolCall)
      /\ results \o Ids(pending) = talk.results \o Ids(talk.pending)
      /\ Len(talk.pending) = 1 => Ids(pending) = <<>>
      /\ Len(talk.pending) # 1 => pending # <<>>
      /\ call \in ToolCall
  BY <1>1, <1>2, <1>3, <1>4, FirstAnswered
<1>6. called \in Seq(ClientTools)
  <2>1. talk.called \in Seq(ClientTools) /\ call.name \in ClientTools
    BY <1>2, <1>5 DEF TalkRecord, ToolCall
  <2>. QED
    BY <1>4, <2>1, AppendProperties
<1>7. proposed \in BOOLEAN
  BY <1>4, Zenon
<1>8. talk' = [talk EXCEPT
         !.stage = IF Len(talk.pending) = 1 THEN "answer" ELSE "dispatch",
         !.pending = pending, !.called = called, !.proposed = proposed, !.results = results]
  BY <1>1, <1>4 DEF ResultOf
<1>9. /\ talk' \in TalkRecord
      /\ talk'.stage = IF Len(talk.pending) = 1 THEN "answer" ELSE "dispatch"
      /\ talk'.messages = talk.messages /\ talk'.pending = pending /\ talk'.results = results
  <2>1. "answer" \in Stages /\ "dispatch" \in Stages
    BY DEF Stages
  <2>. QED
    BY <1>2, <1>5, <1>6, <1>7, <1>8, <2>1 DEF TalkRecord
<1>10. Waiting(talk'.messages, results \o Ids(pending))
  BY <1>2, <1>5, <1>9
<1>11. Len(talk.pending) = 1 => results \o Ids(pending) = results
  BY <1>5, ConcatEmptySeq
<1>. QED
  BY <1>2, <1>5, <1>9, <1>10, <1>11 DEF ConversationInv

LEMMA AnswerInv == ASSUME ConversationInv, Answer PROVE ConversationInv'
<1>1. /\ talk.stage = "answer" /\ provider' = provider
      /\ talk' = [talk EXCEPT
           !.stage = IF talk.stop # "tool_use" \/ talk.iteration = MaxIterations
                     THEN "finished" ELSE "ask",
           !.messages = Append(@, Results(talk.results))]
  BY DEF Answer
<1>2. talk \in TalkRecord /\ talk.results # <<>> /\ Waiting(talk.messages, talk.results)
  BY <1>1 DEF ConversationInv
<1>3. PICK front \in Seq(Message) :
        talk.messages = Append(front, Assistant(talk.results)) /\ Answered(front)
  BY <1>2 DEF Waiting
<1>4. talk.results \in Seq(CallId)
  BY <1>2 DEF TalkRecord
<1>5. PICK all : all = Append(talk.messages, Results(talk.results))
  OBVIOUS
<1>6. all \in Seq(Message) /\ Answered(all)
  BY <1>2, <1>3, <1>4, <1>5, AnsweredNext
<1>7. PICK stage_ \in {"finished", "ask"} :
        talk' = [talk EXCEPT !.stage = stage_, !.messages = all]
  BY <1>1, <1>5
<1>8. talk' \in TalkRecord /\ talk'.stage = stage_ /\ talk'.messages = all
  <2>1. stage_ \in Stages
    BY DEF Stages
  <2>. QED
    BY <1>2, <1>6, <1>7, <2>1 DEF TalkRecord
<1>. QED
  BY <1>1, <1>6, <1>8 DEF ConversationInv

LEMMA ConversationStep == ASSUME ConversationInv, LoopStep PROVE ConversationInv'
<1>1. CASE Reply
  BY <1>1, ReplyInv
<1>2. CASE ReplyFails
  <2>1. provider' = provider /\ talk' = [talk EXCEPT !.stage = "failed"]
    BY <1>2 DEF ReplyFails
  <2>. QED
    BY <2>1, StageOnly
<1>3. CASE Dispatch
  BY <1>3, DispatchInv
<1>4. CASE DispatchFails
  <2>1. provider' = provider /\ talk' = [talk EXCEPT !.stage = "failed"]
    BY <1>4 DEF DispatchFails
  <2>. QED
    BY <2>1, StageOnly
<1>5. CASE Answer
  BY <1>5, AnswerInv
<1>. QED
  BY <1>1, <1>2, <1>3, <1>4, <1>5 DEF LoopStep

LEMMA ConversationSame ==
  ASSUME ConversationInv, UNCHANGED <<provider, talk>>
  PROVE  ConversationInv'
BY DEF ConversationInv, Answered, Waiting, Stages

-----------------------------------------------------------------------------
(* The report *)

ReportEntry == [error : BOOLEAN, proposed : BOOLEAN, called : Seq(ClientTools)]
Submits(called) == "submit_trade_proposal" \in ToSet(called)

\* What a conversation knows of its trades: only a tool whose result could not
\* be written leaves a trade that is not marked, and that ends it as failed.
TradeInv ==
  /\ acted \in BOOLEAN
  /\ acted => talk.proposed \/ talk.stage = "failed"
  /\ talk.proposed <=> Submits(talk.called)

ReportedInv ==
  /\ report \in Seq(ReportEntry)
  /\ hidden \subseteq DOMAIN report
  /\ TradesAreReported

ReviewInv == ConversationInv /\ TradeInv /\ ReportedInv

LEMMA SubmitsAppended ==
  ASSUME NEW called \in Seq(ClientTools), NEW name \in ClientTools
  PROVE  Submits(Append(called, name)) <=> Submits(called) \/ name = "submit_trade_proposal"
<1> DEFINE n == Len(called)
           longer == Append(called, name)
<1>1. /\ n \in Nat /\ DOMAIN called = 1..n /\ DOMAIN longer = 1..n + 1
      /\ longer[n + 1] = name /\ \A i \in 1..n : longer[i] = called[i]
  <2>1. /\ n \in Nat /\ DOMAIN called = 1..n
        /\ longer \in Seq(ClientTools) /\ Len(longer) = n + 1
        /\ longer[n + 1] = name /\ \A i \in 1..n : longer[i] = called[i]
    BY AppendProperties, LenProperties
  <2>2. DOMAIN longer = 1..Len(longer)
    BY <2>1, LenProperties
  <2>. QED
    BY <2>1, <2>2
<1> HIDE DEF longer
<1>2. Submits(longer) <=> \E i \in 1..n + 1 : longer[i] = "submit_trade_proposal"
  BY <1>1 DEF Submits, ToSet
<1>3. Submits(called) <=> \E i \in 1..n : called[i] = "submit_trade_proposal"
  BY <1>1 DEF Submits, ToSet
<1>4. \A i \in 1..n + 1 : i \in 1..n \/ i = n + 1
  BY <1>1
<1>5. n + 1 \in 1..n + 1 /\ \A i \in 1..n : i \in 1..n + 1
  BY <1>1
<1>. QED
  BY <1>1, <1>2, <1>3, <1>4, <1>5 DEF longer

LEMMA NothingSubmitted == ~Submits(<<>>)
BY DEF Submits, ToSet

LEMMA TradeStep == ASSUME ConversationInv, TradeInv, LoopStep PROVE TradeInv'
<1>1. talk \in TalkRecord
  BY DEF ConversationInv
<1>2. CASE Dispatch
  <2>1. PICK call, outcome :
          /\ call = Head(talk.pending)
          /\ talk' = [talk EXCEPT
               !.stage = IF Len(talk.pending) = 1 THEN "answer" ELSE "dispatch",
               !.pending = Tail(@),
               !.called = Append(@, call.name),
               !.proposed = @ \/ Proposed(call.name, outcome),
               !.results = @ \o ResultOf(call, outcome)]
          /\ acted' = (acted \/ TookEffect(call.name, outcome))
    BY <1>2 DEF Dispatch
  <2>2. talk.stage = "dispatch" /\ talk.pending # <<>>
    BY <1>2 DEF Dispatch, ConversationInv
  <2>3. call.name \in ClientTools /\ talk.called \in Seq(ClientTools)
    BY <1>1, <2>1, <2>2, FirstAnswered DEF TalkRecord, ToolCall
  <2>4. /\ talk'.called = Append(talk.called, call.name)
        /\ talk'.proposed = (talk.proposed \/ call.name = "submit_trade_proposal")
    BY <1>1, <2>1 DEF TalkRecord, Proposed
  <2>5. Submits(talk'.called) <=> Submits(talk.called) \/ call.name = "submit_trade_proposal"
    BY <2>3, <2>4, SubmitsAppended
  <2>6. TookEffect(call.name, outcome) => call.name = "submit_trade_proposal"
    BY DEF TookEffect
  <2>7. acted' \in BOOLEAN
    BY <2>1, Zenon
  <2>. QED
    BY <2>1, <2>2, <2>4, <2>5, <2>6, <2>7 DEF TradeInv
<1>3. CASE DispatchFails
  <2>1. /\ talk' = [talk EXCEPT !.stage = "failed"]
        /\ acted' \in {acted, acted \/ TookEffect(Head(talk.pending).name, "returned")}
    BY <1>3 DEF DispatchFails
  <2>2. acted' \in BOOLEAN
    BY <2>1, Zenon DEF TradeInv
  <2>3. talk'.stage = "failed" /\ talk'.called = talk.called /\ talk'.proposed = talk.proposed
    BY <1>1, <2>1 DEF TalkRecord
  <2>. QED
    BY <2>2, <2>3 DEF TradeInv
<1>4. CASE Reply \/ ReplyFails \/ Answer
  <2>1. talk.stage \in {"ask", "answer"} /\ acted' = acted
    BY <1>4 DEF Reply, ReplyFails, Answer
  <2>2. talk'.called = talk.called /\ talk'.proposed = talk.proposed
    <3>1. CASE Reply
      BY <1>1, <3>1 DEF Reply, TalkRecord
    <3>2. CASE ReplyFails
      BY <1>1, <3>2 DEF ReplyFails, TalkRecord
    <3>3. CASE Answer
      BY <1>1, <3>3 DEF Answer, TalkRecord
    <3>. QED
      BY <1>4, <3>1, <3>2, <3>3
  <2>. QED
    BY <2>1, <2>2 DEF TradeInv
<1>. QED
  BY <1>2, <1>3, <1>4 DEF LoopStep

\* One more entry, which tells of a trade unless it is an error.
LEMMA ReportLonger ==
  ASSUME ReportedInv, NEW entry \in ReportEntry, report' = Append(report, entry),
         hidden' \in {hidden, hidden \cup {Len(report')}},
         hidden' = hidden \/ entry.proposed \/ entry.error,
         entry.proposed <=> Submits(entry.called)
  PROVE  ReportedInv'
<1> DEFINE n == Len(report)
<1>1. /\ n \in Nat /\ DOMAIN report = 1..n
      /\ report' \in Seq(ReportEntry) /\ Len(report') = n + 1 /\ report'[n + 1] = entry
      /\ \A i \in 1..n : report'[i] = report[i]
  <2>1. report \in Seq(ReportEntry)
    BY DEF ReportedInv
  <2>. QED
    BY <2>1, AppendProperties, LenProperties
<1>2. DOMAIN report' = 1..n + 1
  BY <1>1, LenProperties
<1>3. hidden' \subseteq DOMAIN report' /\ (n + 1 \in hidden' => entry.proposed \/ entry.error)
  <2>1. hidden \subseteq 1..n
    BY <1>1 DEF ReportedInv
  <2>. QED
    BY <1>1, <1>2, <2>1
<1>4. ASSUME NEW i \in DOMAIN report'
      PROVE  /\ i \in hidden' => report'[i].proposed \/ report'[i].error
             /\ report'[i].proposed <=> Submits(report'[i].called)
  <2>1. i \in 1..n \/ i = n + 1
    BY <1>1, <1>2
  <2>2. CASE i \in 1..n
    <3>1. i \in hidden' => i \in hidden
      BY <1>1, <2>2
    <3>. QED
      BY <1>1, <2>2, <3>1 DEF ReportedInv, TradesAreReported, Submits
  <2>3. CASE i = n + 1
    BY <1>1, <1>3, <2>3
  <2>. QED
    BY <2>1, <2>2, <2>3
<1>5. TradesAreReported'
  BY <1>4 DEF TradesAreReported, Submits
<1>. QED
  BY <1>1, <1>3, <1>5 DEF ReportedInv

LEMMA ReviewInitially == ASSUME ReviewInit PROVE ReviewInv
<1>1. /\ provider \in {"claude", "compatible"} /\ talk = NoTalk /\ acted = FALSE
      /\ report = <<>> /\ hidden = {}
  BY DEF ReviewInit, LoopInit
<1>2. ConversationInv
  BY <1>1, NoTalkTyped DEF ConversationInv
<1>3. TradeInv
  BY <1>1, NoTalkTyped, NothingSubmitted DEF TradeInv
<1>4. ReportedInv
  <2>1. <<>> \in Seq(ReportEntry)
    BY EmptySeq
  <2>. QED
    BY <1>1, <2>1 DEF ReportedInv, TradesAreReported
<1>. QED
  BY <1>2, <1>3, <1>4 DEF ReviewInv

LEMMA EndInstrumentInv == ASSUME ReviewInv, EndInstrument PROVE ReviewInv'
<1>1. /\ provider' = provider /\ talk' = NoTalk /\ acted' = FALSE
      /\ talk.stage \in {"finished", "failed"}
      /\ report' = Reported
      /\ hidden' = IF acted THEN hidden \cup {Len(report')} ELSE hidden
  BY DEF EndInstrument
<1>2. ConversationInv'
  BY <1>1, NoTalkTyped DEF ReviewInv, ConversationInv
<1>3. TradeInv'
  BY <1>1, NoTalkTyped, NothingSubmitted DEF TradeInv
<1>4. talk \in TalkRecord /\ TradeInv /\ ReportedInv
  BY DEF ReviewInv, ConversationInv
<1>5. PICK entry : entry = IF talk.stage = "failed" THEN Entry(TRUE, FALSE, <<>>)
                           ELSE Entry(FALSE, talk.proposed, talk.called)
  OBVIOUS
<1>6. report' = Append(report, entry)
  BY <1>1, <1>5 DEF Reported
<1>7. /\ entry \in ReportEntry
      /\ entry.proposed <=> Submits(entry.called)
      /\ acted => entry.proposed \/ entry.error
  <2>1. CASE talk.stage = "failed"
    <3>1. <<>> \in Seq(ClientTools)
      BY EmptySeq
    <3>. QED
      BY <1>5, <2>1, <3>1, NothingSubmitted DEF Entry, ReportEntry
  <2>2. CASE talk.stage # "failed"
    <3>1. entry = [error |-> FALSE, proposed |-> talk.proposed, called |-> talk.called]
      BY <1>5, <2>2 DEF Entry
    <3>2. talk.proposed \in BOOLEAN /\ talk.called \in Seq(ClientTools)
      BY <1>4 DEF TalkRecord
    <3>3. entry \in ReportEntry
      BY <3>1, <3>2 DEF ReportEntry
    <3>4. entry.proposed = talk.proposed /\ entry.called = talk.called
      BY <3>1
    <3>. QED
      BY <1>4, <2>2, <3>3, <3>4 DEF TradeInv
  <2>. QED
    BY <2>1, <2>2
<1>8. hidden' \in {hidden, hidden \cup {Len(report')}} /\ (hidden' = hidden \/ entry.proposed \/ entry.error)
  BY <1>1, <1>7
<1>9. ReportedInv'
  BY <1>4, <1>6, <1>7, <1>8, ReportLonger
<1>. QED
  BY <1>2, <1>3, <1>9 DEF ReviewInv

LEMMA RunAlgoInv == ASSUME ReviewInv, RunAlgo PROVE ReviewInv'
<1>1. /\ UNCHANGED <<provider, talk, acted, hidden>>
      /\ \E error \in BOOLEAN : report' = Append(report, Entry(error, FALSE, <<>>))
  BY DEF RunAlgo, loopVars
<1>2. PICK error \in BOOLEAN : report' = Append(report, Entry(error, FALSE, <<>>))
  BY <1>1
<1>3. PICK entry : entry = Entry(error, FALSE, <<>>)
  OBVIOUS
<1>4. entry \in ReportEntry /\ (entry.proposed <=> Submits(entry.called))
  <2>1. <<>> \in Seq(ClientTools)
    BY EmptySeq
  <2>. QED
    BY <1>3, <2>1, NothingSubmitted DEF Entry, ReportEntry
<1>5. ReportedInv'
  BY <1>1, <1>2, <1>3, <1>4, ReportLonger DEF ReviewInv
<1>6. ConversationInv' /\ TradeInv'
  BY <1>1, ConversationSame DEF ReviewInv, TradeInv
<1>. QED
  BY <1>5, <1>6 DEF ReviewInv

LEMMA ReviewInductive == ASSUME ReviewInv, [ReviewNext]_(reviewVars) PROVE ReviewInv'
<1>1. ASSUME UNCHANGED <<report, hidden>>, ConversationInv', TradeInv' PROVE ReviewInv'
  BY <1>1 DEF ReviewInv, ReportedInv, TradesAreReported
<1>2. ASSUME UNCHANGED <<provider, talk, acted, report, hidden>> PROVE ReviewInv'
  <2>1. ConversationInv' /\ TradeInv'
    BY <1>2, ConversationSame DEF ReviewInv, TradeInv
  <2>. QED
    BY <1>1, <1>2, <2>1
<1>3. CASE \/ OpenToolkit \/ Refuse \/ Close \/ Write \/ Done
           \/ UNCHANGED reviewVars
  <2>1. UNCHANGED <<provider, talk, acted, report, hidden>>
    BY <1>3 DEF OpenToolkit, Refuse, Close, Write, Done, reviewVars,
      loopVars
  <2>. QED
    BY <1>2, <2>1
<1>4. CASE BeginInstrument
  <2>1. BeginTalk /\ UNCHANGED <<report, hidden>>
    BY <1>4 DEF BeginInstrument
  <2>2. ConversationInv'
    BY <2>1, BeginTalkInv DEF ReviewInv
  <2>3. talk'.proposed = FALSE /\ talk'.called = <<>> /\ acted' = FALSE
    BY <2>1, NoTalkTyped DEF BeginTalk, TalkRecord
  <2>4. TradeInv'
    BY <2>3, NothingSubmitted DEF TradeInv
  <2>. QED
    BY <1>1, <2>1, <2>2, <2>4
<1>5. CASE Converse
  <2>1. LoopStep /\ UNCHANGED <<report, hidden>>
    BY <1>5 DEF Converse
  <2>2. ConversationInv' /\ TradeInv'
    BY <2>1, ConversationStep, TradeStep DEF ReviewInv
  <2>. QED
    BY <1>1, <2>1, <2>2
<1>6. CASE EndInstrument
  BY <1>6, EndInstrumentInv
<1>7. CASE RunAlgo
  BY <1>7, RunAlgoInv
<1>. QED
  BY <1>3, <1>4, <1>5, <1>6, <1>7 DEF ReviewNext, ReviewStep

LEMMA ReviewInvariant == ReviewSpec => []ReviewInv
BY ReviewInitially, ReviewInductive, PTL DEF ReviewSpec

\* Every request of a conversation answers the calls before it, once and in
\* order, in the form of either provider: for any number of replies, calls and
\* failures of the tools.
THEOREM AnsweredCalls == ReviewSpec => []CallsAreAnswered
<1>1. ReviewInv => CallsAreAnswered
  BY DEF ReviewInv, ConversationInv, Answered, CallsAreAnswered
<1>. QED
  BY <1>1, ReviewInvariant, PTL

\* The report tells every trade, or has an error entry for it, however long the
\* watchlist is.
THEOREM ReportedTrades == ReviewSpec => []TradesAreReported
<1>1. ReviewInv => TradesAreReported
  BY DEF ReviewInv, ReportedInv
<1>. QED
  BY <1>1, ReviewInvariant, PTL

-----------------------------------------------------------------------------
(* The research tools: folds over a sequence, from its front *)

LEMMA MaxIs ==
  ASSUME NEW T, T \subseteq Nat, T # {}, NEW m \in Nat, \A x \in T : x <= m
  PROVE  Max(T) \in T /\ \A x \in T : x <= Max(T)
<1> DEFINE gaps == {d \in Nat : \E x \in T : d = m - x}
<1>1. \A x \in T : m - x \in gaps
  OBVIOUS
<1>2. gaps # {} /\ gaps \subseteq Nat
  BY <1>1
<1>3. PICK d \in gaps : \A c \in gaps : d <= c
  <2> HIDE DEF gaps
  <2>. QED
    BY <1>2, LeastNat
<1>4. PICK x \in T : d = m - x
  OBVIOUS
<1>5. \A y \in T : x >= y
  BY <1>1, <1>3, <1>4
<1>6. Max(T) \in T /\ \A y \in T : Max(T) >= y
  BY <1>5 DEF Max
<1>. QED
  BY <1>6

\* What a fold over the first m positions is chosen to be.
FoldOf(base, step, m, iter) ==
  \A T \in SUBSET (1..m) :
    iter[T] = IF T = {} THEN base ELSE step[Max(T)][iter[T \ {Max(T)}]]

LEMMA FoldExists ==
  ASSUME NEW V, NEW base \in V, NEW m \in Nat, NEW step \in [1..m -> [V -> V]]
  PROVE  \E iter \in [SUBSET (1..m) -> V] : FoldOf(base, step, m, iter)
<1> DEFINE Has(k) == \E iter \in [SUBSET (1..k) -> V] : FoldOf(base, step, k, iter)
           Bad == {k \in Nat : k <= m /\ ~Has(k)}
<1> SUFFICES ASSUME ~Has(m) PROVE FALSE
  OBVIOUS
<1>1. PICK k \in Bad : \A j \in Bad : k <= j
  <2>1. m \in Bad /\ Bad \subseteq Nat
    <3> HIDE DEF Has
    <3>. QED
      OBVIOUS
  <2> HIDE DEF Bad
  <2>. QED
    BY <2>1, LeastNat
<1>2. k \in Nat /\ k <= m /\ ~Has(k)
  OBVIOUS
<1>3. CASE k = 0
  <2> DEFINE none == [T \in SUBSET (1..0) |-> base]
  <2>1. \A T \in SUBSET (1..0) : T = {}
    OBVIOUS
  <2>2. none \in [SUBSET (1..0) -> V] /\ FoldOf(base, step, 0, none)
    BY <2>1 DEF FoldOf
  <2>. QED
    BY <1>2, <1>3, <2>2
<1>4. CASE k # 0
  <2>1. k - 1 \in Nat /\ k - 1 <= m /\ ~(k <= k - 1) /\ k \in 1..m
    BY <1>2, <1>4
  <2>2. Has(k - 1)
    BY <1>1, <2>1
  <2>3. PICK before \in [SUBSET (1..k - 1) -> V] : FoldOf(base, step, k - 1, before)
    BY <2>2
  <2> DEFINE iter == [T \in SUBSET (1..k) |-> IF k \in T THEN step[k][before[T \ {k}]] ELSE before[T]]
  <2>4. \A T \in SUBSET (1..k) : T \ {k} \in SUBSET (1..k - 1)
    BY <2>1
  <2>5. \A T \in SUBSET (1..k - 1) : T \in SUBSET (1..k) /\ k \notin T
    BY <2>1
  <2>6. \A T \in SUBSET (1..k) : k \notin T => T \in SUBSET (1..k - 1)
    BY <2>4
  <2>7. iter \in [SUBSET (1..k) -> V]
    <3>1. ASSUME NEW T \in SUBSET (1..k), k \in T PROVE step[k][before[T \ {k}]] \in V
      BY <2>1, <2>4
    <3>2. ASSUME NEW T \in SUBSET (1..k), k \notin T PROVE before[T] \in V
      BY <2>6, <3>2
    <3>. QED
      BY <3>1, <3>2
  <2>8. \A T \in SUBSET (1..k - 1) : iter[T] = before[T]
    BY <2>5
  <2>9. ASSUME NEW T \in SUBSET (1..k)
        PROVE  iter[T] = IF T = {} THEN base ELSE step[Max(T)][iter[T \ {Max(T)}]]
    <3>1. CASE T = {}
      <4>1. T \in SUBSET (1..k - 1)
        BY <3>1
      <4>2. before[T] = base
        BY <2>3, <3>1, <4>1 DEF FoldOf
      <4>. QED
        BY <2>8, <3>1, <4>1, <4>2
    <3>2. CASE T # {}
      <4>1. T \subseteq Nat /\ (\A x \in T : x <= k)
        BY <2>1
      <4>2. Max(T) \in T /\ \A x \in T : x <= Max(T)
        BY <1>2, <3>2, <4>1, MaxIs
      <4>3. CASE k \in T
        <5>1. Max(T) = k
          <6> HIDE DEF iter, Bad, Has
          <6>1. PICK x \in Nat : x = Max(T)
            BY <4>1, <4>2
          <6>. QED
            BY <1>2, <4>1, <4>2, <4>3, <6>1
        <5>2. iter[T \ {k}] = before[T \ {k}]
          BY <2>4, <2>8
        <5>3. iter[T] = step[k][before[T \ {k}]]
          BY <4>3
        <5> HIDE DEF iter
        <5>. QED
          BY <3>2, <5>1, <5>2, <5>3
      <4>4. CASE k \notin T
        <5>1. T \in SUBSET (1..k - 1) /\ T \ {Max(T)} \in SUBSET (1..k - 1)
          BY <2>6, <4>4
        <5>2. before[T] = step[Max(T)][before[T \ {Max(T)}]]
          BY <2>3, <3>2, <5>1 DEF FoldOf
        <5>3. iter[T] = before[T] /\ iter[T \ {Max(T)}] = before[T \ {Max(T)}]
          BY <2>8, <5>1
        <5> HIDE DEF iter
        <5>. QED
          BY <3>2, <5>2, <5>3
      <4>. QED
        BY <4>3, <4>4
    <3>. QED
      BY <3>1, <3>2
  <2>10. FoldOf(base, step, k, iter)
    <3> HIDE DEF iter
    <3>. QED
      BY <2>9 DEF FoldOf
  <2>. QED
    BY <1>2, <2>7, <2>10
<1>. QED
  BY <1>3, <1>4

LEMMA FirstOnes ==
  ASSUME NEW m \in Nat, NEW k \in 1..m
  PROVE  1..k \in SUBSET (1..m) /\ 1..k # {} /\ Max(1..k) = k /\ (1..k) \ {k} = 1..k - 1
<1>1. 1..k \in SUBSET (1..m) /\ 1..k # {} /\ k \in 1..k /\ (\A x \in 1..k : x <= k)
  OBVIOUS
<1>2. Max(1..k) = k
  <2>1. 1..k \subseteq Nat /\ k \in Nat
    OBVIOUS
  <2>2. Max(1..k) \in 1..k /\ \A x \in 1..k : x <= Max(1..k)
    BY <1>1, <2>1, MaxIs
  <2>. QED
    BY <1>1, <2>1, <2>2
<1>3. (1..k) \ {k} = 1..k - 1
  OBVIOUS
<1>. QED
  BY <1>1, <1>2, <1>3

-----------------------------------------------------------------------------
(* Sums *)

\* The sums of the first values, one more each time.
SumsOf(s, g) ==
  /\ g \in [0..Len(s) -> Int] /\ g[0] = 0
  /\ \A k \in 1..Len(s) : g[k] = g[k - 1] + s[k]

LEMMA TotalChosen ==
  ASSUME NEW s \in Seq(Int)
  PROVE  \E c : /\ \A T \in SUBSET (1..Len(s)) :
                     c[T] = IF T = {} THEN 0 ELSE c[T \ {Max(T)}] + s[Max(T)]
                /\ Total(s) = c[1..Len(s)]
<1> DEFINE n == Len(s)
           IsFold(c) == c = [T \in SUBSET (1..n) |-> IF T = {} THEN 0 ELSE c[T \ {Max(T)}] + s[Max(T)]]
           step == [i \in 1..n |-> [v \in Int |-> v + s[i]]]
<1>1. n \in Nat /\ DOMAIN s = 1..n /\ \A i \in 1..n : s[i] \in Int
  BY LenProperties
<1>2. Total(s) = (CHOOSE c : IsFold(c))[1..n]
  BY <1>1 DEF Total, FoldLeft, MapThenFoldSet
<1>3. \E c : IsFold(c)
  <2>1. step \in [1..n -> [Int -> Int]]
    BY <1>1
  <2> HIDE DEF n, step
  <2>2. PICK iter \in [SUBSET (1..n) -> Int] : FoldOf(0, step, n, iter)
    <3>1. 0 \in Int /\ n \in Nat
      BY <1>1
    <3>. QED
      BY <2>1, <3>1, FoldExists, Zenon
  <2>3. ASSUME NEW T \in SUBSET (1..n)
        PROVE  iter[T] = IF T = {} THEN 0 ELSE iter[T \ {Max(T)}] + s[Max(T)]
    <3>1. CASE T = {}
      BY <2>2, <3>1 DEF FoldOf
    <3>2. CASE T # {}
      <4>1. Max(T) \in T
        <5>1. T \subseteq Nat /\ \A x \in T : x <= n
          BY <1>1
        <5>. QED
          BY <1>1, <3>2, <5>1, MaxIs
      <4>2. iter[T] = step[Max(T)][iter[T \ {Max(T)}]]
        BY <2>2, <3>2 DEF FoldOf
      <4>3. iter[T \ {Max(T)}] \in Int /\ Max(T) \in 1..n
        BY <4>1
      <4>4. \A i \in 1..n, v \in Int : step[i][v] = v + s[i]
        BY DEF step
      <4>. QED
        BY <3>2, <4>2, <4>3, <4>4
    <3>. QED
      BY <3>1, <3>2
  <2>4. iter = [T \in SUBSET (1..n) |-> iter[T]]
    OBVIOUS
  <2>5. IsFold(iter)
    BY <2>3, <2>4
  <2>. QED
    BY <2>5
<1>4. PICK c : c = (CHOOSE d : IsFold(d)) /\ IsFold(c)
  BY <1>3
<1>5. \A T \in SUBSET (1..n) : c[T] = IF T = {} THEN 0 ELSE c[T \ {Max(T)}] + s[Max(T)]
  BY <1>4
<1>6. Total(s) = c[1..n]
  BY <1>2, <1>4
<1> HIDE DEF IsFold, step
<1>. QED
  BY <1>5, <1>6, Zenon DEF n

LEMMA TotalSums ==
  ASSUME NEW s \in Seq(Int)
  PROVE  \E g : SumsOf(s, g) /\ Total(s) = g[Len(s)]
<1>1. PICK c : /\ \A T \in SUBSET (1..Len(s)) :
                     c[T] = IF T = {} THEN 0 ELSE c[T \ {Max(T)}] + s[Max(T)]
               /\ Total(s) = c[1..Len(s)]
  BY TotalChosen
<1> DEFINE g == [k \in 0..Len(s) |-> c[1..k]]
           Bad == {k \in 0..Len(s) : g[k] \notin Int}
<1>2. Len(s) \in Nat /\ \A k \in 1..Len(s) : s[k] \in Int
  BY LenProperties
<1>3. g[0] = 0
  <2>1. 1..0 = {} /\ 1..0 \in SUBSET (1..Len(s)) /\ 0 \in 0..Len(s)
    BY <1>2
  <2>. QED
    BY <1>1, <2>1
<1>4. ASSUME NEW k \in 1..Len(s) PROVE g[k] = g[k - 1] + s[k]
  <2>1. 1..k \in SUBSET (1..Len(s)) /\ 1..k # {} /\ Max(1..k) = k /\ (1..k) \ {k} = 1..k - 1
    BY <1>2, FirstOnes
  <2>3. k \in 0..Len(s) /\ k - 1 \in 0..Len(s)
    BY <1>2
  <2>4. c[1..k] = c[1..k - 1] + s[k]
    BY <1>1, <2>1
  <2>. QED
    BY <2>3, <2>4
<1>5. Bad = {}
  <2> SUFFICES ASSUME Bad # {} PROVE FALSE
    OBVIOUS
  <2>1. PICK k \in Bad : \A j \in Bad : k <= j
    <3>1. Bad \subseteq Nat
      OBVIOUS
    <3> HIDE DEF Bad
    <3>. QED
      BY <3>1, LeastNat
  <2>2. k \in 0..Len(s) /\ g[k] \notin Int
    OBVIOUS
  <2> HIDE DEF g
  <2>3. k # 0
    BY <1>3, <2>2
  <2>4. k \in 1..Len(s) /\ k - 1 \in 0..Len(s) /\ ~(k <= k - 1)
    BY <1>2, <2>2, <2>3
  <2>5. g[k - 1] \in Int
    BY <2>1, <2>4
  <2>6. s[k] \in Int /\ g[k] = g[k - 1] + s[k]
    BY <1>2, <1>4, <2>4
  <2>7. g[k] \in Int
    BY <2>5, <2>6
  <2>. QED
    BY <2>2, <2>7
<1>6. g \in [0..Len(s) -> Int]
  <2>1. \A k \in 0..Len(s) : g[k] \in Int
    <3> HIDE DEF g
    <3>. QED
      BY <1>5
  <2>. QED
    BY <2>1
<1>7. Total(s) = g[Len(s)]
  BY <1>1, <1>2
<1> HIDE DEF g
<1>. QED
  BY <1>3, <1>4, <1>6, <1>7 DEF SumsOf

LEMMA SumsAgree ==
  ASSUME NEW s \in Seq(Int), NEW g, SumsOf(s, g), NEW h, SumsOf(s, h),
         NEW k \in 0..Len(s)
  PROVE  g[k] = h[k]
<1> DEFINE Bad == {j \in 0..Len(s) : g[j] # h[j]}
<1> SUFFICES ASSUME Bad # {} PROVE FALSE
  OBVIOUS
<1>1. PICK j \in Bad : \A i \in Bad : j <= i
  <2>1. Bad \subseteq Nat
    OBVIOUS
  <2> HIDE DEF Bad
  <2>. QED
    BY <2>1, LeastNat
<1>2. j \in 0..Len(s) /\ g[j] # h[j] /\ Len(s) \in Nat
  BY LenProperties
<1>3. j # 0
  BY <1>2 DEF SumsOf
<1>4. j \in 1..Len(s) /\ j - 1 \in 0..Len(s) /\ ~(j <= j - 1)
  BY <1>2, <1>3
<1>5. g[j - 1] = h[j - 1]
  BY <1>1, <1>4
<1>. QED
  BY <1>2, <1>4, <1>5 DEF SumsOf

LEMMA TotalIs ==
  ASSUME NEW s \in Seq(Int), NEW g, SumsOf(s, g)
  PROVE  Total(s) = g[Len(s)] /\ Total(s) \in Int
<1>1. PICK h : SumsOf(s, h) /\ Total(s) = h[Len(s)]
  BY TotalSums
<1>2. Len(s) \in 0..Len(s)
  BY LenProperties
<1>3. h[Len(s)] = g[Len(s)] /\ g[Len(s)] \in Int
  BY <1>1, <1>2, SumsAgree DEF SumsOf
<1>. QED
  BY <1>1, <1>3

LEMMA TotalEmpty == Total(<<>>) = 0
<1>1. <<>> \in Seq(Int) /\ Len(<<>>) = 0
  OBVIOUS
<1>2. PICK g : SumsOf(<<>>, g) /\ Total(<<>>) = g[Len(<<>>)]
  BY <1>1, TotalSums
<1>. QED
  BY <1>1, <1>2 DEF SumsOf

LEMMA TotalAppend ==
  ASSUME NEW s \in Seq(Int), NEW v \in Int
  PROVE  Total(Append(s, v)) = Total(s) + v
<1> DEFINE t == Append(s, v)
           n == Len(s)
<1>1. PICK g : SumsOf(s, g) /\ Total(s) = g[n]
  BY TotalSums
<1> DEFINE h == [k \in 0..n + 1 |-> IF k = n + 1 THEN g[n] + v ELSE g[k]]
<1>2. /\ t \in Seq(Int) /\ Len(t) = n + 1 /\ n \in Nat
      /\ (\A k \in 1..n : t[k] = s[k]) /\ t[n + 1] = v
  BY AppendProperties, LenProperties
<1>3. g \in [0..n -> Int] /\ g[0] = 0 /\ \A k \in 1..n : g[k] = g[k - 1] + s[k]
  BY <1>1 DEF SumsOf
<1> HIDE DEF t, n
<1>4. h \in [0..n + 1 -> Int]
  BY <1>2, <1>3
<1>5. ASSUME NEW k \in 1..n + 1 PROVE h[k] = h[k - 1] + t[k]
  <2>1. k \in 0..n + 1 /\ k - 1 \in 0..n + 1 /\ k - 1 # n + 1
    BY <1>2
  <2>2. CASE k = n + 1
    BY <1>2, <2>1, <2>2
  <2>3. CASE k # n + 1
    <3>1. k \in 1..n
      BY <1>2, <2>3
    <3>. QED
      BY <1>2, <1>3, <2>1, <2>3, <3>1
  <2>. QED
    BY <2>2, <2>3
<1>6. h[0] = 0 /\ h[n + 1] = g[n] + v
  BY <1>2, <1>3
<1>7. SumsOf(t, h)
  <2> HIDE DEF h
  <2>. QED
    BY <1>2, <1>4, <1>5, <1>6 DEF SumsOf
<1>8. Total(t) = h[n + 1]
  <2> HIDE DEF h
  <2>. QED
    BY <1>2, <1>7, TotalIs
<1>. QED
  BY <1>1, <1>6, <1>8 DEF t, n

LEMMA TotalTail ==
  ASSUME NEW s \in Seq(Int), s # <<>>
  PROVE  Total(Tail(s)) = Total(s) - Head(s)
<1> DEFINE t == Tail(s)
           n == Len(s)
<1>1. PICK g : SumsOf(s, g) /\ Total(s) = g[n]
  BY TotalSums
<1> DEFINE h == [k \in 0..n - 1 |-> g[k + 1] - s[1]]
<1>2. /\ t \in Seq(Int) /\ Len(t) = n - 1 /\ n \in Nat \ {0} /\ Head(s) = s[1]
      /\ (\A k \in 1..n - 1 : t[k] = s[k + 1]) /\ \A k \in 1..n : s[k] \in Int
  BY HeadTailProperties, LenProperties, EmptySeq
<1>3. g \in [0..n -> Int] /\ g[0] = 0 /\ \A k \in 1..n : g[k] = g[k - 1] + s[k]
  BY <1>1 DEF SumsOf
<1> HIDE DEF t, n
<1>4. s[1] \in Int /\ g[1] = s[1]
  BY <1>2, <1>3
<1>5. h \in [0..n - 1 -> Int]
  <2>1. ASSUME NEW k \in 0..n - 1 PROVE k + 1 \in 0..n
    BY <1>2
  <2>. QED
    BY <1>3, <1>4, <2>1
<1>6. ASSUME NEW k \in 1..n - 1 PROVE h[k] = h[k - 1] + t[k]
  <2>1. k \in 0..n - 1 /\ k - 1 \in 0..n - 1 /\ k + 1 \in 1..n /\ k \in 0..n
    BY <1>2
  <2>2. g[k + 1] = g[k] + s[k + 1]
    BY <1>3, <2>1
  <2>3. h[k] = g[k + 1] - s[1] /\ h[k - 1] = g[k] - s[1] /\ t[k] = s[k + 1]
    BY <1>2, <2>1
  <2>4. g[k] \in Int /\ s[k + 1] \in Int
    BY <1>2, <1>3, <2>1
  <2>. QED
    BY <1>4, <2>2, <2>3, <2>4
<1>7. h[0] = 0 /\ h[n - 1] = g[n] - s[1]
  <2>1. 0 \in 0..n - 1 /\ n - 1 \in 0..n - 1 /\ n - 1 + 1 = n /\ 0 + 1 = 1
    BY <1>2
  <2>. QED
    BY <1>4, <2>1
<1>8. SumsOf(t, h)
  <2> HIDE DEF h
  <2>. QED
    BY <1>2, <1>5, <1>6, <1>7 DEF SumsOf
<1>9. Total(t) = h[n - 1]
  <2> HIDE DEF h
  <2>. QED
    BY <1>2, <1>8, TotalIs
<1>. QED
  BY <1>1, <1>2, <1>7, <1>9 DEF t, n

-----------------------------------------------------------------------------
(* Rolling windows *)

LEMMA LastOnesIs ==
  ASSUME NEW S, NEW s \in Seq(S), NEW p \in Nat \ {0}
  PROVE  LET last == LastOnes(s, p)
             rest == IF Len(s) > p THEN Len(s) - p ELSE 0
         IN /\ last \in Seq(S) /\ Len(last) = (IF Len(s) > p THEN p ELSE Len(s))
            /\ \A k \in 1..Len(last) : last[k] = s[rest + k]
<1> DEFINE n == Len(s)
           rest == IF n > p THEN n - p ELSE 0
<1>1. n \in Nat /\ rest \in Nat /\ rest <= n /\ (n > p => n - rest = p) /\ (~(n > p) => n - rest = n)
  BY LenProperties
<1>2. LastOnes(s, p) = SubSeq(s, rest + 1, n)
  BY <1>1 DEF LastOnes
<1> HIDE DEF n, rest
<1>3. PICK last : last = SubSeq(s, rest + 1, n)
  OBVIOUS
<1>4. last \in Seq(S) /\ Len(last) = n - rest
  <2>1. Len(last) = IF rest + 1 <= n THEN n - (rest + 1) + 1 ELSE 0
    BY <1>1, <1>3, SubSeqProperties DEF n
  <2>2. last \in Seq(S)
    BY <1>1, <1>3, SubSeqProperties DEF n
  <2>. QED
    BY <1>1, <2>1, <2>2
<1>5. ASSUME NEW k \in 1..Len(last) PROVE last[k] = s[rest + k]
  <2>1. k \in 1..n - (rest + 1) + 1 /\ rest + 1 + k - 1 = rest + k
    BY <1>1, <1>4
  <2>. QED
    BY <1>1, <1>3, <2>1, SubSeqProperties DEF n
<1>. QED
  BY <1>1, <1>2, <1>3, <1>4, <1>5 DEF n, rest

\* A value more: the oldest one leaves, if there were as many as are kept.
LEMMA LastOnesAppend ==
  ASSUME NEW S, NEW s \in Seq(S), NEW v \in S, NEW p \in Nat \ {0}
  PROVE  LastOnes(Append(s, v), p) =
           IF Len(s) < p THEN Append(LastOnes(s, p), v) ELSE Append(Tail(LastOnes(s, p)), v)
<1>0. PICK t \in Seq(S) : t = Append(s, v)
  BY AppendProperties
<1>1. /\ t = Append(s, v) /\ Len(t) = Len(s) + 1
      /\ (\A i \in 1..Len(s) : t[i] = s[i]) /\ t[Len(s) + 1] = v
  BY <1>0, AppendProperties
<1>2. PICK old \in Seq(S) :
         /\ old = LastOnes(s, p)
         /\ Len(old) = (IF Len(s) > p THEN p ELSE Len(s))
         /\ \A k \in 1..Len(old) : old[k] = s[(IF Len(s) > p THEN Len(s) - p ELSE 0) + k]
  BY LastOnesIs
<1>3. PICK new \in Seq(S) :
         /\ new = LastOnes(t, p)
         /\ Len(new) = (IF Len(t) > p THEN p ELSE Len(t))
         /\ \A k \in 1..Len(new) : new[k] = t[(IF Len(t) > p THEN Len(t) - p ELSE 0) + k]
  BY LastOnesIs
<1>4. PICK n \in Nat : n = Len(s)
  BY LenProperties
<1>5. CASE n < p
  <2>0. PICK other \in Seq(S) : other = Append(old, v)
    BY AppendProperties
  <2>1. /\ Len(other) = Len(old) + 1 /\ other[Len(old) + 1] = v
        /\ \A i \in 1..Len(old) : other[i] = old[i]
    BY <2>0, AppendProperties
  <2>2. Len(old) = n /\ Len(new) = n + 1 /\ Len(other) = n + 1
    BY <1>1, <1>2, <1>3, <1>4, <1>5, <2>1
  <2>3. \A k \in 1..n : old[k] = s[k]
    BY <1>2, <1>4, <1>5, <2>2
  <2>4. \A k \in 1..n + 1 : new[k] = t[k]
    BY <1>1, <1>3, <1>4, <1>5, <2>2
  <2>5. ASSUME NEW k \in 1..n + 1 PROVE new[k] = other[k]
    <3>1. CASE k = n + 1
      BY <1>1, <1>4, <2>1, <2>2, <2>4, <3>1
    <3>2. CASE k # n + 1
      <4>1. k \in 1..n
        BY <3>2
      <4>. QED
        BY <1>1, <1>4, <2>1, <2>2, <2>3, <2>4, <4>1
    <3>. QED
      BY <3>1, <3>2
  <2>6. new = other
    BY <2>2, <2>5, SeqEqual
  <2>. QED
    BY <1>1, <1>2, <1>3, <1>4, <1>5, <2>0, <2>6
<1>6. CASE ~(n < p)
  <2>1. Len(old) = p /\ Len(new) = p /\ old # <<>>
    BY <1>1, <1>2, <1>3, <1>4, <1>6
  <2>2. PICK rest \in Seq(S) : rest = Tail(old)
    BY <2>1, HeadTailProperties
  <2>3. Len(rest) = p - 1 /\ \A i \in 1..p - 1 : rest[i] = old[i + 1]
    BY <2>1, <2>2, HeadTailProperties
  <2>4. PICK other \in Seq(S) : other = Append(rest, v)
    BY AppendProperties
  <2>5. Len(other) = p /\ other[p] = v /\ \A i \in 1..p - 1 : other[i] = rest[i]
    BY <2>3, <2>4, AppendProperties
  <2>6. \A k \in 1..p : old[k] = s[n - p + k]
    <3>1. (IF n > p THEN n - p ELSE 0) = n - p
      BY <1>6
    <3>. QED
      BY <1>2, <1>4, <2>1, <3>1
  <2>7. \A k \in 1..p : new[k] = t[n + 1 - p + k]
    <3>1. Len(t) = n + 1 /\ n + 1 > p
      BY <1>1, <1>4, <1>6
    <3>. QED
      BY <1>3, <2>1, <3>1
  <2>8. ASSUME NEW k \in 1..p PROVE new[k] = other[k]
    <3>1. CASE k = p
      <4>1. n + 1 - p + k = n + 1
        BY <3>1
      <4>. QED
        BY <1>1, <1>4, <2>5, <2>7, <3>1, <4>1
    <3>2. CASE k # p
      <4>1. /\ k \in 1..p - 1 /\ k + 1 \in 1..p /\ n + 1 - p + k \in 1..n
            /\ n - p + (k + 1) = n + 1 - p + k
        BY <1>6, <3>2
      <4>2. other[k] = old[k + 1] /\ old[k + 1] = s[n + 1 - p + k]
        BY <2>3, <2>6, <2>5, <4>1
      <4>3. new[k] = t[n + 1 - p + k] /\ t[n + 1 - p + k] = s[n + 1 - p + k]
        BY <1>1, <1>4, <2>7, <4>1
      <4>. QED
        BY <4>2, <4>3
    <3>. QED
      BY <3>1, <3>2
  <2>9. new = other
    BY <2>1, <2>8, <2>5, SeqEqual
  <2>. QED
    BY <1>1, <1>2, <1>3, <1>4, <1>6, <2>2, <2>9, <2>4
<1>. QED
  BY <1>4, <1>5, <1>6

\* A window holds the last values, and their sum.
WindowIs(window, values, period) ==
  /\ window \in Window
  /\ window.values = LastOnes(values, period) /\ window.sum = Total(window.values)

LEMMA PushKeeps ==
  ASSUME NEW values \in Seq(Int), NEW v \in Int, NEW period \in Nat \ {0}, NEW window,
         WindowIs(window, values, period)
  PROVE  WindowIs(Push(window, v, period), Append(values, v), period)
<1>1. PICK held \in Seq(Int), sum \in Int :
         window = [values |-> held, sum |-> sum] /\ held = LastOnes(values, period)
         /\ sum = Total(held)
  BY DEF WindowIs, Window
<1>2. Len(held) = (IF Len(values) > period THEN period ELSE Len(values)) /\ Len(values) \in Nat
  BY <1>1, LastOnesIs, LenProperties
<1>3. Len(held) < period <=> Len(values) < period
  BY <1>2
<1>4. CASE Len(values) < period
  <2>1. Push(window, v, period) = [values |-> Append(held, v), sum |-> sum + v]
    BY <1>1, <1>3, <1>4 DEF Push
  <2>2. Append(held, v) \in Seq(Int) /\ Total(Append(held, v)) = sum + v
    BY <1>1, TotalAppend, AppendProperties
  <2>3. LastOnes(Append(values, v), period) = Append(held, v)
    BY <1>1, <1>4, LastOnesAppend
  <2>. QED
    BY <2>1, <2>2, <2>3 DEF WindowIs, Window
<1>5. CASE ~(Len(values) < period)
  <2>1. held # <<>>
    BY <1>2, <1>5
  <2>2. Push(window, v, period) = [values |-> Append(Tail(held), v), sum |-> sum + v - Head(held)]
    BY <1>1, <1>3, <1>5 DEF Push
  <2>3. Tail(held) \in Seq(Int) /\ Head(held) \in Int /\ Total(Tail(held)) = sum - Head(held)
    BY <1>1, <2>1, TotalTail, HeadTailProperties
  <2>4. Append(Tail(held), v) \in Seq(Int)
    BY <2>3, AppendProperties
  <2>5. Total(Append(Tail(held), v)) = sum + v - Head(held)
    <3>1. Total(Append(Tail(held), v)) = Total(Tail(held)) + v
      BY <2>3, TotalAppend
    <3>. QED
      BY <2>3, <3>1
  <2>6. LastOnes(Append(values, v), period) = Append(Tail(held), v)
    BY <1>1, <1>5, LastOnesAppend
  <2>7. sum + v - Head(held) \in Int
    BY <2>3
  <2>. QED
    BY <2>2, <2>4, <2>5, <2>6, <2>7 DEF WindowIs, Window
<1>. QED
  BY <1>4, <1>5

-----------------------------------------------------------------------------
(* What the windows hold *)

BarRecord == [high : Nat, low : Nat, close : Nat, volume : Nat, week : Nat]

Closes(h) == [n \in 1..Len(h) |-> h[n].close]
Volumes(h) == [n \in 1..Len(h) |-> h[n].volume]
Gains(h) == [n \in 1..Len(h) - 1 |-> Gain(h[n].close, h[n + 1].close)]
Losses(h) == [n \in 1..Len(h) - 1 |-> Gain(h[n + 1].close, h[n].close)]
Ranges(h) == [n \in 1..Len(h) - 1 |-> TrueRange(h[n + 1], h[n].close)]

StateRecord ==
  [length : Nat, close : Int, fast : Window, slow : Window, volumes : Window,
   gains : Window, losses : Window, ranges : Window]

\* A state that has seen the bars of h.
StateOf(h, s) ==
  /\ s \in StateRecord
  /\ s.close = IF h = <<>> THEN NoPrice ELSE h[Len(h)].close
  /\ WindowIs(s.fast, Closes(h), FastPeriod) /\ WindowIs(s.slow, Closes(h), SlowPeriod)
  /\ WindowIs(s.volumes, Volumes(h), VolumePeriod)
  /\ WindowIs(s.gains, Gains(h), RsiPeriod) /\ WindowIs(s.losses, Losses(h), RsiPeriod)
  /\ WindowIs(s.ranges, Ranges(h), AtrPeriod)

LEMMA Periods ==
  /\ FastPeriod \in Nat \ {0} /\ SlowPeriod \in Nat \ {0} /\ RsiPeriod \in Nat \ {0}
  /\ AtrPeriod \in Nat \ {0} /\ VolumePeriod \in Nat \ {0}
BY PeriodsAssumption

LEMMA Ranged ==
  ASSUME NEW bar \in BarRecord, NEW close \in Int
  PROVE  TrueRange(bar, close) \in Int /\ Gain(bar.close, close) \in Int
         /\ Gain(close, bar.close) \in Int
<1>1. bar.high \in Nat /\ bar.low \in Nat /\ bar.close \in Nat
  BY DEF BarRecord
<1>2. PICK a \in Int, b \in Int, c \in Int : TrueRange(bar, close) = Max({a, b, c})
  <2>1. /\ bar.high - bar.low \in Int
        /\ Gain(close, bar.high) + Gain(bar.high, close) \in Int
        /\ Gain(close, bar.low) + Gain(bar.low, close) \in Int
    BY <1>1 DEF Gain
  <2>. QED
    BY <2>1, Zenon DEF TrueRange
<1>3. \E x \in {a, b, c} : \A y \in {a, b, c} : x >= y
  OBVIOUS
<1>4. Max({a, b, c}) \in {a, b, c}
  BY <1>3 DEF Max
<1>. QED
  BY <1>1, <1>2, <1>4 DEF Gain

LEMMA BarsTyped ==
  ASSUME NEW h \in Seq(BarRecord)
  PROVE  /\ Len(h) \in Nat
         /\ \A n \in 1..Len(h) : h[n] \in BarRecord /\ h[n].close \in Nat /\ h[n].volume \in Nat
<1>1. \A b \in BarRecord : b.close \in Nat /\ b.volume \in Nat
  BY DEF BarRecord
<1>2. Len(h) \in Nat /\ \A n \in 1..Len(h) : h[n] \in BarRecord
  BY LenProperties
<1>. QED
  BY <1>1, <1>2

LEMMA SeriesTyped ==
  ASSUME NEW h \in Seq(BarRecord)
  PROVE  /\ Closes(h) \in Seq(Int) /\ Len(Closes(h)) = Len(h)
         /\ Volumes(h) \in Seq(Int) /\ Len(Volumes(h)) = Len(h)
         /\ \A s \in {Gains(h), Losses(h), Ranges(h)} :
              s \in Seq(Int) /\ Len(s) = (IF h = <<>> THEN 0 ELSE Len(h) - 1)
<1>1. /\ Len(h) \in Nat
      /\ \A n \in 1..Len(h) : h[n] \in BarRecord /\ h[n].close \in Nat /\ h[n].volume \in Nat
  BY BarsTyped
<1> DEFINE m == IF h = <<>> THEN 0 ELSE Len(h) - 1
<1>2. m \in Nat /\ 1..m = 1..Len(h) - 1
  BY <1>1, EmptySeq
<1>3. \A s \in [1..m -> Int] : s \in Seq(Int) /\ Len(s) = m
  BY <1>2
<1>4. Gains(h) \in [1..m -> Int] /\ Losses(h) \in [1..m -> Int] /\ Ranges(h) \in [1..m -> Int]
  <2>1. ASSUME NEW n \in 1..Len(h) - 1
        PROVE  /\ Gain(h[n].close, h[n + 1].close) \in Int
               /\ Gain(h[n + 1].close, h[n].close) \in Int
               /\ TrueRange(h[n + 1], h[n].close) \in Int
    <3>1. n \in 1..Len(h) /\ n + 1 \in 1..Len(h)
      BY <1>1
    <3>2. h[n] \in BarRecord /\ h[n + 1] \in BarRecord /\ h[n].close \in Int
      BY <1>1, <3>1
    <3>. QED
      BY <3>2, Ranged
  <2> HIDE DEF m
  <2>. QED
    BY <1>2, <2>1 DEF Gains, Losses, Ranges
<1>5. Closes(h) \in [1..Len(h) -> Int] /\ Volumes(h) \in [1..Len(h) -> Int]
  BY <1>1 DEF Closes, Volumes
<1>6. \A s \in [1..Len(h) -> Int] : s \in Seq(Int) /\ Len(s) = Len(h)
  BY <1>1
<1> HIDE DEF m
<1>7. \A s \in {Gains(h), Losses(h), Ranges(h)} : s \in Seq(Int) /\ Len(s) = m
  BY <1>3, <1>4
<1>. QED
  BY <1>5, <1>6, <1>7 DEF m

LEMMA OneMore ==
  ASSUME NEW s \in Seq(Int), NEW t \in Seq(Int), NEW v \in Int, Len(t) = Len(s) + 1,
         \A n \in 1..Len(s) : t[n] = s[n], t[Len(s) + 1] = v
  PROVE  t = Append(s, v)
<1>1. PICK u \in Seq(Int) : u = Append(s, v)
  BY AppendProperties
<1>2. Len(u) = Len(s) + 1 /\ u[Len(s) + 1] = v /\ \A n \in 1..Len(s) : u[n] = s[n]
  BY <1>1, AppendProperties
<1>3. \A n \in 1..Len(t) : n \in 1..Len(s) \/ n = Len(s) + 1
  BY LenProperties
<1>4. t = u
  BY <1>2, <1>3, SeqEqual
<1>. QED
  BY <1>1, <1>4

LEMMA ClosesAppend ==
  ASSUME NEW h \in Seq(BarRecord), NEW b \in BarRecord
  PROVE  /\ Closes(Append(h, b)) = Append(Closes(h), b.close)
         /\ Volumes(Append(h, b)) = Append(Volumes(h), b.volume)
<1>1. PICK t \in Seq(BarRecord) : t = Append(h, b)
  BY AppendProperties
<1>2. Len(t) = Len(h) + 1 /\ t[Len(h) + 1] = b /\ \A n \in 1..Len(h) : t[n] = h[n]
  BY <1>1, AppendProperties
<1>3. Len(h) \in Nat /\ b.close \in Int /\ b.volume \in Int
  BY BarsTyped DEF BarRecord
<1>4. Closes(t) = Append(Closes(h), b.close)
  <2>1. \A n \in 1..Len(h) : Closes(t)[n] = Closes(h)[n]
    BY <1>2, <1>3 DEF Closes
  <2>2. Closes(t)[Len(h) + 1] = b.close
    BY <1>2, <1>3 DEF Closes
  <2>3. /\ Closes(t) \in Seq(Int) /\ Closes(h) \in Seq(Int)
        /\ Len(Closes(t)) = Len(Closes(h)) + 1 /\ Len(Closes(h)) = Len(h)
    BY <1>2, SeriesTyped
  <2>. QED
    BY <1>3, <2>1, <2>2, <2>3, OneMore
<1>5. Volumes(t) = Append(Volumes(h), b.volume)
  <2>1. \A n \in 1..Len(h) : Volumes(t)[n] = Volumes(h)[n]
    BY <1>2, <1>3 DEF Volumes
  <2>2. Volumes(t)[Len(h) + 1] = b.volume
    BY <1>2, <1>3 DEF Volumes
  <2>3. /\ Volumes(t) \in Seq(Int) /\ Volumes(h) \in Seq(Int)
        /\ Len(Volumes(t)) = Len(Volumes(h)) + 1 /\ Len(Volumes(h)) = Len(h)
    BY <1>2, SeriesTyped
  <2>. QED
    BY <1>3, <2>1, <2>2, <2>3, OneMore
<1>. QED
  BY <1>1, <1>4, <1>5

LEMMA ChangesAppend ==
  ASSUME NEW h \in Seq(BarRecord), h # <<>>, NEW b \in BarRecord
  PROVE  LET close == h[Len(h)].close
         IN /\ Gains(Append(h, b)) = Append(Gains(h), Gain(close, b.close))
            /\ Losses(Append(h, b)) = Append(Losses(h), Gain(b.close, close))
            /\ Ranges(Append(h, b)) = Append(Ranges(h), TrueRange(b, close))
<1> DEFINE close == h[Len(h)].close
<1>1. PICK t \in Seq(BarRecord) : t = Append(h, b)
  BY AppendProperties
<1>2. Len(t) = Len(h) + 1 /\ t[Len(h) + 1] = b /\ \A n \in 1..Len(h) : t[n] = h[n]
  BY <1>1, AppendProperties
<1>3. PICK m \in Nat : Len(h) = m + 1
  <2>1. Len(h) \in Nat \ {0}
    BY LenProperties, EmptySeq
  <2>2. Len(h) - 1 \in Nat /\ Len(h) = Len(h) - 1 + 1
    BY <2>1
  <2>. QED
    BY <2>2
<1>4. close \in Int /\ b.close \in Int
  <2>1. Len(h) \in 1..Len(h)
    BY <1>3
  <2>2. b.close \in Nat
    BY DEF BarRecord
  <2>3. close \in Nat
    BY <2>1, BarsTyped
  <2>. QED
    BY <2>2, <2>3
<1>5. /\ Gain(close, b.close) \in Int /\ Gain(b.close, close) \in Int
      /\ TrueRange(b, close) \in Int
  BY <1>4, Ranged
<1>6. t # <<>> /\ Len(t) = m + 2
  BY <1>2, <1>3
<1>7. /\ \A s \in {Gains(h), Losses(h), Ranges(h)} : s \in Seq(Int) /\ Len(s) = m
      /\ \A s \in {Gains(t), Losses(t), Ranges(t)} : s \in Seq(Int) /\ Len(s) = m + 1
  <2>1. \A s \in {Gains(h), Losses(h), Ranges(h)} :
          s \in Seq(Int) /\ Len(s) = (IF h = <<>> THEN 0 ELSE Len(h) - 1)
    BY SeriesTyped
  <2>2. \A s \in {Gains(t), Losses(t), Ranges(t)} :
          s \in Seq(Int) /\ Len(s) = (IF t = <<>> THEN 0 ELSE Len(t) - 1)
    BY SeriesTyped
  <2>3. Len(h) - 1 = m /\ Len(t) - 1 = m + 1
    BY <1>3, <1>6
  <2>. QED
    BY <1>6, <2>1, <2>2, <2>3
<1>8. ASSUME NEW n \in 1..m PROVE n \in 1..Len(h) /\ n + 1 \in 1..Len(h) /\ t[n] = h[n] /\ t[n + 1] = h[n + 1]
                                  /\ n \in 1..Len(h) - 1 /\ n \in 1..Len(t) - 1
  BY <1>2, <1>3
<1>9. m + 1 \in 1..Len(t) - 1 /\ t[m + 1] = h[Len(h)] /\ t[m + 2] = b /\ m + 1 + 1 = m + 2
  BY <1>2, <1>3
<1>10. Gains(t) = Append(Gains(h), Gain(close, b.close))
  <2>1. \A n \in 1..m : Gains(t)[n] = Gains(h)[n]
    BY <1>8 DEF Gains
  <2>2. Gains(t)[m + 1] = Gain(close, b.close)
    BY <1>9 DEF Gains
  <2>. QED
    BY <1>5, <1>7, <2>1, <2>2, OneMore
<1>11. Losses(t) = Append(Losses(h), Gain(b.close, close))
  <2>1. \A n \in 1..m : Losses(t)[n] = Losses(h)[n]
    BY <1>8 DEF Losses
  <2>2. Losses(t)[m + 1] = Gain(b.close, close)
    BY <1>9 DEF Losses
  <2>. QED
    BY <1>5, <1>7, <2>1, <2>2, OneMore
<1>12. Ranges(t) = Append(Ranges(h), TrueRange(b, close))
  <2>1. \A n \in 1..m : Ranges(t)[n] = Ranges(h)[n]
    BY <1>8 DEF Ranges
  <2>2. Ranges(t)[m + 1] = TrueRange(b, close)
    BY <1>9 DEF Ranges
  <2>. QED
    BY <1>5, <1>7, <2>1, <2>2, OneMore
<1>. QED
  BY <1>1, <1>10, <1>11, <1>12

LEMMA FirstChanges ==
  ASSUME NEW b \in BarRecord
  PROVE  Gains(Append(<<>>, b)) = Gains(<<>>) /\ Losses(Append(<<>>, b)) = Losses(<<>>)
         /\ Ranges(Append(<<>>, b)) = Ranges(<<>>)
<1>1. Len(Append(<<>>, b)) - 1 = 0 /\ Len(<<>>) - 1 = -1 /\ 1..0 = {} /\ 1..-1 = {}
  OBVIOUS
<1>2. 1..Len(Append(<<>>, b)) - 1 = {} /\ 1..Len(<<>>) - 1 = {}
  BY <1>1
<1>. QED
  BY <1>2 DEF Gains, Losses, Ranges

LEMMA PushTyped ==
  ASSUME NEW window \in Window, NEW v \in Int, NEW period \in Nat \ {0}
  PROVE  Push(window, v, period) \in Window
<1>1. PICK values \in Seq(Int), sum \in Int : window = [values |-> values, sum |-> sum]
  BY DEF Window
<1>2. CASE Len(values) < period
  <2>1. Append(values, v) \in Seq(Int)
    BY AppendProperties
  <2>. QED
    BY <1>1, <1>2, <2>1 DEF Push, Window
<1>3. CASE ~(Len(values) < period)
  <2>1. values # <<>>
    BY <1>3
  <2>2. Append(Tail(values), v) \in Seq(Int) /\ Head(values) \in Int
    BY <2>1, HeadTailProperties, AppendProperties
  <2>. QED
    BY <1>1, <1>3, <2>2 DEF Push, Window
<1>. QED
  BY <1>2, <1>3

LEMMA UpdatedTyped ==
  ASSUME NEW s \in StateRecord, NEW b \in BarRecord
  PROVE  Updated(s, b) \in StateRecord
<1>1. PICK u : u = Updated(s, b)
  OBVIOUS
<1>2. /\ s.close \in Int /\ s.length \in Nat /\ s.fast \in Window /\ s.slow \in Window
      /\ s.volumes \in Window /\ s.gains \in Window /\ s.losses \in Window /\ s.ranges \in Window
  BY DEF StateRecord
<1>3. b.close \in Int /\ b.volume \in Int
  BY DEF BarRecord
<1>4. /\ Gain(s.close, b.close) \in Int /\ Gain(b.close, s.close) \in Int
      /\ TrueRange(b, s.close) \in Int
  BY <1>2, Ranged
<1>5. /\ u.close = b.close /\ u.length = s.length
      /\ u.fast = Push(s.fast, b.close, FastPeriod) /\ u.slow = Push(s.slow, b.close, SlowPeriod)
      /\ u.volumes = Push(s.volumes, b.volume, VolumePeriod)
      /\ u.gains \in {s.gains, Push(s.gains, Gain(s.close, b.close), RsiPeriod)}
      /\ u.losses \in {s.losses, Push(s.losses, Gain(b.close, s.close), RsiPeriod)}
      /\ u.ranges \in {s.ranges, Push(s.ranges, TrueRange(b, s.close), AtrPeriod)}
  BY <1>1 DEF Updated, StateRecord
<1>6. /\ u.close \in Int /\ u.length \in Nat /\ u.fast \in Window /\ u.slow \in Window
      /\ u.volumes \in Window /\ u.gains \in Window /\ u.losses \in Window /\ u.ranges \in Window
  BY <1>2, <1>3, <1>4, <1>5, PushTyped, Periods
<1>7. u = [length |-> u.length, close |-> u.close, fast |-> u.fast, slow |-> u.slow,
           volumes |-> u.volumes, gains |-> u.gains, losses |-> u.losses, ranges |-> u.ranges]
  BY <1>1 DEF Updated, StateRecord
<1>. QED
  BY <1>1, <1>6, <1>7 DEF StateRecord

\* _update_indicator_state keeps the windows right.
LEMMA UpdatedKeeps ==
  ASSUME NEW h \in Seq(BarRecord), NEW b \in BarRecord, NEW s, StateOf(h, s)
  PROVE  StateOf(Append(h, b), Updated(s, b))
<1>1. /\ s \in StateRecord /\ s.close = (IF h = <<>> THEN NoPrice ELSE h[Len(h)].close)
      /\ WindowIs(s.fast, Closes(h), FastPeriod) /\ WindowIs(s.slow, Closes(h), SlowPeriod)
      /\ WindowIs(s.volumes, Volumes(h), VolumePeriod)
      /\ WindowIs(s.gains, Gains(h), RsiPeriod) /\ WindowIs(s.losses, Losses(h), RsiPeriod)
      /\ WindowIs(s.ranges, Ranges(h), AtrPeriod)
  BY DEF StateOf
<1>2. PICK u : u = Updated(s, b)
  OBVIOUS
<1>3. PICK t \in Seq(BarRecord) : t = Append(h, b)
  BY AppendProperties
<1>4. t # <<>> /\ t[Len(t)].close = b.close /\ b.close \in Int /\ b.volume \in Int
  <2>1. Len(h) \in Nat /\ Len(t) = Len(h) + 1 /\ t[Len(h) + 1] = b
    BY <1>3, BarsTyped, AppendProperties
  <2>. QED
    BY <2>1 DEF BarRecord
<1>5. /\ WindowIs(Push(s.fast, b.close, FastPeriod), Closes(t), FastPeriod)
      /\ WindowIs(Push(s.slow, b.close, SlowPeriod), Closes(t), SlowPeriod)
      /\ WindowIs(Push(s.volumes, b.volume, VolumePeriod), Volumes(t), VolumePeriod)
  <2>1. Closes(t) = Append(Closes(h), b.close) /\ Volumes(t) = Append(Volumes(h), b.volume)
    BY <1>3, ClosesAppend
  <2>2. Closes(h) \in Seq(Int) /\ Volumes(h) \in Seq(Int)
    BY SeriesTyped
  <2>. QED
    BY <1>1, <1>4, <2>1, <2>2, Periods, PushKeeps
<1>6. s.close # NoPrice <=> h # <<>>
  <2>1. h # <<>> => Len(h) \in 1..Len(h)
    BY LenProperties, EmptySeq
  <2>. QED
    BY <1>1, <2>1, BarsTyped DEF NoPrice
<1>7. /\ WindowIs(u.gains, Gains(t), RsiPeriod) /\ WindowIs(u.losses, Losses(t), RsiPeriod)
      /\ WindowIs(u.ranges, Ranges(t), AtrPeriod)
  <2>1. CASE h = <<>>
    <3>1. u.gains = s.gains /\ u.losses = s.losses /\ u.ranges = s.ranges
      BY <1>1, <1>2, <1>6, <2>1 DEF Updated, StateRecord
    <3>. QED
      BY <1>1, <1>3, <2>1, <3>1, FirstChanges
  <2>2. CASE h # <<>>
    <3> DEFINE close == h[Len(h)].close
    <3>1. /\ u.gains = Push(s.gains, Gain(close, b.close), RsiPeriod)
          /\ u.losses = Push(s.losses, Gain(b.close, close), RsiPeriod)
          /\ u.ranges = Push(s.ranges, TrueRange(b, close), AtrPeriod)
      BY <1>1, <1>2, <1>6, <2>2 DEF Updated, StateRecord
    <3>2. /\ Gain(close, b.close) \in Int /\ Gain(b.close, close) \in Int
          /\ TrueRange(b, close) \in Int
      <4>1. Len(h) \in 1..Len(h)
        BY <2>2, LenProperties, EmptySeq
      <4>2. close \in Nat
        BY <4>1, BarsTyped
      <4>3. close \in Int
        BY <4>2
      <4>. QED
        BY <4>3, Ranged
    <3>3. /\ Gains(t) = Append(Gains(h), Gain(close, b.close))
          /\ Losses(t) = Append(Losses(h), Gain(b.close, close))
          /\ Ranges(t) = Append(Ranges(h), TrueRange(b, close))
      BY <1>3, <2>2, ChangesAppend
    <3>4. Gains(h) \in Seq(Int) /\ Losses(h) \in Seq(Int) /\ Ranges(h) \in Seq(Int)
      BY SeriesTyped
    <3> HIDE DEF close
    <3>. QED
      BY <1>1, <3>1, <3>2, <3>3, <3>4, Periods, PushKeeps
  <2>. QED
    BY <2>1, <2>2
<1>8. /\ u.close = b.close /\ u.fast = Push(s.fast, b.close, FastPeriod)
      /\ u.slow = Push(s.slow, b.close, SlowPeriod)
      /\ u.volumes = Push(s.volumes, b.volume, VolumePeriod)
  BY <1>1, <1>2 DEF Updated, StateRecord
<1>9. u \in StateRecord
  BY <1>1, <1>2, UpdatedTyped
<1>. QED
  BY <1>2, <1>3, <1>4, <1>5, <1>7, <1>8, <1>9 DEF StateOf

-----------------------------------------------------------------------------
(* Catching up *)

\* The states after each of the bars that came since.
LEMMA UpdatesChosen ==
  ASSUME NEW s, NEW bs \in Seq(BarRecord), NEW V, s \in V,
         \A x \in V, b \in BarRecord : Updated(x, b) \in V
  PROVE  \E c : /\ \A T \in SUBSET (1..Len(bs)) :
                     c[T] = IF T = {} THEN s ELSE Updated(c[T \ {Max(T)}], bs[Max(T)])
                /\ FoldLeft(Updated, s, bs) = c[1..Len(bs)]
<1> DEFINE n == Len(bs)
           IsFold(c) == c = [T \in SUBSET (1..n) |->
                               IF T = {} THEN s ELSE Updated(c[T \ {Max(T)}], bs[Max(T)])]
           step == [i \in 1..n |-> [x \in V |-> Updated(x, bs[i])]]
<1>1. n \in Nat /\ DOMAIN bs = 1..n /\ \A i \in 1..n : bs[i] \in BarRecord
  BY LenProperties
<1>2. FoldLeft(Updated, s, bs) = (CHOOSE c : IsFold(c))[1..n]
  BY <1>1 DEF FoldLeft, MapThenFoldSet
<1>3. \E c : IsFold(c)
  <2>1. step \in [1..n -> [V -> V]]
    BY <1>1
  <2> HIDE DEF n, step
  <2>2. PICK iter \in [SUBSET (1..n) -> V] : FoldOf(s, step, n, iter)
    <3>1. n \in Nat
      BY <1>1
    <3>. QED
      BY <2>1, <3>1, FoldExists, Zenon
  <2>3. ASSUME NEW T \in SUBSET (1..n)
        PROVE  iter[T] = IF T = {} THEN s ELSE Updated(iter[T \ {Max(T)}], bs[Max(T)])
    <3>1. CASE T = {}
      BY <2>2, <3>1 DEF FoldOf
    <3>2. CASE T # {}
      <4>1. Max(T) \in T
        <5>1. T \subseteq Nat /\ \A x \in T : x <= n
          BY <1>1
        <5>. QED
          BY <1>1, <3>2, <5>1, MaxIs
      <4>2. iter[T] = step[Max(T)][iter[T \ {Max(T)}]]
        BY <2>2, <3>2 DEF FoldOf
      <4>3. iter[T \ {Max(T)}] \in V /\ Max(T) \in 1..n
        BY <4>1
      <4>4. \A i \in 1..n, x \in V : step[i][x] = Updated(x, bs[i])
        BY DEF step
      <4>. QED
        BY <3>2, <4>2, <4>3, <4>4
    <3>. QED
      BY <3>1, <3>2
  <2>4. iter = [T \in SUBSET (1..n) |-> iter[T]]
    OBVIOUS
  <2>5. IsFold(iter)
    BY <2>3, <2>4
  <2>. QED
    BY <2>5
<1>4. PICK c : c = (CHOOSE d : IsFold(d)) /\ IsFold(c)
  BY <1>3
<1>5. \A T \in SUBSET (1..n) :
         c[T] = IF T = {} THEN s ELSE Updated(c[T \ {Max(T)}], bs[Max(T)])
  BY <1>4
<1>6. FoldLeft(Updated, s, bs) = c[1..n]
  BY <1>2, <1>4
<1> HIDE DEF IsFold, step
<1>. QED
  BY <1>5, <1>6, Zenon DEF n

LEMMA FirstBars ==
  ASSUME NEW h \in Seq(BarRecord), NEW k \in 0..Len(h)
  PROVE  /\ SubSeq(h, 1, k) \in Seq(BarRecord) /\ Len(SubSeq(h, 1, k)) = k
         /\ \A n \in 1..k : SubSeq(h, 1, k)[n] = h[n]
<1>1. k \in Nat /\ Len(h) \in Nat /\ \A i \in 1..Len(h) : h[i] \in BarRecord
  BY BarsTyped
<1>2. 1 \in Int /\ k \in Int /\ (\A i \in 1..k : h[i] \in BarRecord) /\ k - 1 + 1 = k
      /\ (1 <= k \/ k = 0)
  BY <1>1
<1>3. PICK t : t = SubSeq(h, 1, k)
  OBVIOUS
<1>4. t \in Seq(BarRecord) /\ Len(t) = k
  BY <1>1, <1>2, <1>3, SubSeqProperties
<1>5. ASSUME NEW n \in 1..k PROVE t[n] = h[n]
  <2>1. n \in 1..k - 1 + 1 /\ 1 + n - 1 = n
    BY <1>1
  <2>. QED
    BY <1>2, <1>3, <2>1, SubSeqProperties
<1>. QED
  BY <1>3, <1>4, <1>5

LEMMA OneBarMore ==
  ASSUME NEW h \in Seq(BarRecord), NEW k \in 1..Len(h)
  PROVE  SubSeq(h, 1, k) = Append(SubSeq(h, 1, k - 1), h[k])
         /\ SubSeq(h, 1, k - 1) \in Seq(BarRecord) /\ h[k] \in BarRecord
<1>1. k \in Nat /\ k \in 1..k /\ k - 1 \in 0..Len(h) /\ Len(h) \in Nat /\ k \in 0..Len(h)
  BY LenProperties
<1>2. PICK t \in Seq(BarRecord) : t = SubSeq(h, 1, k) /\ Len(t) = k /\ \A n \in 1..k : t[n] = h[n]
  BY <1>1, FirstBars
<1>3. PICK u \in Seq(BarRecord) :
        u = SubSeq(h, 1, k - 1) /\ Len(u) = k - 1 /\ \A n \in 1..k - 1 : u[n] = h[n]
  BY <1>1, FirstBars
<1>4. Len(t) = k /\ \A n \in 1..k : t[n] = h[n]
  BY <1>2
<1>5. Len(u) = k - 1 /\ \A n \in 1..k - 1 : u[n] = h[n]
  BY <1>3
<1>0. h[k] \in BarRecord
  BY BarsTyped
<1>6. PICK v \in Seq(BarRecord) : v = Append(u, h[k])
  BY <1>0, AppendProperties
<1>7. Len(v) = k /\ v[k] = h[k] /\ \A n \in 1..k - 1 : v[n] = u[n]
  BY <1>1, <1>5, <1>6, AppendProperties
<1>8. \A n \in 1..k : t[n] = v[n]
  BY <1>1, <1>4, <1>5, <1>7
<1>9. t = v
  BY <1>4, <1>7, <1>8, SeqEqual
<1>. QED
  BY <1>2, <1>3, <1>6, <1>9, LenProperties

\* The bars that came since the last snapshot are added, however many they are.
LEMMA CaughtUpKeeps ==
  ASSUME NEW h \in Seq(BarRecord), NEW k \in 0..Len(h), NEW s, s.length = k,
         StateOf(SubSeq(h, 1, k), s)
  PROVE  StateOf(h, CaughtUp(s, h)) /\ CaughtUp(s, h).length = Len(h)
<1>1. Len(h) \in Nat /\ k \in Nat /\ k <= Len(h)
  BY LenProperties
<1>2. PICK n \in Nat : n = Len(h) - k
  BY <1>1
<1>3. PICK bs \in Seq(BarRecord) : bs = SubSeq(h, k + 1, Len(h))
  <2>1. k + 1 \in Int /\ Len(h) \in Int /\ \A i \in k + 1 .. Len(h) : h[i] \in BarRecord
    BY <1>1, BarsTyped
  <2>. QED
    BY <1>1, <2>1, SubSeqProperties
<1>4. Len(bs) = n /\ \A j \in 1..n : bs[j] = h[k + j]
  <2>1. Len(bs) = IF k + 1 <= Len(h) THEN Len(h) - (k + 1) + 1 ELSE 0
    BY <1>1, <1>3, SubSeqProperties
  <2>2. ASSUME NEW j \in 1..n PROVE bs[j] = h[k + j]
    <3>1. j \in 1..Len(h) - (k + 1) + 1 /\ k + 1 + j - 1 = k + j
      BY <1>1, <1>2
    <3>. QED
      BY <1>1, <1>3, <3>1, SubSeqProperties
  <2>. QED
    BY <1>1, <1>2, <2>1, <2>2
<1>5. s \in StateRecord /\ \A x \in StateRecord, b \in BarRecord : Updated(x, b) \in StateRecord
  BY UpdatedTyped DEF StateOf
<1>6. PICK c : /\ \A T \in SUBSET (1..Len(bs)) :
                    c[T] = IF T = {} THEN s ELSE Updated(c[T \ {Max(T)}], bs[Max(T)])
               /\ FoldLeft(Updated, s, bs) = c[1..Len(bs)]
  BY <1>5, UpdatesChosen
<1>7. c[1..0] = s
  <2>1. 1..0 = {} /\ 1..0 \in SUBSET (1..Len(bs))
    OBVIOUS
  <2>. QED
    BY <1>6, <2>1
<1>8. ASSUME NEW j \in 1..n PROVE c[1..j] = Updated(c[1..j - 1], h[k + j])
  <2>1. 1..j \in SUBSET (1..n) /\ 1..j # {} /\ Max(1..j) = j /\ (1..j) \ {j} = 1..j - 1
    BY FirstOnes
  <2>. QED
    BY <1>4, <1>6, <2>1
<1> DEFINE Right(j) == StateOf(SubSeq(h, 1, k + j), c[1..j])
           Bad == {j \in 0..n : ~Right(j)}
<1>9. Bad = {}
  <2> SUFFICES ASSUME Bad # {} PROVE FALSE
    OBVIOUS
  <2>1. PICK j \in Bad : \A i \in Bad : j <= i
    <3>1. Bad \subseteq Nat
      OBVIOUS
    <3> HIDE DEF Bad
    <3>. QED
      BY <3>1, LeastNat
  <2>2. j \in 0..n /\ ~Right(j)
    OBVIOUS
  <2>3. j # 0
    BY <1>1, <1>7, <2>2
  <2>4. j \in 1..n /\ j - 1 \in 0..n /\ ~(j <= j - 1)
    BY <2>2, <2>3
  <2>5. Right(j - 1)
    <3> HIDE DEF Right
    <3>. QED
      BY <2>1, <2>4
  <2>6. PICK i \in 1..Len(h) : i = k + j /\ i - 1 = k + (j - 1)
    <3>1. k + j \in 1..Len(h) /\ (k + j) - 1 = k + (j - 1)
      BY <1>1, <1>2, <2>4
    <3> HIDE DEF Right, Bad
    <3>. QED
      BY <3>1
  <2>7. SubSeq(h, 1, i) = Append(SubSeq(h, 1, i - 1), h[i])
        /\ SubSeq(h, 1, i - 1) \in Seq(BarRecord) /\ h[i] \in BarRecord
    BY OneBarMore
  <2>8. StateOf(SubSeq(h, 1, i - 1), c[1..j - 1])
    BY <2>5, <2>6
  <2>9. StateOf(SubSeq(h, 1, i), Updated(c[1..j - 1], h[i]))
    BY <2>7, <2>8, UpdatedKeeps
  <2>10. c[1..j] = Updated(c[1..j - 1], h[i])
    BY <1>8, <2>4, <2>6
  <2>. QED
    BY <2>2, <2>6, <2>9, <2>10
<1>10. Right(n)
  <2> HIDE DEF Right
  <2>. QED
    BY <1>9
<1>11. k + n = Len(h) /\ SubSeq(h, 1, Len(h)) = h
  BY <1>1, <1>2, SubSeqFull
<1>12. PICK f : f = FoldLeft(Updated, s, bs)
  OBVIOUS
<1>13. StateOf(h, f)
  BY <1>4, <1>6, <1>10, <1>11, <1>12
<1>14. CaughtUp(s, h) = [f EXCEPT !.length = Len(h)]
  BY <1>3, <1>12 DEF CaughtUp
<1>15. /\ CaughtUp(s, h) \in StateRecord /\ CaughtUp(s, h).length = Len(h)
       /\ CaughtUp(s, h).close = f.close /\ CaughtUp(s, h).fast = f.fast
       /\ CaughtUp(s, h).slow = f.slow /\ CaughtUp(s, h).volumes = f.volumes
       /\ CaughtUp(s, h).gains = f.gains /\ CaughtUp(s, h).losses = f.losses
       /\ CaughtUp(s, h).ranges = f.ranges
  BY <1>1, <1>13, <1>14 DEF StateOf, StateRecord
<1>. QED
  BY <1>13, <1>15 DEF StateOf

-----------------------------------------------------------------------------
(* The snapshot *)

LEMMA LastInts ==
  ASSUME NEW s \in Seq(Int), NEW p \in Nat \ {0}
  PROVE  /\ LastOnes(s, p) \in Seq(Int)
         /\ Len(LastOnes(s, p)) = (IF Len(s) > p THEN p ELSE Len(s))
         /\ \A k \in 1..Len(LastOnes(s, p)) :
              LastOnes(s, p)[k] = s[(IF Len(s) > p THEN Len(s) - p ELSE 0) + k]
BY LastOnesIs

\* The last ones of two sequences are at the same places.
LEMMA SamePlaces ==
  ASSUME NEW s \in Seq(Int), NEW t \in Seq(Int), Len(s) = Len(t), NEW p \in Nat \ {0}
  PROVE  /\ Len(LastOnes(s, p)) = Len(LastOnes(t, p)) /\ Len(LastOnes(s, p)) \in Nat
         /\ \A k \in 1..Len(LastOnes(s, p)) :
              \E i \in 1..Len(s) : LastOnes(s, p)[k] = s[i] /\ LastOnes(t, p)[k] = t[i]
<1>1. PICK rest : rest = IF Len(s) > p THEN Len(s) - p ELSE 0
  OBVIOUS
<1>2. PICK a \in Seq(Int) : /\ a = LastOnes(s, p) /\ Len(a) = (IF Len(s) > p THEN p ELSE Len(s))
                          /\ \A k \in 1..Len(a) : a[k] = s[rest + k]
  BY <1>1, LastInts
<1>6. PICK b \in Seq(Int) : b = LastOnes(t, p)
  BY LastInts
<1>3. /\ Len(b) = (IF Len(t) > p THEN p ELSE Len(t))
      /\ \A k \in 1..Len(b) : b[k] = t[rest + k]
  <2>1. rest = IF Len(t) > p THEN Len(t) - p ELSE 0
    BY <1>1
  <2>2. Len(b) = (IF Len(t) > p THEN p ELSE Len(t))
    BY <1>6, LastInts
  <2>3. \A k \in 1..Len(b) : b[k] = t[(IF Len(t) > p THEN Len(t) - p ELSE 0) + k]
    BY <1>6, LastInts
  <2>. QED
    BY <2>1, <2>2, <2>3
<1>4. Len(a) = Len(b) /\ Len(a) \in Nat
  BY <1>2, <1>3, LenProperties
<1>5. ASSUME NEW k \in 1..Len(a) PROVE \E i \in 1..Len(s) : a[k] = s[i] /\ b[k] = t[i]
  <2>1. Len(s) \in Nat
    BY LenProperties
  <2>3. rest \in Nat /\ rest + Len(a) = Len(s)
    <3>1. Len(a) = IF Len(s) > p THEN p ELSE Len(s)
      BY <1>2
    <3>2. CASE Len(s) > p
      <4>1. Len(a) = p /\ rest = Len(s) - p
        BY <1>1, <3>1, <3>2
      <4>. QED
        BY <2>1, <3>2, <4>1
    <3>3. CASE ~(Len(s) > p)
      <4>1. Len(a) = Len(s) /\ rest = 0
        BY <1>1, <3>1, <3>3
      <4>. QED
        BY <2>1, <4>1
    <3>. QED
      BY <3>2, <3>3
  <2>2. rest + k \in 1..Len(s)
    BY <1>4, <2>1, <2>3
  <2>. QED
    BY <1>2, <1>3, <1>4, <2>2
<1>. QED
  BY <1>2, <1>4, <1>5, <1>6

LEMMA GainsAre ==
  ASSUME NEW h \in Seq(BarRecord), NEW changes,
         changes = LastOnes([n \in 1..Len(h) - 1 |-> Closes(h)[n + 1] - Closes(h)[n]], RsiPeriod)
  PROVE  /\ [n \in DOMAIN changes |-> IF changes[n] > 0 THEN changes[n] ELSE 0]
              = LastOnes(Gains(h), RsiPeriod)
         /\ [n \in DOMAIN changes |-> IF changes[n] < 0 THEN -changes[n] ELSE 0]
              = LastOnes(Losses(h), RsiPeriod)
<1> DEFINE moves == [n \in 1..Len(h) - 1 |-> Closes(h)[n + 1] - Closes(h)[n]]
           m == IF h = <<>> THEN 0 ELSE Len(h) - 1
           gains == [n \in DOMAIN changes |-> IF changes[n] > 0 THEN changes[n] ELSE 0]
           losses == [n \in DOMAIN changes |-> IF changes[n] < 0 THEN -changes[n] ELSE 0]
<1>1. /\ Len(h) \in Nat
      /\ \A n \in 1..Len(h) : h[n].close \in Nat
  BY BarsTyped
<1>2. m \in Nat /\ 1..m = 1..Len(h) - 1
  BY <1>1, EmptySeq
<1>3. ASSUME NEW n \in 1..m
      PROVE  /\ moves[n] \in Int
             /\ Gains(h)[n] = (IF moves[n] > 0 THEN moves[n] ELSE 0)
             /\ Losses(h)[n] = (IF moves[n] < 0 THEN -moves[n] ELSE 0)
  <2>1. n \in 1..Len(h) - 1 /\ n \in 1..Len(h) /\ n + 1 \in 1..Len(h)
    BY <1>1, <1>2
  <2>2. PICK x \in Nat, y \in Nat : x = h[n].close /\ y = h[n + 1].close
    BY <1>1, <2>1
  <2>3. moves[n] = y - x /\ Gains(h)[n] = Gain(x, y) /\ Losses(h)[n] = Gain(y, x)
    BY <2>1, <2>2 DEF Closes, Gains, Losses
  <2>. QED
    BY <2>3 DEF Gain
<1>4. moves \in Seq(Int) /\ Len(moves) = m
  <2>1. \A s \in [1..m -> Int] : s \in Seq(Int) /\ Len(s) = m
    BY <1>2
  <2>2. moves \in [1..m -> Int]
    BY <1>2, <1>3
  <2> HIDE DEF moves, m
  <2>. QED
    BY <2>1, <2>2
<1>5. PICK gs \in Seq(Int), ls \in Seq(Int) :
        gs = Gains(h) /\ Len(gs) = m /\ ls = Losses(h) /\ Len(ls) = m
  BY SeriesTyped
<1>6. changes = LastOnes(moves, RsiPeriod)
  OBVIOUS
<1> HIDE DEF moves, m
<1>7. changes \in Seq(Int)
  BY <1>4, <1>6, Periods, LastInts
<1>8. PICK g \in Seq(Int), l \in Seq(Int) : g = LastOnes(gs, RsiPeriod) /\ l = LastOnes(ls, RsiPeriod)
  BY Periods, LastInts
<1>9. PICK ms \in Seq(Int) : ms = moves
  BY <1>4
<1>10. /\ Len(g) = Len(changes) /\ Len(changes) \in Nat
       /\ \A k \in 1..Len(changes) : \E i \in 1..m : changes[k] = ms[i] /\ g[k] = gs[i]
  <2>1. Len(ms) = Len(gs) /\ RsiPeriod \in Nat \ {0} /\ changes = LastOnes(ms, RsiPeriod) /\ Len(ms) = m
    BY <1>4, <1>5, <1>6, <1>9, Periods
  <2>2. /\ Len(LastOnes(ms, RsiPeriod)) = Len(LastOnes(gs, RsiPeriod))
        /\ Len(LastOnes(ms, RsiPeriod)) \in Nat
        /\ \A k \in 1..Len(LastOnes(ms, RsiPeriod)) :
             \E i \in 1..Len(ms) : LastOnes(ms, RsiPeriod)[k] = ms[i] /\ LastOnes(gs, RsiPeriod)[k] = gs[i]
    BY <2>1, SamePlaces, Zenon
  <2>. QED
    BY <1>8, <2>1, <2>2
<1>11. /\ Len(l) = Len(changes)
       /\ \A k \in 1..Len(changes) : \E i \in 1..m : changes[k] = ms[i] /\ l[k] = ls[i]
  <2>1. Len(ms) = Len(ls) /\ RsiPeriod \in Nat \ {0} /\ changes = LastOnes(ms, RsiPeriod) /\ Len(ms) = m
    BY <1>4, <1>5, <1>6, <1>9, Periods
  <2>2. /\ Len(LastOnes(ms, RsiPeriod)) = Len(LastOnes(ls, RsiPeriod))
        /\ \A k \in 1..Len(LastOnes(ms, RsiPeriod)) :
             \E i \in 1..Len(ms) : LastOnes(ms, RsiPeriod)[k] = ms[i] /\ LastOnes(ls, RsiPeriod)[k] = ls[i]
    BY <2>1, SamePlaces, Zenon
  <2>. QED
    BY <1>8, <2>1, <2>2
<1>12. DOMAIN changes = 1..Len(changes) /\ DOMAIN g = 1..Len(changes) /\ DOMAIN l = 1..Len(changes)
  BY <1>7, <1>10, <1>11
<1>13. ASSUME NEW k \in 1..Len(changes)
       PROVE  /\ g[k] = (IF changes[k] > 0 THEN changes[k] ELSE 0)
              /\ l[k] = (IF changes[k] < 0 THEN -changes[k] ELSE 0)
  <2>1. PICK i \in 1..m : changes[k] = ms[i] /\ g[k] = gs[i]
    BY <1>10
  <2>2. PICK j \in 1..m : changes[k] = ms[j] /\ l[k] = ls[j]
    BY <1>11
  <2>3. gs[i] = IF ms[i] > 0 THEN ms[i] ELSE 0
    BY <1>3, <1>5, <1>9
  <2>4. ls[j] = IF ms[j] < 0 THEN -ms[j] ELSE 0
    BY <1>3, <1>5, <1>9
  <2>. QED
    BY <2>1, <2>2, <2>3, <2>4
<1>14. gains = g
  <2>1. gains = [n \in 1..Len(changes) |-> IF changes[n] > 0 THEN changes[n] ELSE 0]
    BY <1>12
  <2>2. g = [n \in 1..Len(changes) |-> g[n]]
    BY <1>12
  <2>3. [n \in 1..Len(changes) |-> IF changes[n] > 0 THEN changes[n] ELSE 0]
          = [n \in 1..Len(changes) |-> g[n]]
    BY <1>13
  <2> HIDE DEF gains
  <2>. QED
    BY <2>1, <2>2, <2>3
<1>15. losses = l
  <2>1. losses = [n \in 1..Len(changes) |-> IF changes[n] < 0 THEN -changes[n] ELSE 0]
    BY <1>12
  <2>2. l = [n \in 1..Len(changes) |-> l[n]]
    BY <1>12
  <2>3. [n \in 1..Len(changes) |-> IF changes[n] < 0 THEN -changes[n] ELSE 0]
          = [n \in 1..Len(changes) |-> l[n]]
    BY <1>13
  <2> HIDE DEF losses
  <2>. QED
    BY <2>1, <2>2, <2>3
<1>. QED
  BY <1>5, <1>8, <1>14, <1>15

LEMMA RangesAre ==
  ASSUME NEW h \in Seq(BarRecord), h # <<>>, NEW lastBars, lastBars = LastOnes(h, AtrPeriod + 1)
  PROVE  [n \in 1 .. Len(lastBars) - 1 |-> TrueRange(lastBars[n + 1], lastBars[n].close)]
           = LastOnes(Ranges(h), AtrPeriod)
<1> DEFINE ranges == [n \in 1 .. Len(lastBars) - 1 |-> TrueRange(lastBars[n + 1], lastBars[n].close)]
<1>1. PICK m \in Nat : Len(h) = m + 1
  <2>1. Len(h) \in Nat \ {0}
    BY LenProperties, EmptySeq
  <2>2. Len(h) - 1 \in Nat /\ Len(h) = Len(h) - 1 + 1
    BY <2>1
  <2>. QED
    BY <2>2
<1>2. PICK a \in Nat \ {0} : a = AtrPeriod
  BY Periods
<1>3. PICK rest \in Nat : rest = IF m > a THEN m - a ELSE 0
  <2>1. (IF m > a THEN m - a ELSE 0) \in Nat
    OBVIOUS
  <2>. QED
    BY <2>1, Zenon
<1>4. PICK sel \in Seq(BarRecord) :
        /\ sel = lastBars /\ Len(sel) = (IF m > a THEN a + 1 ELSE m + 1)
        /\ \A k \in 1..Len(sel) : sel[k] = h[rest + k]
  <2>1. a + 1 \in Nat \ {0} /\ (m + 1 > a + 1 <=> m > a) /\ m + 1 - (a + 1) = m - a
    BY <1>1
  <2>. QED
    BY <1>1, <1>2, <1>3, <2>1, LastOnesIs
<1>5. PICK rs \in Seq(Int) : rs = Ranges(h) /\ Len(rs) = m
  <2>1. Ranges(h) \in Seq(Int) /\ Len(Ranges(h)) = Len(h) - 1
    BY SeriesTyped
  <2>. QED
    BY <1>1, <2>1
<1>0. PICK r \in Seq(Int) : r = LastOnes(rs, AtrPeriod)
  BY Periods, LastInts
<1>6. /\ r = LastOnes(Ranges(h), AtrPeriod) /\ Len(r) = (IF m > a THEN a ELSE m)
      /\ \A k \in 1..Len(r) : r[k] = Ranges(h)[rest + k]
  BY <1>0, <1>2, <1>3, <1>5, LastInts
<1>7. Len(sel) - 1 = Len(r) /\ Len(r) \in Nat
  BY <1>4, <1>6
<1>8. ASSUME NEW k \in 1..Len(r) PROVE ranges[k] = r[k]
  <2>1. /\ k \in 1..Len(sel) - 1 /\ k \in 1..Len(sel) /\ k + 1 \in 1..Len(sel)
        /\ rest + k \in 1..Len(h) - 1 /\ rest + (k + 1) = (rest + k) + 1
    BY <1>1, <1>3, <1>4, <1>6, <1>7
  <2>2. ranges[k] = TrueRange(h[(rest + k) + 1], h[rest + k].close)
    BY <1>4, <2>1
  <2>3. Ranges(h)[rest + k] = TrueRange(h[(rest + k) + 1], h[rest + k].close)
    <3>1. PICK i \in 1..Len(h) - 1 : i = rest + k
      BY <2>1
    <3>2. Ranges(h)[i] = TrueRange(h[i + 1], h[i].close)
      BY DEF Ranges
    <3>. QED
      BY <3>1, <3>2
  <2> HIDE DEF ranges
  <2>. QED
    BY <1>6, <2>2, <2>3
<1>9. DOMAIN r = 1..Len(r) /\ DOMAIN ranges = 1..Len(r)
  BY <1>4, <1>7
<1>10. ranges = r
  <2>1. r = [n \in 1..Len(r) |-> r[n]]
    BY <1>9
  <2>2. \A n \in 1..Len(r) : TrueRange(lastBars[n + 1], lastBars[n].close) = r[n]
    BY <1>4, <1>7, <1>8
  <2>3. ranges = [n \in 1..Len(r) |-> TrueRange(lastBars[n + 1], lastBars[n].close)]
    BY <1>4, <1>7
  <2>4. [n \in 1..Len(r) |-> TrueRange(lastBars[n + 1], lastBars[n].close)] = [n \in 1..Len(r) |-> r[n]]
    BY <2>2
  <2> HIDE DEF ranges
  <2>. QED
    BY <2>1, <2>3, <2>4
<1>. QED
  BY <1>6, <1>10

\* features/technical.py's snapshot, in the terms of the windows.
LEMMA ReferenceIs ==
  ASSUME NEW h \in Seq(BarRecord), h # <<>>
  PROVE  Reference(h) =
           IF Len(h) < Max({SlowPeriod, RsiPeriod + 1, AtrPeriod + 1, VolumePeriod})
           THEN NoSnapshot
           ELSE [of |-> "bar", close |-> h[Len(h)].close,
                 fast |-> Total(LastOnes(Closes(h), FastPeriod)),
                 slow |-> Total(LastOnes(Closes(h), SlowPeriod)),
                 rsi |-> Rsi(Total(LastOnes(Gains(h), RsiPeriod)), Total(LastOnes(Losses(h), RsiPeriod))),
                 atr |-> Total(LastOnes(Ranges(h), AtrPeriod)),
                 volume |-> VolumeRatio(h[Len(h)].volume, Total(LastOnes(Volumes(h), VolumePeriod)))]
<1> DEFINE closes == [n \in DOMAIN h |-> h[n].close]
           changes == LastOnes([n \in 1 .. Len(h) - 1 |-> closes[n + 1] - closes[n]], RsiPeriod)
           gains == [n \in DOMAIN changes |-> IF changes[n] > 0 THEN changes[n] ELSE 0]
           losses == [n \in DOMAIN changes |-> IF changes[n] < 0 THEN -changes[n] ELSE 0]
           lastBars == LastOnes(h, AtrPeriod + 1)
           ranges == [n \in 1 .. Len(lastBars) - 1 |-> TrueRange(lastBars[n + 1], lastBars[n].close)]
           volumes == LastOnes([n \in DOMAIN h |-> h[n].volume], VolumePeriod)
<1>9. Reference(h) =
        IF Len(h) < Max({SlowPeriod, RsiPeriod + 1, AtrPeriod + 1, VolumePeriod})
        THEN NoSnapshot
        ELSE [of |-> "bar", close |-> Last(closes), fast |-> Total(LastOnes(closes, FastPeriod)),
              slow |-> Total(LastOnes(closes, SlowPeriod)), rsi |-> Rsi(Total(gains), Total(losses)),
              atr |-> Total(ranges), volume |-> VolumeRatio(Last(volumes), Total(volumes))]
  BY Zenon DEF Reference
<1>1. Len(h) \in Nat \ {0} /\ DOMAIN h = 1..Len(h)
  BY LenProperties, EmptySeq
<1>2. closes = Closes(h) /\ volumes = LastOnes(Volumes(h), VolumePeriod)
  <2>1. [n \in DOMAIN h |-> h[n].close] = Closes(h) /\ [n \in DOMAIN h |-> h[n].volume] = Volumes(h)
    BY <1>1 DEF Closes, Volumes
  <2>. QED
    BY <2>1
<1>3. Last(Closes(h)) = h[Len(h)].close
  <2>1. Len(Closes(h)) = Len(h) /\ Len(h) \in 1..Len(h)
    BY <1>1, SeriesTyped
  <2>. QED
    BY <2>1 DEF Last, Closes
<1>4. Last(LastOnes(Volumes(h), VolumePeriod)) = h[Len(h)].volume
  <2>1. PICK n \in Nat \ {0}, p \in Nat \ {0} : n = Len(h) /\ p = VolumePeriod
    BY <1>1, Periods
  <2>6. PICK vs \in Seq(Int) : vs = Volumes(h) /\ Len(vs) = n
    BY <2>1, SeriesTyped
  <2>7. PICK v \in Seq(Int) : v = LastOnes(vs, p)
    BY LastInts
  <2>8. PICK rest \in Nat : rest = IF n > p THEN n - p ELSE 0
    <3>1. (IF n > p THEN n - p ELSE 0) \in Nat
      OBVIOUS
    <3>. QED
      BY <3>1, Zenon
  <2>2. Len(v) = (IF n > p THEN p ELSE n) /\ \A k \in 1..Len(v) : v[k] = vs[rest + k]
    BY <2>6, <2>7, <2>8, LastInts
  <2>3. Len(v) \in 1..Len(v) /\ rest + Len(v) = n
    BY <2>2, <2>8
  <2>4. v[Len(v)] = vs[n]
    BY <2>2, <2>3
  <2>5. Volumes(h)[n] = h[n].volume
    BY <2>1 DEF Volumes
  <2>. QED
    BY <2>1, <2>4, <2>5, <2>6, <2>7 DEF Last
<1>5. changes = LastOnes([n \in 1 .. Len(h) - 1 |-> Closes(h)[n + 1] - Closes(h)[n]], RsiPeriod)
  <2> HIDE DEF closes
  <2>. QED
    BY <1>2
<1>6. gains = LastOnes(Gains(h), RsiPeriod) /\ losses = LastOnes(Losses(h), RsiPeriod)
  <2> HIDE DEF changes
  <2>. QED
    BY <1>5, GainsAre
<1>7. ranges = LastOnes(Ranges(h), AtrPeriod)
  <2>1. lastBars = LastOnes(h, AtrPeriod + 1)
    OBVIOUS
  <2> HIDE DEF lastBars
  <2>. QED
    BY <2>1, RangesAre
<1> HIDE DEF closes, changes, gains, losses, lastBars, ranges, volumes
<1>8. Last(volumes) = h[Len(h)].volume
  BY <1>2, <1>4
<1>. QED
  BY <1>2, <1>3, <1>6, <1>7, <1>8, <1>9

\* The windows are long enough when the bars are.
LEMMA LongEnough ==
  ASSUME NEW h \in Seq(BarRecord), h # <<>>, NEW s, StateOf(h, s)
  PROVE  Len(h) < Max({SlowPeriod, RsiPeriod + 1, AtrPeriod + 1, VolumePeriod}) <=>
           \/ Len(s.slow.values) < SlowPeriod \/ Len(s.gains.values) < RsiPeriod
           \/ Len(s.ranges.values) < AtrPeriod \/ Len(s.volumes.values) < VolumePeriod
<1>1. PICK n \in Nat \ {0} : n = Len(h)
  BY LenProperties, EmptySeq
<1>2. PICK a \in Nat \ {0}, b \in Nat \ {0}, c \in Nat \ {0}, d \in Nat \ {0} :
        a = SlowPeriod /\ b = RsiPeriod /\ c = AtrPeriod /\ d = VolumePeriod
  BY Periods
<1>3. /\ s.slow.values = LastOnes(Closes(h), a) /\ s.gains.values = LastOnes(Gains(h), b)
      /\ s.ranges.values = LastOnes(Ranges(h), c) /\ s.volumes.values = LastOnes(Volumes(h), d)
  BY <1>2 DEF StateOf, WindowIs
<1>4. /\ Closes(h) \in Seq(Int) /\ Len(Closes(h)) = n /\ Volumes(h) \in Seq(Int) /\ Len(Volumes(h)) = n
      /\ Gains(h) \in Seq(Int) /\ Len(Gains(h)) = n - 1
      /\ Ranges(h) \in Seq(Int) /\ Len(Ranges(h)) = n - 1
  BY <1>1, SeriesTyped
<1>5. /\ Len(s.slow.values) = (IF n > a THEN a ELSE n)
      /\ Len(s.gains.values) = (IF n - 1 > b THEN b ELSE n - 1)
      /\ Len(s.ranges.values) = (IF n - 1 > c THEN c ELSE n - 1)
      /\ Len(s.volumes.values) = (IF n > d THEN d ELSE n)
  <2>1. \A x \in Seq(Int), p \in Nat \ {0} : Len(LastOnes(x, p)) = (IF Len(x) > p THEN p ELSE Len(x))
    BY LastInts
  <2>2. Len(s.slow.values) = (IF n > a THEN a ELSE n)
    BY <1>3, <1>4, <2>1
  <2>3. Len(s.gains.values) = (IF n - 1 > b THEN b ELSE n - 1)
    BY <1>3, <1>4, <2>1
  <2>4. Len(s.ranges.values) = (IF n - 1 > c THEN c ELSE n - 1)
    BY <1>3, <1>4, <2>1
  <2>5. Len(s.volumes.values) = (IF n > d THEN d ELSE n)
    BY <1>3, <1>4, <2>1
  <2>. QED
    BY <2>2, <2>3, <2>4, <2>5
<1>6. PICK T : T = {a, b + 1, c + 1, d}
  OBVIOUS
<1>7. Max(T) \in T /\ \A x \in T : x <= Max(T)
  <2>1. T \subseteq Nat /\ T # {} /\ a + b + c + d + 1 \in Nat /\ \A x \in T : x <= a + b + c + d + 1
    BY <1>6
  <2>. QED
    BY <2>1, MaxIs, Zenon
<1>8. n < Max(T) <=> (n < a \/ n < b + 1 \/ n < c + 1 \/ n < d)
  <2>1. PICK x \in Nat : x = Max(T)
    BY <1>6, <1>7
  <2>2. x \in {a, b + 1, c + 1, d} /\ a <= x /\ b + 1 <= x /\ c + 1 <= x /\ d <= x
    BY <1>6, <1>7, <2>1
  <2>3. n < x <=> (n < a \/ n < b + 1 \/ n < c + 1 \/ n < d)
    BY <2>2
  <2>. QED
    BY <2>1, <2>3
<1>9. n < Max(T) <=> (\/ Len(s.slow.values) < a \/ Len(s.gains.values) < b
                      \/ Len(s.ranges.values) < c \/ Len(s.volumes.values) < d)
  BY <1>5, <1>8
<1>. QED
  BY <1>1, <1>2, <1>6, <1>9

LEMMA SnapshotIs ==
  ASSUME NEW h \in Seq(BarRecord), h # <<>>, NEW s, StateOf(h, s)
  PROVE  SnapshotOf(Last(h), s) = Reference(h)
<1>1. /\ s.fast.sum = Total(LastOnes(Closes(h), FastPeriod))
      /\ s.slow.sum = Total(LastOnes(Closes(h), SlowPeriod))
      /\ s.gains.sum = Total(LastOnes(Gains(h), RsiPeriod))
      /\ s.losses.sum = Total(LastOnes(Losses(h), RsiPeriod))
      /\ s.ranges.sum = Total(LastOnes(Ranges(h), AtrPeriod))
      /\ s.volumes.sum = Total(LastOnes(Volumes(h), VolumePeriod))
  BY DEF StateOf, WindowIs
<1>2. Last(h) = h[Len(h)]
  BY DEF Last
<1>. QED
  BY <1>1, <1>2, LongEnough, ReferenceIs, Zenon DEF SnapshotOf

-----------------------------------------------------------------------------
(* The weeks *)

\* The weeks that have bars are numbered in their order.
WeeksRise(bs) ==
  /\ bs # <<>> => bs[1].week = 1
  /\ \A n \in 2..Len(bs) : bs[n].week = bs[n - 1].week \/ bs[n].week = bs[n - 1].week + 1

LEMMA WeeksAscend ==
  ASSUME NEW bs \in Seq(BarRecord), WeeksRise(bs), NEW i \in 1..Len(bs), NEW j \in i..Len(bs)
  PROVE  bs[i].week \in Nat /\ bs[j].week \in Nat /\ bs[i].week <= bs[j].week
<1>1. Len(bs) \in Nat /\ \A n \in 1..Len(bs) : bs[n].week \in Nat
  BY BarsTyped DEF BarRecord
<1> DEFINE Bad == {k \in i..Len(bs) : ~(bs[i].week <= bs[k].week)}
<1>2. Bad = {}
  <2> SUFFICES ASSUME Bad # {} PROVE FALSE
    OBVIOUS
  <2>1. PICK k \in Bad : \A l \in Bad : k <= l
    <3>1. Bad \subseteq Nat
      OBVIOUS
    <3> HIDE DEF Bad
    <3>. QED
      BY <3>1, LeastNat
  <2>2. k \in i..Len(bs) /\ ~(bs[i].week <= bs[k].week)
    OBVIOUS
  <2>3. k # i
    BY <1>1, <2>2
  <2>4. /\ k \in 2..Len(bs) /\ k - 1 \in i..Len(bs) /\ ~(k <= k - 1)
        /\ k - 1 \in 1..Len(bs) /\ k \in 1..Len(bs)
    BY <1>1, <2>2, <2>3
  <2>5. bs[i].week <= bs[k - 1].week
    BY <2>1, <2>4
  <2>6. bs[k].week = bs[k - 1].week \/ bs[k].week = bs[k - 1].week + 1
    BY <2>4 DEF WeeksRise
  <2>7. PICK x \in Nat, y \in Nat, z \in Nat : x = bs[i].week /\ y = bs[k - 1].week /\ z = bs[k].week
    BY <1>1, <2>4
  <2>. QED
    BY <2>2, <2>5, <2>6, <2>7
<1>3. j \in 1..Len(bs)
  BY <1>1
<1>. QED
  BY <1>1, <1>2, <1>3

\* Every week up to that of a bar has one.
LEMMA EveryWeekHasBars ==
  ASSUME NEW bs \in Seq(BarRecord), WeeksRise(bs), NEW j \in 1..Len(bs), NEW w \in 1..bs[j].week
  PROVE  \E n \in 1..j : bs[n].week = w
<1>1. Len(bs) \in Nat /\ \A n \in 1..Len(bs) : bs[n].week \in Nat
  BY BarsTyped DEF BarRecord
<1> DEFINE Late == {n \in 1..j : w <= bs[n].week}
<1>2. PICK n \in Late : \A l \in Late : n <= l
  <2>1. j \in Late /\ Late \subseteq Nat
    BY <1>1
  <2> HIDE DEF Late
  <2>. QED
    BY <2>1, LeastNat
<1>3. n \in 1..j /\ w <= bs[n].week /\ n \in 1..Len(bs)
  BY <1>1
<1>4. PICK x \in Nat : x = bs[n].week /\ w <= x
  BY <1>1, <1>3
<1>5. w \in Nat \ {0}
  BY <1>1
<1>6. CASE n = 1
  <2>1. x = 1
    BY <1>3, <1>4, <1>6, EmptySeq DEF WeeksRise
  <2>2. x = w
    BY <1>4, <1>5, <2>1
  <2>. QED
    BY <1>3, <1>4, <2>2
<1>7. CASE n # 1
  <2>1. n \in 2..Len(bs) /\ n - 1 \in 1..j /\ n - 1 \in 1..Len(bs) /\ ~(n <= n - 1)
    BY <1>1, <1>3, <1>7
  <2>2. PICK y \in Nat : y = bs[n - 1].week
    BY <1>1, <2>1
  <2>3. ~(w <= y)
    BY <1>2, <2>1, <2>2
  <2>4. x = y \/ x = y + 1
    BY <1>4, <2>1, <2>2 DEF WeeksRise
  <2>5. x = w
    BY <1>4, <1>5, <2>3, <2>4
  <2>. QED
    BY <1>3, <1>4, <2>5
<1>. QED
  BY <1>6, <1>7

\* The weeks that are over say the same, whether or not later bars are there.
LEMMA WeeksThatAreOver ==
  ASSUME NEW bs \in Seq(BarRecord), WeeksRise(bs), NEW j \in 1..Len(bs),
         NEW week \in Nat, week <= bs[j].week
  PROVE  WeeklyCloses(SubSeq(bs, 1, j), week) = WeeklyCloses(bs, week)
<1>1. Len(bs) \in Nat /\ \A n \in 1..Len(bs) : bs[n].week \in Nat
  BY BarsTyped DEF BarRecord
<1>2. PICK h \in Seq(BarRecord) : h = SubSeq(bs, 1, j)
  <2>1. j \in 0..Len(bs)
    BY <1>1
  <2>. QED
    BY <2>1, FirstBars
<1>3. Len(h) = j /\ \A n \in 1..j : h[n] = bs[n]
  <2>1. j \in 0..Len(bs)
    BY <1>1
  <2>. QED
    BY <1>2, <2>1, FirstBars
<1>4. DOMAIN h = 1..j /\ DOMAIN bs = 1..Len(bs)
  BY <1>3, LenProperties
<1>5. ASSUME NEW w \in 1..week - 1 PROVE h[LastBarOf(h, w)].close = bs[LastBarOf(bs, w)].close
  <2> DEFINE T == {n \in DOMAIN bs : bs[n].week = w}
  <2>1. ASSUME NEW n \in DOMAIN bs, bs[n].week = w PROVE n \in 1..j
    <3>1. CASE n <= j
      BY <1>4, <3>1
    <3>2. CASE ~(n <= j)
      <4>1. n \in j..Len(bs)
        BY <1>1, <1>4, <3>2
      <4>2. bs[j].week \in Nat /\ bs[n].week \in Nat /\ bs[j].week <= bs[n].week
        BY <4>1, WeeksAscend
      <4>. QED
        BY <2>1, <4>2
    <3>. QED
      BY <3>1, <3>2
  <2>2. {n \in DOMAIN h : h[n].week = w} = T
    <3>1. ASSUME NEW n \in DOMAIN h, h[n].week = w PROVE n \in T
      BY <1>1, <1>3, <1>4, <3>1
    <3>2. ASSUME NEW n \in T PROVE n \in DOMAIN h /\ h[n].week = w
      BY <1>3, <1>4, <2>1
    <3>. QED
      BY <3>1, <3>2
  <2>3. T # {}
    <3>1. w \in 1..bs[j].week
      BY <1>1
    <3>2. PICK n \in 1..j : bs[n].week = w
      BY <3>1, EveryWeekHasBars
    <3>3. n \in DOMAIN bs
      BY <1>1, <1>4
    <3>. QED
      BY <3>2, <3>3
  <2>4. T \subseteq 1..j /\ T \subseteq Nat /\ j \in Nat /\ \A n \in T : n <= j
    <3>1. T \subseteq 1..j
      BY <2>1
    <3> HIDE DEF T
    <3>. QED
      BY <1>1, <3>1
  <2>5. LastBarOf(h, w) = Max(T) /\ LastBarOf(bs, w) = Max(T)
    BY <2>2 DEF LastBarOf
  <2> HIDE DEF T
  <2>6. Max(T) \in T
    BY <2>3, <2>4, MaxIs
  <2>. QED
    BY <1>3, <2>4, <2>5, <2>6
<1>6. WeeklyCloses(h, week) = WeeklyCloses(bs, week)
  BY <1>5 DEF WeeklyCloses
<1>. QED
  BY <1>2, <1>6

-----------------------------------------------------------------------------
(* What is remembered *)

\* The dataset, and what has been taken from its bars so far: the state of the
\* windows, the snapshot of the bar they are caught up with, and the verdict of
\* a week that has begun.
IndicatorInv ==
  /\ bars \in Seq(BarRecord) /\ WeeksRise(bars) /\ seen \in 0..Len(bars)
  /\ snapshot.at \in 0..seen /\ state.length = snapshot.at
  /\ StateOf(SubSeq(bars, 1, snapshot.at), state)
  /\ snapshot.value = IF snapshot.at = 0 THEN NoSnapshot ELSE Reference(SubSeq(bars, 1, snapshot.at))
  /\ verdict.week \in Nat
  /\ verdict.week # 0 =>
       /\ seen \in 1..Len(bars) /\ verdict.week <= bars[seen].week
       /\ verdict.value = Confirmed(WeeklyCloses(bars, verdict.week))

LEMMA IndicatorsRemember == IndicatorInv => MemoryIsOfThePast
<1> SUFFICES ASSUME IndicatorInv, verdict.week # 0
             PROVE  WeeklyCloses(History, verdict.week) = WeeklyCloses(bars, verdict.week)
  BY DEF IndicatorInv, MemoryIsOfThePast
<1>1. PICK j \in 1..Len(bars), week \in Nat : j = seen /\ week = verdict.week /\ week <= bars[j].week
  BY DEF IndicatorInv
<1>2. bars \in Seq(BarRecord) /\ WeeksRise(bars)
  BY DEF IndicatorInv
<1>3. WeeklyCloses(SubSeq(bars, 1, j), week) = WeeklyCloses(bars, week)
  BY <1>1, <1>2, WeeksThatAreOver
<1>. QED
  BY <1>1, <1>3 DEF History

LEMMA NothingYet == StateOf(<<>>, NewState)
<1>1. <<>> \in Seq(BarRecord) /\ Len(<<>>) = 0
  OBVIOUS
<1>2. \A values \in Seq(Int), p \in Nat \ {0} : Len(values) = 0 => WindowIs(NoValues, values, p)
  <2> SUFFICES ASSUME NEW values \in Seq(Int), NEW p \in Nat \ {0}, Len(values) = 0
               PROVE  WindowIs(NoValues, values, p)
    OBVIOUS
  <2>1. PICK v \in Seq(Int) : v = LastOnes(values, p)
    BY LastInts
  <2>2. Len(v) = 0
    <3>1. Len(LastOnes(values, p)) = (IF Len(values) > p THEN p ELSE Len(values))
      BY LastInts
    <3>. QED
      BY <2>1, <3>1
  <2>3. v = <<>>
    BY <2>2, EmptySeq
  <2>4. NoValues \in Window
    BY DEF NoValues, Window
  <2>. QED
    BY <2>1, <2>3, <2>4, TotalEmpty DEF WindowIs, NoValues
<1>3. PICK h \in Seq(BarRecord) : h = <<>>
  BY <1>1
<1>4. /\ Closes(h) \in Seq(Int) /\ Len(Closes(h)) = 0 /\ Volumes(h) \in Seq(Int) /\ Len(Volumes(h)) = 0
      /\ Gains(h) \in Seq(Int) /\ Len(Gains(h)) = 0 /\ Losses(h) \in Seq(Int) /\ Len(Losses(h)) = 0
      /\ Ranges(h) \in Seq(Int) /\ Len(Ranges(h)) = 0
  BY <1>1, <1>3, SeriesTyped
<1>5. /\ WindowIs(NoValues, Closes(h), FastPeriod) /\ WindowIs(NoValues, Closes(h), SlowPeriod)
      /\ WindowIs(NoValues, Volumes(h), VolumePeriod) /\ WindowIs(NoValues, Gains(h), RsiPeriod)
      /\ WindowIs(NoValues, Losses(h), RsiPeriod) /\ WindowIs(NoValues, Ranges(h), AtrPeriod)
  BY <1>2, <1>4, Periods
<1>6. NewState \in StateRecord
  BY DEF NewState, StateRecord, NoValues, Window, NoPrice
<1>. QED
  BY <1>3, <1>5, <1>6 DEF StateOf, NewState

LEMMA IndicatorsBegin == DeskInit => IndicatorInv
<1> SUFFICES ASSUME DeskInit PROVE IndicatorInv
  OBVIOUS
<1>1. seen = 0 /\ state = NewState /\ snapshot = NothingTaken /\ verdict = NoVerdict
  BY DEF DeskInit, IndicatorsInit, IndicatorsOff
<1>2. bars \in Seq(BarRecord) /\ WeeksRise(bars)
  <2>1. CASE bars = <<>>
    <3>1. bars \in Seq(BarRecord) /\ Len(bars) = 0
      BY <2>1
    <3>2. 2..Len(bars) = {}
      BY <3>1
    <3>. QED
      BY <2>1, <3>1, <3>2 DEF WeeksRise
  <2>2. CASE IndicatorsInit
    <3>1. PICK shapes \in [1 .. MaxBars -> Shapes], weeks \in Weeks :
            bars = [n \in 1 .. MaxBars |->
                      [high |-> shapes[n].high, low |-> shapes[n].low, close |-> shapes[n].close,
                       volume |-> shapes[n].volume, week |-> weeks[n]]]
      BY <2>2 DEF IndicatorsInit
    <3>2. /\ weeks \in [1 .. MaxBars -> 1 .. MaxBars] /\ weeks[1] = 1
          /\ \A n \in 2 .. MaxBars : weeks[n] = weeks[n - 1] \/ weeks[n] = weeks[n - 1] + 1
      BY DEF Weeks
    <3>3. \A n \in 1..MaxBars :
            /\ shapes[n].high \in Nat /\ shapes[n].low \in Nat /\ shapes[n].close \in Nat
            /\ shapes[n].volume \in Nat /\ weeks[n] \in Nat
      <4>1. \A n \in 1..MaxBars : weeks[n] \in Nat
        BY <3>2, MaxBarsAssumption
      <4>2. \A n \in 1..MaxBars : shapes[n] \in Shapes
        OBVIOUS
      <4>3. \A x \in Shapes : x.high \in Nat /\ x.low \in Nat /\ x.close \in Nat /\ x.volume \in Nat
        BY ShapesAssumption
      <4>. QED
        BY <4>1, <4>2, <4>3
    <3>4. bars \in [1..MaxBars -> BarRecord]
      BY <3>1, <3>3 DEF BarRecord
    <3>5. bars \in Seq(BarRecord) /\ Len(bars) = MaxBars
      BY <3>4, MaxBarsAssumption
    <3>6. \A n \in 1..MaxBars : bars[n].week = weeks[n]
      BY <3>1
    <3>7. bars[1].week = 1
      BY <3>2, <3>6, MaxBarsAssumption
    <3>8. ASSUME NEW n \in 2..MaxBars
          PROVE  bars[n].week = bars[n - 1].week \/ bars[n].week = bars[n - 1].week + 1
      <4>1. n \in 1..MaxBars /\ n - 1 \in 1..MaxBars
        BY MaxBarsAssumption
      <4>. QED
        BY <3>2, <3>6, <4>1
    <3>. QED
      BY <3>5, <3>7, <3>8 DEF WeeksRise
  <2>. QED
    BY <2>1, <2>2 DEF DeskInit, IndicatorsOff
<1>3. SubSeq(bars, 1, 0) = <<>>
  <2>1. 0 \in Int /\ 1 \in Int /\ 0 < 1
    OBVIOUS
  <2>. QED
    BY <2>1, SubSeqEmpty, Zenon
<1>4. Len(bars) \in Nat
  BY <1>2, LenProperties
<1>5. /\ snapshot.at = 0 /\ snapshot.value = NoSnapshot /\ verdict.week = 0 /\ state.length = 0
  BY <1>1 DEF NothingTaken, NoVerdict, NewState
<1>. QED
  <2>1. StateOf(SubSeq(bars, 1, snapshot.at), state)
    BY <1>1, <1>3, <1>5, NothingYet
  <2>2. seen \in 0..Len(bars) /\ snapshot.at \in 0..seen /\ state.length = snapshot.at
    BY <1>1, <1>4, <1>5
  <2>. QED
    BY <1>2, <1>5, <2>1, <2>2 DEF IndicatorInv

LEMMA ShorterStill ==
  ASSUME NEW h \in Seq(BarRecord), NEW j \in 0..Len(h), NEW k \in 0..j
  PROVE  SubSeq(SubSeq(h, 1, j), 1, k) = SubSeq(h, 1, k)
<1>1. PICK t \in Seq(BarRecord) : t = SubSeq(h, 1, j) /\ Len(t) = j /\ \A n \in 1..j : t[n] = h[n]
  BY FirstBars
<1>2. k \in 0..Len(h) /\ k \in 0..Len(t) /\ \A n \in 1..k : n \in 1..j
  BY <1>1, LenProperties
<1>3. PICK u \in Seq(BarRecord) : u = SubSeq(h, 1, k) /\ Len(u) = k /\ \A n \in 1..k : u[n] = h[n]
  BY <1>2, FirstBars
<1>4. PICK v \in Seq(BarRecord) : v = SubSeq(t, 1, k) /\ Len(v) = k /\ \A n \in 1..k : v[n] = t[n]
  BY <1>2, FirstBars
<1>5. \A n \in 1..k : u[n] = v[n]
  BY <1>1, <1>2, <1>3, <1>4
<1>6. u = v
  BY <1>3, <1>4, <1>5, SeqEqual
<1>. QED
  BY <1>1, <1>3, <1>4, <1>6

LEMMA IndicatorsKeep == IndicatorInv /\ [DeskNext]_deskVars => IndicatorInv'
<1> SUFFICES ASSUME IndicatorInv, [DeskNext]_deskVars PROVE IndicatorInv'
  OBVIOUS
<1> USE DEF IndicatorInv
<1>1. CASE Arrive
  <2>1. PICK j \in Nat : j = seen /\ seen' = j + 1 /\ j + 1 \in 1..Len(bars)
    BY <1>1 DEF Arrive
  <2>2. ASSUME verdict.week # 0 PROVE verdict.week <= bars[seen'].week
    <3>1. j \in 1..Len(bars) /\ j + 1 \in j..Len(bars)
      BY <2>1, <2>2
    <3>2. bars[j].week \in Nat /\ bars[j + 1].week \in Nat /\ bars[j].week <= bars[j + 1].week
      BY <3>1, WeeksAscend
    <3>. QED
      BY <2>1, <2>2, <3>2
  <2>3. UNCHANGED <<bars, state, snapshot, verdict>>
    BY <1>1 DEF Arrive
  <2>4. seen' \in 0..Len(bars) /\ snapshot.at \in 0..seen' /\ seen' \in 1..Len(bars)
    BY <2>1
  <2>. QED
    BY <2>2, <2>3, <2>4
<1>2. CASE TakeSnapshot
  <2>9. PICK j \in 1..Len(bars) : j = seen
    BY <1>2 DEF TakeSnapshot
  <2>1. PICK k \in 0..j : j = seen /\ k = snapshot.at
    BY <2>9
  <2>2. PICK h \in Seq(BarRecord) : h = SubSeq(bars, 1, j) /\ Len(h) = j
    <3>1. j \in 0..Len(bars)
      BY LenProperties
    <3>. QED
      BY <3>1, FirstBars
  <2>3. h # <<>> /\ k \in 0..Len(h)
    BY <2>1, <2>2
  <2>4. SubSeq(h, 1, k) = SubSeq(bars, 1, k)
    BY <2>1, <2>2, ShorterStill
  <2>5. StateOf(SubSeq(h, 1, k), state) /\ state.length = k
    BY <2>1, <2>4
  <2>6. StateOf(h, CaughtUp(state, h)) /\ CaughtUp(state, h).length = Len(h)
    BY <2>3, <2>5, CaughtUpKeeps
  <2>7. /\ state' = CaughtUp(state, h) /\ snapshot' = [at |-> j, value |-> SnapshotOf(Last(h), state')]
        /\ UNCHANGED <<bars, seen, verdict>>
    BY <1>2, <2>1, <2>2 DEF TakeSnapshot, History
  <2>8. SnapshotOf(Last(h), state') = Reference(h)
    BY <2>3, <2>6, <2>7, SnapshotIs
  <2>. QED
    BY <2>1, <2>2, <2>6, <2>7, <2>8
<1>3. CASE Confirm
  <2>1. UNCHANGED <<bars, seen, state, snapshot>>
    BY <1>3 DEF Confirm
  <2>3. seen \in 1..Len(bars)
    BY <1>3, LenProperties DEF Confirm
  <2>4. verdict'.week \in Nat /\ (verdict'.week # 0 => verdict'.week <= bars[seen].week
                                /\ verdict'.value = Confirmed(WeeklyCloses(bars, verdict'.week)))
    <3>1. bars[seen].week \in Nat
      BY <2>3, BarsTyped DEF BarRecord
    <3>2. \/ verdict' = verdict
          \/ verdict' = [week |-> bars[seen].week, value |-> Confirmed(WeeklyCloses(bars, bars[seen].week))]
      BY <1>3 DEF Confirm
    <3>. QED
      BY <3>1, <3>2
  <2>. QED
    BY <2>1, <2>3, <2>4
<1>4. CASE UNCHANGED indicatorVars
  BY <1>4 DEF indicatorVars
<1>. QED
  BY <1>1, <1>2, <1>3, <1>4 DEF DeskNext, deskVars, IndicatorStep

-----------------------------------------------------------------------------
(* The research tools: an evaluation *)

Trial == [from : Int, to : Int, start : Int]
WindowRecord == [train : Trial, test : Trial]
EvidenceRecord == [return : Int, drawdown : Nat, positive : Nat]

SplitRequest(r) == r.bars \in Int /\ r.split \in Int /\ r.warmup[1] \in Nat \ {0}
WalkRequest(r) == /\ r.bars \in Int /\ r.train \in Int /\ r.test \in Int /\ r.step \in Int
                  /\ r.warmup \in [1 .. Candidates -> Warmups]

\* The n-th window of a candidate, and whether the data hold it.
StartOf(n) == (n - 1) * ActualStep
Fits(n) == StartOf(n) + request.train + request.test <= request.bars

EvaluationTyped ==
  /\ request.kind \in {"none", "split", "walk"}
  /\ request.kind = "split" => SplitRequest(request)
  /\ request.kind = "walk" => WalkRequest(request)
  /\ candidate \in 1 .. Candidates /\ trainStart \in Int
  /\ runs \in [1 .. Candidates -> Seq(WindowRecord)]
  /\ evidence \in [1 .. Candidates -> EvidenceRecord]
  /\ status \in {"working", "refused", "reported", "selected"}

\* A split has its report and nothing else.
SplitInv ==
  /\ request.kind # "walk" => /\ candidate = 1 /\ status # "selected"
                              /\ \A c \in 1 .. Candidates : runs[c] = <<>>
  /\ evaluation # NoReport =>
       /\ request.kind = "split"
       /\ LET from == ContextStart(request.split, request.warmup[1])
          IN /\ SliceIsValid(from, request.split, request.bars)
             /\ evaluation = SplitReport(request.bars, request.split, request.warmup[1],
                                         request.scenarios)

\* A candidate has the windows from the first on; those before it have all that
\* fit, and those after it none.
WindowsInv ==
  request.kind = "walk" =>
    /\ \A c \in 1 .. Candidates : \A n \in DOMAIN runs[c] :
         Fits(n) /\ runs[c][n] = WindowRun(StartOf(n), request.train, request.test)
    /\ trainStart = StartOf(Len(runs[candidate]) + 1)
    /\ \A c \in 1 .. Candidates :
         /\ c < candidate => runs[c] # <<>> /\ ~Fits(Len(runs[c]) + 1)
         /\ c > candidate => runs[c] = <<>>
         /\ runs[c] # <<>> => SizesAreValid
    /\ status = "selected" =>
         /\ candidate = Candidates /\ runs[candidate] # <<>>
         /\ ~Fits(Len(runs[candidate]) + 1)

SelectedInv ==
  /\ status = "selected" => selected \in IF Chosen = {} THEN {Nobody} ELSE Chosen
  /\ status # "selected" => selected = Nobody

EvaluationInv == EvaluationTyped /\ SplitInv /\ WindowsInv /\ SelectedInv

LEMMA MaxOfTwo ==
  ASSUME NEW a \in Int, NEW b \in Int
  PROVE  Max({a, b}) \in {a, b} /\ a <= Max({a, b}) /\ b <= Max({a, b})
<1>1. \E x \in {a, b} : \A y \in {a, b} : x >= y
  <2>1. CASE a <= b
    BY <2>1
  <2>2. CASE ~(a <= b)
    BY <2>2
  <2>. QED
    BY <2>1, <2>2
<1>2. Max({a, b}) \in {a, b} /\ \A y \in {a, b} : Max({a, b}) >= y
  BY <1>1 DEF Max
<1>. QED
  BY <1>2

LEMMA ContextIsBefore ==
  ASSUME NEW split \in Int, NEW warmup \in Nat \ {0}
  PROVE  /\ ContextStart(split, warmup) \in Nat
         /\ split >= 0 => ContextStart(split, warmup) <= split
<1>1. PICK before : before = split - warmup + 1
  OBVIOUS
<1>2. before \in Int /\ before <= split
  BY <1>1
<1>3. ContextStart(split, warmup) = Max({0, before})
  BY <1>1 DEF ContextStart
<1>4. /\ Max({0, before}) \in {0, before}
      /\ 0 <= Max({0, before}) /\ before <= Max({0, before})
  BY <1>2, MaxOfTwo
<1>. QED
  BY <1>2, <1>3, <1>4

LEMMA EvaluationStarts ==
  ASSUME NothingEvaluated,
         \/ request.kind = "none"
         \/ request.kind = "split" /\ SplitRequest(request)
         \/ request.kind = "walk" /\ WalkRequest(request)
  PROVE  EvaluationInv
<1>1. /\ candidate = 1 /\ trainStart = 0
      /\ runs = [c \in 1 .. Candidates |-> <<>>]
      /\ evidence = [c \in 1 .. Candidates |-> [return |-> 0, drawdown |-> 0, positive |-> 0]]
      /\ evaluation = NoReport /\ status = "working" /\ selected = Nobody
  BY DEF NothingEvaluated
<1>2. <<>> \in Seq(WindowRecord) /\ Len(<<>>) = 0 /\ DOMAIN <<>> = {}
  BY EmptySeq
<1>3. 1 \in 1 .. Candidates
  BY CandidatesAssumption
<1>4. EvaluationTyped
  BY <1>1, <1>2, <1>3 DEF EvaluationTyped, EvidenceRecord
<1>5. SplitInv
  BY <1>1 DEF SplitInv
<1>6. WindowsInv
  <2> SUFFICES ASSUME request.kind = "walk" PROVE WindowsInv
    BY DEF WindowsInv
  <2>1. \A c \in 1 .. Candidates : runs[c] = <<>>
    BY <1>1
  <2>2. request.test \in Int /\ request.step \in Int
    BY DEF WalkRequest
  <2>3. ActualStep \in Int
    BY <2>2 DEF ActualStep
  <2>4. StartOf(Len(runs[candidate]) + 1) = 0
    <3>1. Len(runs[candidate]) + 1 - 1 = 0
      BY <1>1, <1>2, <1>3
    <3>. QED
      BY <2>3, <3>1 DEF StartOf
  <2>5. \A c \in 1 .. Candidates : ~(c < candidate)
    BY <1>1, <1>3
  <2>. QED
    BY <1>1, <1>2, <2>1, <2>4, <2>5 DEF WindowsInv
<1>7. SelectedInv
  BY <1>1 DEF SelectedInv
<1>. QED
  BY <1>4, <1>5, <1>6, <1>7 DEF EvaluationInv

LEMMA EvaluationSame ==
  ASSUME EvaluationInv, UNCHANGED evaluationVars
  PROVE  EvaluationInv'
<1>1. UNCHANGED <<request, candidate, trainStart, runs, evidence, evaluation, status, selected>>
  BY DEF evaluationVars
<1>2. EvaluationTyped'
  BY <1>1 DEF EvaluationInv, EvaluationTyped
<1>3. SplitInv'
  BY <1>1 DEF EvaluationInv, SplitInv
<1>4. WindowsInv'
  BY <1>1 DEF EvaluationInv, WindowsInv, Fits, StartOf, ActualStep, SizesAreValid
<1>5. SelectedInv'
  BY <1>1 DEF EvaluationInv, SelectedInv, Chosen, Eligible, Better, Score,
    Returned, Drawdown
<1>. QED
  BY <1>2, <1>3, <1>4, <1>5 DEF EvaluationInv

LEMMA SplitStep == ASSUME EvaluationInv, EvaluateTrainTest PROVE EvaluationInv'
<1>1. /\ request.kind = "split" /\ status = "working"
      /\ UNCHANGED <<request, candidate, trainStart, runs, evidence, selected>>
  BY DEF EvaluateTrainTest
<1>2. \/ status' = "refused" /\ evaluation' = evaluation
      \/ /\ status' = "reported"
         /\ SliceIsValid(ContextStart(request.split, request.warmup[1]),
                              request.split, request.bars)
         /\ evaluation' = SplitReport(request.bars, request.split, request.warmup[1],
                                      request.scenarios)
  BY DEF EvaluateTrainTest
<1>3. EvaluationTyped'
  BY <1>1, <1>2 DEF EvaluationInv, EvaluationTyped
<1>4. SplitInv'
  BY <1>1, <1>2 DEF EvaluationInv, SplitInv
<1>5. WindowsInv' /\ SelectedInv'
  BY <1>1, <1>2 DEF EvaluationInv, WindowsInv, SelectedInv
<1>. QED
  BY <1>3, <1>4, <1>5 DEF EvaluationInv

LEMMA RefuseStep == ASSUME EvaluationInv, RefuseSizes PROVE EvaluationInv'
<1>1. /\ request.kind = "walk" /\ status = "working" /\ status' = "refused"
      /\ UNCHANGED <<request, candidate, trainStart, runs, evidence, evaluation, selected>>
  BY DEF RefuseSizes
<1>2. EvaluationTyped'
  BY <1>1 DEF EvaluationInv, EvaluationTyped
<1>3. SplitInv'
  BY <1>1 DEF EvaluationInv, SplitInv
<1>4. WindowsInv'
  BY <1>1 DEF EvaluationInv, WindowsInv, Fits, StartOf, ActualStep, SizesAreValid
<1>5. SelectedInv'
  BY <1>1 DEF EvaluationInv, SelectedInv
<1>. QED
  BY <1>2, <1>3, <1>4, <1>5 DEF EvaluationInv

\* The sizes of a walk, as numbers.
LEMMA WalkNumbers ==
  ASSUME EvaluationTyped, request.kind = "walk"
  PROVE  /\ request.bars \in Int /\ request.train \in Int /\ request.test \in Int
         /\ ActualStep \in Int
         /\ \A n \in Nat : StartOf(n) \in Int /\ StartOf(n + 1) = StartOf(n) + ActualStep
<1>1. /\ request.bars \in Int /\ request.train \in Int /\ request.test \in Int
      /\ ActualStep \in Int
  BY DEF EvaluationTyped, WalkRequest, ActualStep
<1>2. ASSUME NEW n \in Nat
      PROVE  StartOf(n) \in Int /\ StartOf(n + 1) = StartOf(n) + ActualStep
  <2>1. PICK s \in Int : s = ActualStep
    BY <1>1
  <2>2. n + 1 - 1 = (n - 1) + 1
    OBVIOUS
  <2>3. (n - 1 + 1) * s = (n - 1) * s + s /\ (n - 1) * s \in Int
    OBVIOUS
  <2>. QED
    BY <2>1, <2>2, <2>3 DEF StartOf
<1>. QED
  BY <1>1, <1>2

LEMMA WindowStep ==
  ASSUME EvaluationInv, EvaluateWindow
  PROVE  EvaluationInv'
<1> USE DEF EvaluationInv
<1>1. /\ request.kind = "walk" /\ status = "working" /\ SizesAreValid /\ WindowFits
      /\ trainStart' = trainStart + ActualStep
      /\ UNCHANGED <<request, candidate, evaluation, status, selected>>
  BY DEF EvaluateWindow
<1>2. PICK trial : trial = WindowRun(trainStart, request.train, request.test)
  OBVIOUS
<1>3. PICK outcome \in Earned(trial.test, request.warmup[candidate]) :
        /\ runs' = [runs EXCEPT ![candidate] = Append(@, trial)]
        /\ evidence' = [evidence EXCEPT ![candidate] =
             [return |-> @.return + outcome.return,
              drawdown |-> @.drawdown + outcome.drawdown,
              positive |-> @.positive + IF outcome.return > 0 THEN 1 ELSE 0]]
  BY <1>2 DEF EvaluateWindow
<1>4. candidate \in 1 .. Candidates /\ trainStart \in Int /\ runs[candidate] \in Seq(WindowRecord)
  BY DEF EvaluationTyped
<1>5. PICK count \in Nat : count = Len(runs[candidate]) /\ DOMAIN runs[candidate] = 1 .. count
  BY <1>4, LenProperties
<1>6. trial \in WindowRecord
  <2>1. PICK from \in Int, train \in Int, test \in Int :
          from = trainStart /\ train = request.train /\ test = request.test
    BY <1>1, <1>4, WalkNumbers
  <2>2. trial = [train |-> [from |-> from, to |-> from + train, start |-> from],
               test |-> [from |-> from, to |-> from + train + test, start |-> from + train]]
    BY <1>2, <2>1 DEF WindowRun, Backtest
  <2>. QED
    BY <2>2 DEF WindowRecord, Trial
<1>7. PICK longer : longer = Append(runs[candidate], trial)
  OBVIOUS
<1>8. /\ longer \in Seq(WindowRecord) /\ Len(longer) = count + 1 /\ DOMAIN longer = 1 .. count + 1
      /\ longer # <<>> /\ longer[count + 1] = trial
      /\ \A n \in 1 .. count : longer[n] = runs[candidate][n]
  <2>1. /\ longer \in Seq(WindowRecord) /\ Len(longer) = count + 1
        /\ longer # <<>> /\ longer[count + 1] = trial
        /\ \A n \in 1 .. count : longer[n] = runs[candidate][n]
    BY <1>4, <1>5, <1>6, <1>7, AppendProperties
  <2>. QED
    BY <2>1, LenProperties
<1>9. /\ runs' \in [1 .. Candidates -> Seq(WindowRecord)] /\ runs'[candidate] = longer
      /\ \A c \in 1 .. Candidates : c # candidate => runs'[c] = runs[c]
  BY <1>3, <1>4, <1>7, <1>8 DEF EvaluationTyped
<1>10. evidence' \in [1 .. Candidates -> EvidenceRecord]
  <2>1. outcome.return \in Int /\ outcome.drawdown \in Nat
    BY OutcomesAssumption DEF Earned, Flat
  <2>2. PICK earned : earned = evidence[candidate]
    OBVIOUS
  <2>3. earned.return \in Int /\ earned.drawdown \in Nat /\ earned.positive \in Nat
    BY <1>4, <2>2 DEF EvaluationTyped, EvidenceRecord
  <2>4. PICK more \in {0, 1} : more = IF outcome.return > 0 THEN 1 ELSE 0
    OBVIOUS
  <2>5. PICK next : next = [return |-> earned.return + outcome.return,
                            drawdown |-> earned.drawdown + outcome.drawdown,
                            positive |-> earned.positive + more]
    OBVIOUS
  <2>6. next \in EvidenceRecord
    BY <2>1, <2>3, <2>4, <2>5 DEF EvidenceRecord
  <2>7. evidence' = [evidence EXCEPT ![candidate] = next]
    BY <1>3, <2>2, <2>4, <2>5
  <2>. QED
    BY <2>6, <2>7 DEF EvaluationTyped
<1>11. EvaluationTyped'
  <2>1. trainStart' \in Int
    BY <1>1, <1>4, WalkNumbers
  <2>. QED
    BY <1>1, <1>9, <1>10, <2>1 DEF EvaluationTyped
<1>12. SplitInv'
  BY <1>1 DEF SplitInv
<1>13. trainStart = StartOf(count + 1) /\ trainStart' = StartOf(count + 2)
  <2>1. count + 1 \in Nat /\ count + 1 + 1 = count + 2
    BY <1>5
  <2>2. trainStart = StartOf(count + 1)
    BY <1>1, <1>5 DEF WindowsInv
  <2>3. StartOf(count + 1 + 1) = StartOf(count + 1) + ActualStep
    BY <1>1, <2>1, WalkNumbers
  <2>. QED
    BY <1>1, <2>1, <2>2, <2>3
<1>14. /\ \A n : StartOf(n)' = StartOf(n) /\ (Fits(n)' <=> Fits(n))
       /\ ActualStep' = ActualStep /\ (SizesAreValid' <=> SizesAreValid)
  BY <1>1 DEF StartOf, Fits, ActualStep, SizesAreValid
<1>15. WindowsInv'
  <2>1. ASSUME NEW c \in 1 .. Candidates, NEW n \in DOMAIN runs'[c]
        PROVE  Fits(n) /\ runs'[c][n] = WindowRun(StartOf(n), request.train, request.test)
    <3>1. CASE c # candidate
      BY <1>1, <1>9, <3>1 DEF WindowsInv
    <3>2. CASE c = candidate /\ n \in 1 .. count
      BY <1>1, <1>5, <1>8, <1>9, <3>2 DEF WindowsInv
    <3>3. CASE c = candidate /\ n = count + 1
      <4>1. Fits(n)
        BY <1>1, <1>13, <3>3 DEF Fits, WindowFits
      <4>. QED
        BY <1>2, <1>8, <1>9, <1>13, <3>3, <4>1
    <3>. QED
      BY <1>5, <1>8, <1>9, <3>1, <3>2, <3>3
  <2>2. trainStart' = StartOf(Len(runs'[candidate]) + 1)
    <3>1. Len(runs'[candidate]) + 1 = count + 2
      BY <1>5, <1>8, <1>9
    <3>. QED
      BY <1>13, <3>1
  <2>3. ASSUME NEW c \in 1 .. Candidates
        PROVE  /\ c < candidate => runs'[c] # <<>> /\ ~Fits(Len(runs'[c]) + 1)
               /\ c > candidate => runs'[c] = <<>>
               /\ runs'[c] # <<>> => SizesAreValid
    <3>1. CASE c = candidate
      BY <1>1, <1>4, <3>1
    <3>2. CASE c # candidate
      BY <1>1, <1>9, <3>2 DEF WindowsInv
    <3>. QED
      BY <3>1, <3>2
  <2>. QED
    BY <1>1, <1>14, <2>1, <2>2, <2>3 DEF WindowsInv
<1>16. SelectedInv'
  BY <1>1 DEF SelectedInv
<1>. QED
  BY <1>11, <1>12, <1>15, <1>16

LEMMA NextCandidateStep ==
  ASSUME EvaluationInv, NextCandidate
  PROVE  EvaluationInv'
<1> USE DEF EvaluationInv
<1>1. /\ request.kind = "walk" /\ status = "working" /\ SizesAreValid /\ ~WindowFits
      /\ runs[candidate] # <<>> /\ candidate < Candidates /\ candidate' = candidate + 1
      /\ trainStart' = 0
      /\ UNCHANGED <<request, runs, evidence, evaluation, status, selected>>
  BY DEF NextCandidate
<1>2. candidate \in 1 .. Candidates /\ candidate' \in 1 .. Candidates
  BY <1>1, CandidatesAssumption DEF EvaluationTyped
<1>3. EvaluationTyped'
  BY <1>1, <1>2 DEF EvaluationTyped
<1>4. SplitInv'
  BY <1>1 DEF SplitInv
<1>5. /\ \A n : StartOf(n)' = StartOf(n) /\ (Fits(n)' <=> Fits(n))
      /\ ActualStep' = ActualStep /\ (SizesAreValid' <=> SizesAreValid)
  BY <1>1 DEF StartOf, Fits, ActualStep, SizesAreValid
<1>6. ~Fits(Len(runs[candidate]) + 1)
  BY <1>1 DEF WindowsInv, Fits, WindowFits
<1>7. runs[candidate'] = <<>> /\ Len(runs[candidate']) = 0
  <2>1. candidate' > candidate
    BY <1>1, <1>2
  <2>. QED
    BY <1>1, <1>2, <2>1, EmptySeq DEF WindowsInv
<1>8. trainStart' = StartOf(Len(runs[candidate']) + 1)
  <2>1. 0 * ActualStep = 0
    BY <1>1, WalkNumbers
  <2>. QED
    BY <1>1, <1>7, <2>1 DEF StartOf
<1>9. ASSUME NEW c \in 1 .. Candidates
      PROVE  /\ c < candidate' => runs[c] # <<>> /\ ~Fits(Len(runs[c]) + 1)
             /\ c > candidate' => runs[c] = <<>>
             /\ runs[c] # <<>> => SizesAreValid
  <2>1. c < candidate' => c < candidate \/ c = candidate
    BY <1>1, <1>2
  <2>2. c > candidate' => c > candidate
    BY <1>1, <1>2
  <2>. QED
    BY <1>1, <1>6, <2>1, <2>2 DEF WindowsInv
<1>10. WindowsInv'
  BY <1>1, <1>5, <1>8, <1>9 DEF WindowsInv
<1>11. SelectedInv'
  BY <1>1 DEF SelectedInv
<1>. QED
  BY <1>3, <1>4, <1>10, <1>11

LEMMA SelectStep ==
  ASSUME EvaluationInv, Select
  PROVE  EvaluationInv'
<1> USE DEF EvaluationInv
<1>1. /\ request.kind = "walk" /\ ~WindowFits
      /\ runs[candidate] # <<>> /\ candidate = Candidates
      /\ selected' \in (IF Chosen = {} THEN {Nobody} ELSE Chosen)
      /\ status' = "selected"
      /\ UNCHANGED <<request, candidate, trainStart, runs, evidence, evaluation>>
  BY DEF Select
<1>2. EvaluationTyped'
  BY <1>1 DEF EvaluationTyped
<1>3. SplitInv'
  BY <1>1 DEF SplitInv
<1>4. /\ \A n : StartOf(n)' = StartOf(n) /\ (Fits(n)' <=> Fits(n))
      /\ ActualStep' = ActualStep /\ (SizesAreValid' <=> SizesAreValid)
  BY <1>1 DEF StartOf, Fits, ActualStep, SizesAreValid
<1>5. ~Fits(Len(runs[candidate]) + 1)
  BY <1>1 DEF WindowsInv, Fits, WindowFits
<1>6. WindowsInv'
  BY <1>1, <1>4, <1>5 DEF WindowsInv
<1>7. Chosen' = Chosen
  BY <1>1 DEF Chosen, Eligible, Better, Score, Returned, Drawdown
<1>8. SelectedInv'
  BY <1>1, <1>7 DEF SelectedInv
<1>. QED
  BY <1>2, <1>3, <1>6, <1>8

LEMMA EvaluationStepInv ==
  ASSUME EvaluationInv, EvaluationStep
  PROVE  EvaluationInv'
BY SplitStep, WindowStep, RefuseStep, NextCandidateStep, SelectStep DEF EvaluationStep

-----------------------------------------------------------------------------
(* What is tested *)

\* A later window starts later.
LEMMA StartsGrow ==
  ASSUME EvaluationTyped, request.kind = "walk", SizesAreValid,
         NEW m \in Nat, NEW n \in Nat, m <= n
  PROVE  StartOf(m) <= StartOf(n)
<1>1. PICK s \in Nat : s = ActualStep
  BY WalkNumbers DEF SizesAreValid
<1>2. PICK d \in Nat : n = m + d
  <2>1. n - m \in Nat /\ n = m + (n - m)
    OBVIOUS
  <2>. QED
    BY <2>1
<1>3. (m + d - 1) * s = (m - 1) * s + d * s /\ d * s \in Nat /\ (m - 1) * s \in Int
  OBVIOUS
<1>. QED
  BY <1>1, <1>2, <1>3 DEF StartOf

LEMMA FirstStart == ASSUME EvaluationTyped, request.kind = "walk" PROVE StartOf(1) = 0
<1>1. 0 * ActualStep = 0 /\ 1 - 1 = 0
  BY WalkNumbers
<1>. QED
  BY <1>1 DEF StartOf

\* The windows of two candidates that were both run to the end are the same;
\* while one is run, its windows are among those of the first.
LEMMA SameWindows ==
  ASSUME EvaluationInv, request.kind = "walk",
         NEW c \in 1 .. Candidates, NEW d \in 1 .. Candidates,
         d < candidate \/ status = "selected" \/ d = c
  PROVE  Len(runs[c]) <= Len(runs[d]) /\ DOMAIN runs[c] \subseteq DOMAIN runs[d]
<1> USE DEF EvaluationInv
<1>1. PICK m \in Nat, n \in Nat : /\ m = Len(runs[c]) /\ DOMAIN runs[c] = 1 .. m
                                  /\ n = Len(runs[d]) /\ DOMAIN runs[d] = 1 .. n
  <2>1. runs[c] \in Seq(WindowRecord) /\ runs[d] \in Seq(WindowRecord)
    BY DEF EvaluationTyped
  <2>. QED
    BY <2>1, LenProperties
<1>2. m <= n
  <2> SUFFICES ASSUME n < m PROVE FALSE
    BY <1>1
  <2>1. m \in 1 .. m /\ m \in DOMAIN runs[c]
    BY <1>1
  <2>2. Fits(m)
    BY <2>1 DEF WindowsInv
  <2>3. SizesAreValid
    <3>1. runs[c] # <<>>
      BY <2>1
    <3>. QED
      BY <3>1 DEF WindowsInv
  <2>4. c # d
    BY <1>1
  <2>5. ~Fits(n + 1)
    <3>1. CASE d < candidate
      BY <1>1, <3>1 DEF WindowsInv
    <3>2. CASE status = "selected"
      <4>1. candidate = Candidates /\ ~Fits(Len(runs[candidate]) + 1)
        BY <3>2 DEF WindowsInv
      <4>2. d < candidate \/ d = candidate
        BY <4>1 DEF EvaluationTyped
      <4>. QED
        BY <1>1, <4>1, <4>2 DEF WindowsInv
    <3>. QED
      BY <2>4, <3>1, <3>2
  <2>6. StartOf(n + 1) <= StartOf(m)
    BY <2>3, StartsGrow
  <2>7. StartOf(n + 1) \in Int /\ StartOf(m) \in Int
    BY WalkNumbers
  <2>. QED
    BY <2>2, <2>5, <2>6, <2>7, WalkNumbers DEF Fits
<1>. QED
  BY <1>1, <1>2

LEMMA WindowParts ==
  ASSUME EvaluationInv, request.kind = "walk",
         NEW c \in 1 .. Candidates, NEW n \in DOMAIN runs[c]
  PROVE  /\ n \in Nat \ {0} /\ SizesAreValid
         /\ StartOf(n) \in Nat /\ request.train \in Nat \ {0} /\ request.test \in Nat \ {0}
         /\ StartOf(n) + request.train + request.test <= request.bars
         /\ runs[c][n].train.to = StartOf(n) + request.train
         /\ runs[c][n].test = [from |-> StartOf(n), to |-> StartOf(n) + request.train + request.test,
                               start |-> StartOf(n) + request.train]
<1> USE DEF EvaluationInv
<1>1. n \in Nat \ {0} /\ runs[c] # <<>>
  <2>1. runs[c] \in Seq(WindowRecord)
    BY DEF EvaluationTyped
  <2>2. DOMAIN runs[c] = 1 .. Len(runs[c]) /\ Len(runs[c]) \in Nat
    BY <2>1, LenProperties
  <2>. QED
    BY <2>2
<1>2. SizesAreValid
  BY <1>1 DEF WindowsInv
<1>3. request.train \in Nat \ {0} /\ request.test \in Nat \ {0}
  BY <1>2, WalkNumbers DEF SizesAreValid
<1>4. StartOf(n) \in Nat
  <2>1. StartOf(1) <= StartOf(n)
    BY <1>1, <1>2, StartsGrow
  <2>2. StartOf(n) \in Int
    BY <1>1, WalkNumbers
  <2>. QED
    BY <2>1, <2>2, FirstStart
<1>5. Fits(n) /\ runs[c][n] = WindowRun(StartOf(n), request.train, request.test)
  BY DEF WindowsInv
<1>. QED
  BY <1>1, <1>2, <1>3, <1>4, <1>5 DEF Fits, WindowRun, Backtest

LEMMA OutOfSample == ASSUME EvaluationInv PROVE TestsAreOutOfSample
<1> USE DEF EvaluationInv
<1>1. ASSUME evaluation # NoReport
      PROVE  /\ IsTestOf(evaluation.test, evaluation.train)
             /\ evaluation.train.to = evaluation.test.start /\ evaluation.test.to = request.bars
             /\ \A other \in {evaluation.testHold, evaluation.cash} \cup ToSet(evaluation.costs) :
                  other.start = evaluation.test.start /\ other.to = evaluation.test.to
  <2>1. request.kind = "split" /\ SplitRequest(request)
    BY <1>1 DEF SplitInv, EvaluationTyped
  <2>2. PICK from, split, test :
          /\ from = ContextStart(request.split, request.warmup[1]) /\ split = request.split
          /\ test = [from |-> from, to |-> request.bars, start |-> split]
    OBVIOUS
  <2>3. from \in Nat /\ split \in Int /\ from < split
    <3>1. from \in Nat /\ split \in Int
      BY <2>1, <2>2, ContextIsBefore DEF SplitRequest
    <3>2. SliceIsValid(from, split, request.bars)
      BY <1>1, <2>2 DEF SplitInv
    <3>. QED
      BY <3>1, <3>2 DEF SliceIsValid
  <2>4. evaluation = SplitReport(request.bars, request.split, request.warmup[1], request.scenarios)
    BY <1>1 DEF SplitInv
  <2>5. /\ evaluation.test = test /\ evaluation.testHold = test /\ evaluation.cash = test
        /\ evaluation.train = [from |-> 0, to |-> split, start |-> 0]
        /\ evaluation.costs = [n \in 1 .. request.scenarios |-> test]
    BY <2>2, <2>4 DEF SplitReport, Backtest
  <2>6. \A other \in ToSet(evaluation.costs) : other = test
    BY <2>5 DEF ToSet
  <2>7. test.from = from /\ test.to = request.bars /\ test.start = split
    BY <2>2
  <2>8. evaluation.train.to = split
    BY <2>5
  <2>9. IsTestOf(test, evaluation.train)
    BY <2>3, <2>7, <2>8 DEF IsTestOf
  <2>10. \A other \in {evaluation.testHold, evaluation.cash} \cup ToSet(evaluation.costs) :
           other = test
    BY <2>5, <2>6
  <2>. QED
    BY <2>5, <2>7, <2>8, <2>9, <2>10
<1>2. ASSUME NEW c \in 1 .. Candidates, NEW n \in DOMAIN runs[c]
      PROVE  LET trial == runs[c][n]
             IN /\ IsTestOf(trial.test, trial.train)
                /\ trial.test.start < trial.test.to /\ trial.test.to <= request.bars
                /\ n \in DOMAIN runs[1] /\ runs[1][n].test = trial.test
                /\ request.step = DefaultStep =>
                     trial.test.start = IF n = 1 THEN request.train ELSE runs[c][n - 1].test.to
  <2>1. request.kind = "walk"
    BY <1>2 DEF SplitInv
  <2>2. 1 \in 1 .. Candidates
    BY CandidatesAssumption
  <2>3. n \in DOMAIN runs[1]
    <3>1. 1 < candidate \/ 1 = c
      <4>1. c <= candidate
        BY <1>2, <2>1 DEF WindowsInv, EvaluationTyped
      <4>. QED
        BY <2>2, <4>1 DEF EvaluationTyped
    <3>. QED
      BY <1>2, <2>1, <2>2, <3>1, SameWindows
  <2>4. /\ n \in Nat \ {0} /\ SizesAreValid
        /\ StartOf(n) \in Nat /\ request.train \in Nat \ {0} /\ request.test \in Nat \ {0}
        /\ StartOf(n) + request.train + request.test <= request.bars
        /\ runs[c][n].train.to = StartOf(n) + request.train
        /\ runs[c][n].test = [from |-> StartOf(n), to |-> StartOf(n) + request.train + request.test,
                              start |-> StartOf(n) + request.train]
    BY <1>2, <2>1, WindowParts
  <2>5. runs[1][n].test = runs[c][n].test
    <3>1. runs[1][n].test = [from |-> StartOf(n), to |-> StartOf(n) + request.train + request.test,
                             start |-> StartOf(n) + request.train]
      BY <2>1, <2>2, <2>3, WindowParts
    <3>. QED
      BY <2>4, <3>1
  <2>6. ASSUME request.step = DefaultStep, n # 1
        PROVE  runs[c][n].test.start = runs[c][n - 1].test.to
    <3>1. ActualStep = request.test
      BY <2>6 DEF ActualStep
    <3>2. n - 1 \in DOMAIN runs[c] /\ n - 1 \in Nat /\ n - 1 + 1 = n
      <4>1. runs[c] \in Seq(WindowRecord)
        BY DEF EvaluationTyped
      <4>2. DOMAIN runs[c] = 1 .. Len(runs[c]) /\ Len(runs[c]) \in Nat
        BY <4>1, LenProperties
      <4>. QED
        BY <1>2, <2>4, <2>6, <4>2
    <3>3. /\ StartOf(n - 1) \in Nat
          /\ runs[c][n - 1].test =
               [from |-> StartOf(n - 1), to |-> StartOf(n - 1) + request.train + request.test,
                start |-> StartOf(n - 1) + request.train]
      BY <2>1, <3>2, WindowParts
    <3>4. StartOf(n - 1 + 1) = StartOf(n - 1) + request.test
      BY <2>1, <3>1, <3>2, WalkNumbers
    <3>5. StartOf(n) = StartOf(n - 1) + request.test
      BY <3>2, <3>4
    <3>. QED
      BY <2>4, <3>3, <3>5
  <2>7. request.step = DefaultStep /\ n = 1 => runs[c][n].test.start = request.train
    BY <2>1, <2>4, FirstStart
  <2>. QED
    BY <2>3, <2>4, <2>5, <2>6, <2>7 DEF IsTestOf
<1>3. ASSUME status = "selected", NEW c \in 1 .. Candidates
      PROVE  /\ Len(runs[c]) = Len(runs[1])
             /\ request.step = DefaultStep => request.bars - Last(runs[c]).test.to < request.test
  <2>1. request.kind = "walk"
    BY <1>3 DEF SplitInv, EvaluationTyped
  <2>2. 1 \in 1 .. Candidates
    BY CandidatesAssumption
  <2>3. runs[c] \in Seq(WindowRecord) /\ runs[1] \in Seq(WindowRecord)
    BY <2>2 DEF EvaluationTyped
  <2>4. PICK k \in Nat : k = Len(runs[c]) /\ DOMAIN runs[c] = 1 .. k
    BY <2>3, LenProperties
  <2>5. Len(runs[c]) = Len(runs[1])
    <3>1. Len(runs[c]) <= Len(runs[1]) /\ Len(runs[1]) <= Len(runs[c])
      BY <1>3, <2>1, <2>2, SameWindows
    <3>2. Len(runs[c]) \in Nat /\ Len(runs[1]) \in Nat
      BY <2>3, LenProperties
    <3>. QED
      BY <3>1, <3>2
  <2>6. runs[c] # <<>> /\ ~Fits(k + 1)
    <3>1. candidate = Candidates /\ runs[candidate] # <<>> /\ ~Fits(Len(runs[candidate]) + 1)
      BY <1>3, <2>1 DEF WindowsInv
    <3>2. c < candidate \/ c = candidate
      BY <3>1, <1>3, CandidatesAssumption
    <3>. QED
      BY <1>3, <2>1, <2>4, <3>1, <3>2 DEF WindowsInv
  <2>7. k \in DOMAIN runs[c] /\ Last(runs[c]) = runs[c][k]
    <3>1. k # 0
      BY <2>3, <2>4, <2>6, EmptySeq
    <3>. QED
      BY <2>4, <3>1 DEF Last
  <2>8. /\ StartOf(k) \in Nat /\ request.train \in Nat \ {0} /\ request.test \in Nat \ {0}
        /\ runs[c][k].test.to = StartOf(k) + request.train + request.test
    <3>1. /\ StartOf(k) \in Nat /\ request.train \in Nat \ {0} /\ request.test \in Nat \ {0}
          /\ runs[c][k].test = [from |-> StartOf(k), to |-> StartOf(k) + request.train + request.test,
                                start |-> StartOf(k) + request.train]
      BY <1>3, <2>1, <2>7, WindowParts
    <3>. QED
      BY <3>1
  <2>9. StartOf(k + 1) = StartOf(k) + ActualStep /\ request.bars \in Int
    BY <2>1, WalkNumbers
  <2>10. ASSUME request.step = DefaultStep
         PROVE  request.bars - Last(runs[c]).test.to < request.test
    <3>1. ActualStep = request.test
      BY <2>10 DEF ActualStep
    <3>2. ~(StartOf(k) + request.test + request.train + request.test <= request.bars)
      BY <2>6, <2>9, <3>1 DEF Fits
    <3>. QED
      BY <2>7, <2>8, <2>9, <3>2
  <2>. QED
    BY <2>5, <2>10
<1>. QED
  BY <1>1, <1>2, <1>3 DEF TestsAreOutOfSample

-----------------------------------------------------------------------------
(* What is selected *)

\* a over b is at least c over d, and that at least e over f.
LEMMA RatiosGrow ==
  ASSUME NEW a \in Nat, NEW b \in Nat \ {0}, NEW c \in Nat, NEW d \in Nat \ {0},
         NEW e \in Nat, NEW f \in Nat \ {0}, a * d >= c * b, c * f >= e * d
  PROVE  a * f >= e * b
<1> SUFFICES ASSUME a * f < e * b PROVE FALSE
  OBVIOUS
<1>1. \A x, y \in Nat : \A z \in Nat \ {0} : x < y => x * z < y * z
  OBVIOUS
<1>2. \A x, y, z \in Nat : x <= y => x * z <= y * z
  OBVIOUS
<1>3. /\ a * f \in Nat /\ e * b \in Nat /\ a * d \in Nat /\ c * b \in Nat /\ c * f \in Nat
      /\ e * d \in Nat
  OBVIOUS
<1>4. (a * f) * d < (e * b) * d
  BY <1>1, <1>3
<1>5. (c * b) * f <= (a * d) * f /\ (e * d) * b <= (c * f) * b
  BY <1>2, <1>3
<1>6. (a * f) * d = (a * d) * f /\ (e * b) * d = (e * d) * b /\ (c * b) * f = (c * f) * b
  OBVIOUS
<1>7. /\ (a * d) * f \in Nat /\ (e * d) * b \in Nat /\ (c * f) * b \in Nat
  OBVIOUS
<1>. QED
  BY <1>4, <1>5, <1>6, <1>7

LEMMA ScoreTyped ==
  ASSUME EvaluationTyped, NEW c \in 1 .. Candidates, Eligible(c)
  PROVE  /\ Score(c)[1] \in Nat /\ Score(c)[2] \in Nat \ {0}
         /\ Returned(c) \in Nat \ {0} /\ Drawdown(c) \in Nat
         /\ Drawdown(c) > 0 => /\ Score(c)[1] = Returned(c)
                                    /\ Score(c)[2] = Drawdown(c)
<1>1. Returned(c) \in Nat \ {0} /\ Drawdown(c) \in Nat
  BY DEF EvaluationTyped, EvidenceRecord, Eligible, Returned, Drawdown
<1>2. CASE Drawdown(c) > 0
  <2>1. Score(c) = <<Returned(c), Drawdown(c)>>
    BY <1>2 DEF Score
  <2>. QED
    BY <1>1, <1>2, <2>1
<1>3. CASE ~(Drawdown(c) > 0)
  <2>1. Score(c) = <<0, 1>>
    BY <1>3 DEF Score
  <2>. QED
    BY <1>1, <1>3, <2>1
<1>. QED
  BY <1>2, <1>3

\* The scores are a total order.
LEMMA ScoresCompare ==
  ASSUME EvaluationTyped,
         NEW a \in 1 .. Candidates, NEW b \in 1 .. Candidates, NEW c \in 1 .. Candidates,
         Eligible(a), Eligible(b), Eligible(c)
  PROVE  /\ Better(a, b) \/ Better(b, a)
         /\ (Better(a, b) /\ Better(b, c)) => Better(a, c)
<1>1. PICK p \in Nat, q \in Nat \ {0} : p = Score(a)[1] /\ q = Score(a)[2]
  BY ScoreTyped
<1>2. PICK r \in Nat, s \in Nat \ {0} : r = Score(b)[1] /\ s = Score(b)[2]
  BY ScoreTyped
<1>3. PICK t \in Nat, u \in Nat \ {0} : t = Score(c)[1] /\ u = Score(c)[2]
  BY ScoreTyped
<1>4. /\ Better(a, b) <=> p * s >= r * q
      /\ Better(b, a) <=> r * q >= p * s
      /\ Better(b, c) <=> r * u >= t * s
      /\ Better(a, c) <=> p * u >= t * q
  BY <1>1, <1>2, <1>3 DEF Better
<1>5. p * s \in Nat /\ r * q \in Nat
  OBVIOUS
<1>6. p * s >= r * q /\ r * u >= t * s => p * u >= t * q
  BY RatiosGrow
<1>. QED
  BY <1>4, <1>5, <1>6

\* Some eligible candidate is best, if there is one.
LEMMA SomeoneIsChosen ==
  ASSUME EvaluationTyped, NEW c \in 1 .. Candidates, Eligible(c)
  PROVE  Chosen # {}
<1> DEFINE E == {d \in 1 .. Candidates : Eligible(d)}
           Best(k, d) == d \in E /\ d <= k /\ \A e \in E : e <= k => Better(d, e)
           Fails(k) == (\E e \in E : e <= k) /\ ~\E d \in E : Best(k, d)
           T == {k \in Nat : Fails(k)}
<1>1. \A d, e, f \in E : /\ Better(d, e) \/ Better(e, d)
                         /\ (Better(d, e) /\ Better(e, f)) => Better(d, f)
  BY ScoresCompare
<1>2. E \subseteq Nat \ {0} /\ \A e \in E : e <= Candidates
  BY OutcomesAssumption
<1> HIDE DEF E
<1>3. T = {}
  <2> SUFFICES ASSUME T # {} PROVE FALSE
    OBVIOUS
  <2>1. PICK k \in T : \A j \in T : k <= j
    BY LeastNat
  <2>2. PICK e \in E : e <= k
    OBVIOUS
  <2>3. k \in Nat \ {0} /\ k - 1 \in Nat /\ k - 1 \notin T
    <3>1. k \in Nat \ {0} /\ k - 1 \in Nat /\ ~(k <= k - 1)
      BY <1>2, <2>2
    <3>. QED
      BY <2>1, <3>1
  <2>4. ASSUME NEW x \in E, x <= k PROVE x <= k - 1 \/ x = k
    BY <1>2, <2>3, <2>4
  <2>5. CASE \E x \in E : x <= k - 1
    <3>1. PICK d \in E : Best(k - 1, d)
      BY <2>3, <2>5
    <3>2. CASE k \notin E
      <4>1. Best(k, d)
        BY <1>2, <2>3, <2>4, <3>1, <3>2
      <4>. QED
        BY <4>1
    <3>3. CASE k \in E /\ Better(d, k)
      <4>1. Best(k, d)
        BY <1>2, <2>3, <2>4, <3>1, <3>3
      <4>. QED
        BY <4>1
    <3>4. CASE k \in E /\ ~Better(d, k)
      <4>1. Better(k, d)
        BY <1>1, <3>4
      <4>2. ASSUME NEW x \in E, x <= k PROVE Better(k, x)
        <5>1. CASE x = k
          BY <1>1, <3>4, <5>1
        <5>2. CASE x <= k - 1
          <6>1. Better(d, x)
            BY <3>1, <5>2
          <6>. QED
            BY <1>1, <3>4, <4>1, <6>1
        <5>. QED
          BY <2>4, <4>2, <5>1, <5>2
      <4>3. Best(k, k)
        BY <2>3, <3>4, <4>2
      <4>. QED
        BY <3>4, <4>3
    <3>. QED
      BY <3>2, <3>3, <3>4
  <2>6. CASE ~\E x \in E : x <= k - 1
    <3>1. k \in E /\ \A x \in E : x <= k => x = k
      BY <2>2, <2>4, <2>6
    <3>2. Best(k, k)
      BY <1>1, <2>3, <3>1
    <3>. QED
      BY <3>1, <3>2
  <2>. QED
    BY <2>5, <2>6
<1>4. Candidates \in Nat /\ Candidates \notin T
  BY <1>3, CandidatesAssumption
<1>5. PICK d \in E : Best(Candidates, d)
  <2>1. c \in E
    BY DEF E
  <2>2. ~Fails(Candidates)
    BY <1>4
  <2>. QED
    BY <1>2, <2>1, <2>2
<1>6. d \in Chosen
  <2>1. \A e \in E : Better(d, e)
    BY <1>2, <1>5
  <2>. QED
    BY <1>5, <2>1 DEF Chosen, E
<1>. QED
  BY <1>6

LEMMA Undominated ==
  ASSUME EvaluationInv
  PROVE  SelectionIsUndominated
<1> USE DEF EvaluationInv
<1>1. \A c : Eligible(c) <=>
        /\ Returned(c) > 0 /\ Drawdown(c) <= MaxDrawdown * Len(runs[c])
        /\ evidence[c].positive >= MinPositive
  BY DEF Eligible
<1>2. ASSUME status = "selected", selected = Nobody, NEW c \in 1 .. Candidates
      PROVE  ~Eligible(c)
  <2>1. selected \notin Chosen
    BY <1>2 DEF Chosen, Nobody
  <2>2. Chosen = {}
    BY <1>2, <2>1 DEF SelectedInv
  <2>. QED
    BY <1>2, <2>2, SomeoneIsChosen
<1>3. ASSUME selected # Nobody
      PROVE  /\ selected \in 1 .. Candidates /\ Eligible(selected)
             /\ \A d \in 1 .. Candidates : Eligible(d) => Better(selected, d)
  <2>1. status = "selected"
    BY <1>3 DEF SelectedInv
  <2>2. selected \in Chosen
    BY <1>3, <2>1 DEF SelectedInv
  <2>. QED
    BY <2>2 DEF Chosen
<1>4. ASSUME selected # Nobody, NEW c \in 1 .. Candidates, Eligible(c), Drawdown(c) > 0,
             Returned(c) >= Returned(selected),
             Drawdown(c) <= Drawdown(selected),
             Returned(c) > Returned(selected) \/ Drawdown(c) < Drawdown(selected)
      PROVE  FALSE
  <2>1. PICK s : s = selected
    OBVIOUS
  <2>2. s \in 1 .. Candidates /\ Eligible(s) /\ Better(s, c)
    BY <1>3, <1>4, <2>1
  <2>3. PICK p \in Nat \ {0}, q \in Nat \ {0} :
          /\ p = Returned(c) /\ q = Drawdown(c)
          /\ Score(c)[1] = p /\ Score(c)[2] = q
    BY <1>4, ScoreTyped
  <2>4. Drawdown(s) \in Nat /\ Drawdown(s) > 0
    BY <1>4, <2>1, <2>2, <2>3, ScoreTyped
  <2>5. PICK r \in Nat \ {0}, t \in Nat \ {0} :
          /\ r = Returned(s) /\ t = Drawdown(s)
          /\ Score(s)[1] = r /\ Score(s)[2] = t
    BY <2>2, <2>4, ScoreTyped
  <2>6. r * q >= p * t
    BY <2>2, <2>3, <2>5 DEF Better
  <2>7. p >= r /\ q <= t /\ (p > r \/ q < t)
    BY <1>4, <2>1, <2>3, <2>5
  <2>8. p * t > r * q
    <3>1. \A x, y \in Nat : \A z \in Nat \ {0} : x < y => x * z < y * z /\ z * x < z * y
      OBVIOUS
    <3>2. \A x, y, z \in Nat : x <= y => x * z <= y * z /\ z * x <= z * y
      OBVIOUS
    <3>3. p * t \in Nat /\ r * q \in Nat /\ r * t \in Nat
      OBVIOUS
    <3>4. r * q <= r * t /\ r * t <= p * t
      BY <2>7, <3>2
    <3>5. CASE p > r
      BY <3>1, <3>3, <3>4, <3>5
    <3>6. CASE q < t
      BY <3>1, <3>3, <3>4, <3>6
    <3>. QED
      BY <2>7, <3>5, <3>6
  <2>9. p * t \in Nat /\ r * q \in Nat
    OBVIOUS
  <2>. QED
    BY <2>6, <2>8, <2>9
<1>5. selected # Nobody => Eligible(selected)
  BY <1>3
<1>. QED
  BY <1>1, <1>2, <1>4, <1>5 DEF SelectionIsUndominated

-----------------------------------------------------------------------------
(* The list of fundamentals *)

OfficialRecords == {Official(key, document) : key \in Listings,
                                                   document \in {d \in Documents : Parses(d)}}
SnapshotRecords == OfficialRecords \cup {Researched(key) : key \in Listings}

Unique(records) == \A n, m \in DOMAIN records : records[n].key = records[m].key => n = m
UniqueLists == {records \in Seq(SnapshotRecords) : Unique(records)}
WholeLists == {Stored(records) : records \in UniqueLists}
StoreFiles == {NoList, TornList} \cup WholeLists

RawNameOf(record) == RawName(record.key, record.document)
Names == {RawName(key, document) : key \in Listings, document \in Documents}

\* A document of the archive is the one its name says, unless its writing goes
\* on or was cut; and a document that a record needs is there.
RawInv ==
  /\ DOMAIN raw = Names
  /\ \A name \in Names :
       /\ raw[name] \in {Absent, Partial, name[2]}
       /\ raw[name] = Partial =>
            \/ name \in cutNames
            \/ \E r \in Collectors : CollectorAt(r, "fill raw") /\ NameOf(r) = name

Filed(record) == record.source = "official" => raw[RawNameOf(record)] # Absent
AllFiled(file) == \A n \in DOMAIN file.records : Filed(file.records[n])

Recording == {"archive", "fill raw", "read", "open", "fill", "replace"}
CollectorRecord ==
  [phase : {"idle", "next", "fetch", "done", "failed", "dead"} \cup Recording,
   script : {"none", "official", "web"}, refresh : BOOLEAN, list : Seq(Listings),
   completed : SUBSET Listings, found : SUBSET Listings,
   record : SnapshotRecords \cup {NoRecord}, content : StoreFiles,
   place : {"closed", "temp", "destination", "gone"}, alone : BOOLEAN]

\* What a run may rely on: its record is one its document states, archived
\* before it is written, and not one it found.
OwnInv(c) ==
  /\ c \in CollectorRecord
  /\ c.phase \in {"fetch"} \cup Recording => c.list # <<>>
  /\ c.list # <<>> => c.script # "none"
  /\ c.phase \in {"archive", "fill raw"} => c.record \in OfficialRecords
  /\ c.phase \in {"read", "open", "fill", "replace"} => c.record \in SnapshotRecords /\ Filed(c.record)
  /\ c.phase \in {"open", "fill", "replace"} => c.content \in WholeLists /\ AllFiled(c.content)
  /\ c.script = "official" /\ ~c.refresh => c.found \subseteq c.completed
  /\ c.phase = "fetch" /\ ~c.refresh => Head(c.list) \notin c.found
  /\ c.phase \in Recording /\ ~c.refresh => c.record.key \notin c.found

\* What a run that writes alone finds in the files.
LonelyInv(r) ==
  WritesList(r) /\ collector[r].alone =>
    /\ \A q \in Collectors \ {r} : ~WritesList(q)
    /\ store # TornList
    /\ collector[r].content = Stored(Merged(store.records, collector[r].record))
    /\ CollectorAt(r, "fill") => collector[r].place = "temp"
    /\ CollectorAt(r, "replace") => temp = collector[r].content

FileInv(file) == file \in StoreFiles /\ AllFiled(file)

CollectInv ==
  /\ collector = [r \in Collectors |-> collector[r]]
  /\ \A r \in Collectors : OwnInv(collector[r]) /\ LonelyInv(r)
  /\ FileInv(store) /\ FileInv(temp)
  /\ RawInv

-----------------------------------------------------------------------------
(* Records and lists *)

LEMMA RecordKinds ==
  /\ \A key, document : /\ Official(key, document).key = key
                        /\ Official(key, document).source = "official"
                        /\ Official(key, document).document = document
  /\ \A key : Researched(key).key = key /\ Researched(key).source = "web"
BY DEF Official, Researched

LEMMA OfficialParts ==
  ASSUME NEW record \in OfficialRecords
  PROVE  /\ record.key \in Listings /\ record.document \in Documents
         /\ record.source = "official" /\ Parses(record.document)
         /\ record = Official(record.key, record.document)
         /\ RawNameOf(record) \in Names /\ RawNameOf(record)[2] = record.document
<1>1. PICK key \in Listings, document \in {d \in Documents : Parses(d)} :
        record = Official(key, document)
  BY DEF OfficialRecords
<1>2. record.key = key /\ record.document = document /\ record.source = "official"
  BY <1>1, RecordKinds
<1>. QED
  BY <1>1, <1>2 DEF RawNameOf, Names, RawName

LEMMA RecordParts ==
  ASSUME NEW record \in SnapshotRecords
  PROVE  /\ record.key \in Listings
         /\ record.source = "official" => record \in OfficialRecords
<1>1. CASE record \in OfficialRecords
  BY <1>1, OfficialParts
<1>2. CASE record \notin OfficialRecords
  <2>1. PICK key \in Listings : record = Researched(key)
    BY <1>2 DEF SnapshotRecords
  <2>2. record.key = key /\ record.source = "web"
    BY <2>1, RecordKinds
  <2>. QED
    BY <2>2
<1>. QED
  BY <1>1, <1>2

LEMMA FilesApart ==
  /\ \A records : /\ Stored(records) # NoList /\ Stored(records) # TornList
                  /\ Stored(records).records = records /\ Stored(records).of = "list"
  /\ NoList # TornList
  /\ NoList.records = <<>> /\ TornList.records = <<>>
  /\ NoList \in StoreFiles /\ TornList \in StoreFiles
BY DEF Stored, NoList, TornList, StoreFiles

\* The records of a file, torn or not.
LEMMA FileRecords ==
  ASSUME NEW file \in StoreFiles
  PROVE  /\ file.records \in UniqueLists
         /\ file \notin {NoList, TornList} => file \in WholeLists /\ file = Stored(file.records)
<1>1. CASE file \in {NoList, TornList}
  <2>1. file.records = <<>>
    BY <1>1, FilesApart
  <2>2. <<>> \in UniqueLists
    BY EmptySeq DEF UniqueLists, Unique
  <2>. QED
    BY <1>1, <2>1, <2>2
<1>2. CASE file \notin {NoList, TornList}
  <2>1. PICK records \in UniqueLists : file = Stored(records)
    BY <1>2 DEF StoreFiles, WholeLists
  <2>2. file.records = records
    BY <2>1, FilesApart
  <2>. QED
    BY <1>2, <2>1, <2>2 DEF WholeLists
<1>. QED
  BY <1>1, <1>2

LEMMA KeysKnown ==
  ASSUME NEW file \in StoreFiles
  PROVE  KeysOf(file.records) \subseteq Listings
<1>1. file.records \in Seq(SnapshotRecords)
  BY FileRecords DEF UniqueLists
<1>2. \A n \in DOMAIN file.records : file.records[n] \in SnapshotRecords
  BY <1>1, LenProperties
<1>3. \A n \in DOMAIN file.records : file.records[n].key \in Listings
  BY <1>2, RecordParts
<1>. QED
  BY <1>3 DEF KeysOf

\* A record replaces the one of its key, or joins the end.
LEMMA MergedList ==
  ASSUME NEW records \in UniqueLists, NEW record \in SnapshotRecords
  PROVE  /\ Merged(records, record) \in UniqueLists
         /\ \A x : x \in ToSet(Merged(records, record)) <=>
                   (x \in ToSet(records) /\ x.key # record.key) \/ x = record
<1> DEFINE n == Len(records)
           merged == Merged(records, record)
<1>1. /\ n \in Nat /\ DOMAIN records = 1 .. n /\ \A i \in 1 .. n : records[i] \in SnapshotRecords
      /\ \A i, j \in 1 .. n : records[i].key = records[j].key => i = j
      /\ records \in Seq(SnapshotRecords)
  <2>1. records \in Seq(SnapshotRecords) /\ Unique(records)
    BY DEF UniqueLists
  <2>2. DOMAIN records = 1 .. n /\ n \in Nat
    BY <2>1, LenProperties
  <2>. QED
    BY <2>1, <2>2, LenProperties DEF Unique
<1>2. \A x : x \in ToSet(records) <=> \E i \in 1 .. n : x = records[i]
  BY <1>1 DEF ToSet
<1>3. CASE record.key \in KeysOf(records)
  <2> DEFINE I == {i \in 1 .. n : records[i].key = record.key}
  <2>1. PICK k \in 1 .. n : records[k].key = record.key
    BY <1>1, <1>3 DEF KeysOf
  <2>2. I = {k}
    BY <1>1, <2>1
  <2>3. Min({k}) = k
    <3>1. k \in Int
      BY <1>1
    <3>2. \E x \in {k} : \A y \in {k} : x <= y
      BY <3>1
    <3>. QED
      BY <3>2 DEF Min
  <2>4. SelectInSeq(records, LAMBDA other : other.key = record.key) = k
    BY <2>2, <2>3 DEF SelectInSeq
  <2>5. merged = [records EXCEPT ![k] = record]
    BY <1>3, <2>4 DEF Merged, ReplaceAt
  <2> HIDE DEF merged
  <2>6. /\ merged \in Seq(SnapshotRecords) /\ DOMAIN merged = 1 .. n
        /\ \A j \in 1 .. n : merged[j] = IF j = k THEN record ELSE records[j]
    <3>1. /\ merged \in Seq(SnapshotRecords) /\ Len(merged) = n
          /\ \A j \in 1 .. n : merged[j] = IF j = k THEN record ELSE records[j]
      BY <1>1, <2>5, ExceptSeq
    <3>. QED
      BY <3>1, LenProperties
  <2>7. Unique(merged)
    <3>1. \A j \in 1 .. n : merged[j].key = records[j].key
      BY <2>1, <2>6
    <3>. QED
      BY <1>1, <2>6, <3>1 DEF Unique
  <2>8. \A x : x \in ToSet(merged) <=> \E j \in 1 .. n : x = merged[j]
    BY <2>6 DEF ToSet
  <2>9. \A j \in 1 .. n : records[j].key # record.key <=> j # k
    BY <1>1, <2>1
  <2>10. ASSUME NEW x \in ToSet(merged)
         PROVE  (x \in ToSet(records) /\ x.key # record.key) \/ x = record
    BY <1>2, <2>6, <2>8, <2>9
  <2>11. ASSUME NEW x, (x \in ToSet(records) /\ x.key # record.key) \/ x = record
         PROVE  x \in ToSet(merged)
    <3>1. CASE x = record
      BY <2>6, <2>8, <3>1
    <3>2. CASE x \in ToSet(records) /\ x.key # record.key
      <4>1. PICK j \in 1 .. n : x = records[j]
        BY <1>2, <3>2
      <4>2. j # k
        BY <2>9, <3>2, <4>1
      <4>. QED
        BY <2>6, <2>8, <4>1, <4>2
    <3>. QED
      BY <2>11, <3>1, <3>2
  <2>. QED
    BY <2>6, <2>7, <2>10, <2>11 DEF UniqueLists, merged
<1>4. CASE record.key \notin KeysOf(records)
  <2>1. merged = Append(records, record)
    BY <1>4 DEF Merged
  <2>2. \A i \in 1 .. n : records[i].key # record.key
    BY <1>1, <1>4 DEF KeysOf
  <2> HIDE DEF merged
  <2>3. /\ merged \in Seq(SnapshotRecords) /\ DOMAIN merged = 1 .. n + 1
        /\ merged[n + 1] = record /\ \A j \in 1 .. n : merged[j] = records[j]
    <3>1. /\ merged \in Seq(SnapshotRecords) /\ Len(merged) = n + 1
          /\ merged[n + 1] = record /\ \A j \in 1 .. n : merged[j] = records[j]
      BY <1>1, <2>1, AppendProperties
    <3>. QED
      BY <3>1, LenProperties
  <2>4. \A j \in 1 .. n + 1 : j \in 1 .. n \/ j = n + 1
    BY <1>1
  <2>5. n + 1 \in 1 .. n + 1 /\ \A j \in 1 .. n : j \in 1 .. n + 1
    BY <1>1
  <2>6. Unique(merged)
    BY <1>1, <2>2, <2>3, <2>4 DEF Unique
  <2>7. \A x : x \in ToSet(merged) <=> \E j \in 1 .. n + 1 : x = merged[j]
    BY <2>3 DEF ToSet
  <2>8. ASSUME NEW x
        PROVE  x \in ToSet(merged) <=>
               (x \in ToSet(records) /\ x.key # record.key) \/ x = record
    <3>1. x \in ToSet(merged) <=> (\E j \in 1 .. n : x = records[j]) \/ x = record
      BY <2>3, <2>4, <2>5, <2>7
    <3>. QED
      BY <1>2, <2>2, <3>1
  <2>. QED
    BY <2>3, <2>6, <2>8 DEF UniqueLists, merged
<1>. QED
  BY <1>3, <1>4

-----------------------------------------------------------------------------
(* A run of a collector *)

LEMMA NextEntryIs ==
  ASSUME NEW c \in CollectorRecord, c.list # <<>>
  PROVE  LET d == NextEntry(c)
         IN /\ d \in CollectorRecord /\ d.phase = "next" /\ d.alone = TRUE
            /\ d.script = c.script /\ d.refresh = c.refresh
            /\ d.found = c.found /\ d.completed = c.completed
<1>1. Tail(c.list) \in Seq(Listings)
  BY HeadTailProperties DEF CollectorRecord
<1>2. NoList \in StoreFiles
  BY FilesApart
<1>. QED
  BY <1>1, <1>2 DEF NextEntry, CollectorRecord, Recording

LEMMA NoCollectorIs ==
  ASSUME NEW phase \in {"idle", "done", "failed", "dead"}
  PROVE  LET d == [NoCollector EXCEPT !.phase = phase]
         IN OwnInv(d) /\ d.phase = phase
<1>1. NoList \in StoreFiles /\ <<>> \in Seq(Listings)
  BY FilesApart, EmptySeq
<1>. QED
  BY <1>1 DEF NoCollector, OwnInv, CollectorRecord, Recording

LEMMA NextEntryOwn ==
  ASSUME NEW c, OwnInv(c), c.list # <<>>
  PROVE  OwnInv(NextEntry(c))
<1> DEFINE d == NextEntry(c)
<1>1. /\ c \in CollectorRecord /\ c.script # "none"
      /\ (c.script = "official" /\ ~c.refresh => c.found \subseteq c.completed)
  BY DEF OwnInv
<1>2. /\ d \in CollectorRecord /\ d.phase = "next" /\ d.script = c.script /\ d.refresh = c.refresh
      /\ d.found = c.found /\ d.completed = c.completed
  BY <1>1, NextEntryIs
<1> HIDE DEF d
<1>3. OwnInv(d)
  BY <1>1, <1>2 DEF OwnInv, Recording
<1>. QED
  BY <1>3 DEF d

RawGrows == \A name \in Names : raw[name] # Absent => raw'[name] # Absent

LEMMA FiledGrows ==
  ASSUME RawGrows, NEW record \in SnapshotRecords, Filed(record)
  PROVE  Filed(record)'
<1>1. CASE record.source = "official"
  <2>1. RawNameOf(record) \in Names
    BY <1>1, RecordParts, OfficialParts
  <2>. QED
    BY <1>1, <2>1 DEF Filed, RawGrows, RawNameOf
<1>. QED
  BY <1>1 DEF Filed

LEMMA FilesGrow ==
  ASSUME RawGrows, NEW file, FileInv(file)
  PROVE  FileInv(file)'
<1>1. file \in StoreFiles /\ AllFiled(file)
  BY DEF FileInv
<1>2. \A n \in DOMAIN file.records : file.records[n] \in SnapshotRecords
  BY <1>1, FileRecords, LenProperties DEF UniqueLists
<1>3. \A n \in DOMAIN file.records : Filed(file.records[n])
  BY <1>1 DEF AllFiled
<1>4. \A n \in DOMAIN file.records : Filed(file.records[n])'
  BY <1>2, <1>3, FiledGrows
<1>. QED
  BY <1>1, <1>4 DEF FileInv, AllFiled

LEMMA OwnGrows ==
  ASSUME RawGrows, NEW c, OwnInv(c)
  PROVE  OwnInv(c)'
<1>1. CASE c.phase \in {"open", "fill", "replace"}
  <2>1. c.record \in SnapshotRecords /\ Filed(c.record) /\ c.content \in WholeLists /\ AllFiled(c.content)
    BY <1>1 DEF OwnInv
  <2>2. Filed(c.record)'
    BY <2>1, FiledGrows
  <2>3. FileInv(c.content)
    BY <2>1 DEF FileInv, StoreFiles
  <2>4. AllFiled(c.content)'
    <3>1. PICK file : file = c.content
      OBVIOUS
    <3>2. FileInv(file)'
      BY <2>3, <3>1, FilesGrow
    <3>. QED
      BY <3>1, <3>2 DEF FileInv
  <2>. QED
    BY <1>1, <2>2, <2>4 DEF OwnInv
<1>2. CASE c.phase = "read"
  <2>1. c.record \in SnapshotRecords /\ Filed(c.record)
    BY <1>2 DEF OwnInv
  <2>2. Filed(c.record)'
    BY <2>1, FiledGrows
  <2>. QED
    BY <1>2, <2>2 DEF OwnInv
<1>. QED
  BY <1>1, <1>2 DEF OwnInv

LEMMA RawSame ==
  ASSUME raw' = raw
  PROVE  RawGrows
BY DEF RawGrows

LEMMA RawUntouched ==
  ASSUME RawInv, raw' = raw, cutNames \subseteq cutNames',
         \A q \in Collectors : CollectorAt(q, "fill raw") =>
           \/ CollectorAt(q, "fill raw")' /\ NameOf(q)' = NameOf(q)
           \/ NameOf(q) \in cutNames'
  PROVE  RawInv'
<1>1. ASSUME NEW name \in Names, raw[name] = Partial
      PROVE  name \in cutNames' \/ \E r \in Collectors : CollectorAt(r, "fill raw")' /\ NameOf(r)' = name
  BY <1>1 DEF RawInv
<1>2. Names' = Names
  OBVIOUS
<1>. QED
  BY <1>1, <1>2 DEF RawInv

\* What r does leaves the others as they are, so long as only who writes touches
\* the files.
LEMMA OthersKept ==
  ASSUME CollectInv, NEW r \in Collectors, NEW c, collector' = [collector EXCEPT ![r] = c],
         RawGrows, c.phase \in {"open", "fill", "replace"} => WritesList(r),
         ~WritesList(r) => store' = store /\ temp' = temp,
         NEW q \in Collectors, q # r
  PROVE  OwnInv(collector[q])' /\ LonelyInv(q)'
<1>1. collector'[q] = collector[q] /\ collector'[r] = c
  BY DEF CollectInv
<1>2. \A p \in Collectors \ {q} : WritesList(p)' => WritesList(p)
  BY <1>1 DEF CollectInv, WritesList
<1>3. OwnInv(collector[q])'
  <2>1. PICK d : d = collector[q]
    OBVIOUS
  <2>2. OwnInv(d)'
    BY <2>1, OwnGrows DEF CollectInv
  <2>3. d = collector'[q]
    BY <1>1, <2>1
  <2>. QED
    BY <2>2, <2>3 DEF OwnInv, Filed, AllFiled, RawNameOf
<1>4. LonelyInv(q)'
  <2>1. SUFFICES ASSUME WritesList(q)', collector'[q].alone
                 PROVE  /\ \A p \in Collectors \ {q} : ~WritesList(p)'
                        /\ store' # TornList
                        /\ collector'[q].content =
                             Stored(Merged(store'.records, collector'[q].record))
                        /\ CollectorAt(q, "fill")' => collector'[q].place = "temp"
                        /\ CollectorAt(q, "replace")' => temp' = collector'[q].content
    BY Zenon DEF LonelyInv, Merged, KeysOf, Stored, TornList, ReplaceAt,
               SelectInSeq, Min
  <2>2. WritesList(q) /\ collector[q].alone
    BY <1>1, <2>1 DEF WritesList
  <2>3. /\ \A p \in Collectors \ {q} : ~WritesList(p)
        /\ store # TornList
        /\ collector[q].content = Stored(Merged(store.records, collector[q].record))
        /\ CollectorAt(q, "fill") => collector[q].place = "temp"
        /\ CollectorAt(q, "replace") => temp = collector[q].content
    BY <2>2 DEF CollectInv, LonelyInv
  <2>4. store' = store /\ temp' = temp
    BY <2>3
  <2>. QED
    BY <1>1, <1>2, <2>3, <2>4 DEF CollectorAt
<1>. QED
  BY <1>3, <1>4
LEMMA FileStays ==
  ASSUME RawGrows
  PROVE  /\ FileInv(store) /\ store' = store => FileInv(store)'
         /\ FileInv(temp) /\ temp' = temp => FileInv(temp)'
<1>1. ASSUME FileInv(store), store' = store PROVE FileInv(store)'
  <2>1. PICK file : file = store
    OBVIOUS
  <2>2. FileInv(file)'
    BY <1>1, <2>1, FilesGrow
  <2>3. store' = file
    BY <1>1, <2>1
  <2>. QED
    BY <2>2, <2>3 DEF FileInv, AllFiled, Filed, RawNameOf
<1>2. ASSUME FileInv(temp), temp' = temp PROVE FileInv(temp)'
  <2>1. PICK file : file = temp
    OBVIOUS
  <2>2. FileInv(file)'
    BY <1>2, <2>1, FilesGrow
  <2>3. temp' = file
    BY <1>2, <2>1
  <2>. QED
    BY <2>2, <2>3 DEF FileInv, AllFiled, Filed, RawNameOf
<1>. QED
  BY <1>1, <1>2

LEMMA OneRun ==
  ASSUME CollectInv, NEW r \in Collectors, NEW c, collector' = [collector EXCEPT ![r] = c],
         RawGrows, c.phase \in {"open", "fill", "replace"} => WritesList(r),
         ~WritesList(r) => store' = store /\ temp' = temp,
         OwnInv(c)', LonelyInv(r)', FileInv(store)', FileInv(temp)', RawInv'
  PROVE  CollectInv'
<1>1. collector = [q \in Collectors |-> collector[q]]
  BY DEF CollectInv
<1>2. collector' = [q \in Collectors |-> collector'[q]] /\ collector'[r] = c
  BY <1>1
<1>3. OwnInv(collector[r])'
  BY <1>2 DEF OwnInv, Filed, AllFiled, RawNameOf
<1>4. \A q \in Collectors : q # r => OwnInv(collector[q])' /\ LonelyInv(q)'
  <2>1. SUFFICES ASSUME NEW q \in Collectors, q # r PROVE OwnInv(collector[q])' /\ LonelyInv(q)'
    OBVIOUS
  <2>. QED
    BY <2>1, OthersKept
<1>. QED
  BY <1>2, <1>3, <1>4 DEF CollectInv

\* A step that leaves every file, after which the run does not write.
LEMMA QuietRun ==
  ASSUME CollectInv, NEW r \in Collectors, NEW c, collector' = [collector EXCEPT ![r] = c],
         c.phase \notin {"open", "fill", "replace"}, OwnInv(c),
         UNCHANGED <<store, temp, raw>>, cutNames \subseteq cutNames',
         CollectorAt(r, "fill raw") => NameOf(r) \in cutNames'
  PROVE  CollectInv'
<1>1. RawGrows
  BY RawSame
<1>2. OwnInv(c)'
  BY <1>1, OwnGrows
<1>3. collector = [q \in Collectors |-> collector[q]] /\ RawInv /\ FileInv(store) /\ FileInv(temp)
  BY DEF CollectInv
<1>4. collector'[r] = c /\ \A q \in Collectors : q # r => collector'[q] = collector[q]
  BY <1>3
<1>5. LonelyInv(r)'
  BY <1>4 DEF LonelyInv, WritesList
<1>6. FileInv(store)' /\ FileInv(temp)'
  BY <1>1, <1>3, FileStays
<1>7. \A q \in Collectors : CollectorAt(q, "fill raw") =>
           \/ CollectorAt(q, "fill raw")' /\ NameOf(q)' = NameOf(q)
           \/ NameOf(q) \in cutNames'
  BY <1>4 DEF CollectorAt, NameOf, RawName
<1>8. RawInv'
  BY <1>3, <1>7, RawUntouched
<1>. QED
  BY <1>1, <1>2, <1>5, <1>6, <1>8, OneRun

\* The places of a run that is under way.
LEMMA RunAt ==
  ASSUME CollectInv, NEW r \in Collectors
  PROVE  /\ OwnInv(collector[r]) /\ LonelyInv(r) /\ collector[r] \in CollectorRecord
         /\ collector = [q \in Collectors |-> collector[q]]
         /\ FileInv(store) /\ FileInv(temp) /\ RawInv /\ store \in StoreFiles /\ temp \in StoreFiles
BY DEF CollectInv, OwnInv, FileInv

LEMMA EndKept ==
  ASSUME CollectInv, NEW r \in Collectors, NEW phase \in {"done", "failed", "dead"},
         CollectorEnds(r, phase), UNCHANGED <<store, temp, raw>>, cutNames \subseteq cutNames',
         CollectorAt(r, "fill raw") => NameOf(r) \in cutNames'
  PROVE  CollectInv'
<1> DEFINE c == [NoCollector EXCEPT !.phase = phase]
<1>1. OwnInv(c) /\ c.phase = phase
  BY NoCollectorIs
<1>2. collector' = [collector EXCEPT ![r] = c]
  BY DEF CollectorEnds
<1> HIDE DEF c
<1>. QED
  BY <1>1, <1>2, QuietRun

LEMMA StartKept ==
  ASSUME CollectInv, NEW r \in Collectors, StartCollector(r)
  PROVE  CollectInv'
<1>1. UNCHANGED <<store, temp, raw, cutNames>> /\ CollectorAt(r, "idle")
  BY DEF StartCollector
<1>2. PICK script \in {"official", "web"}, refresh \in BOOLEAN :
      \E list \in IF script = "web" THEN {Ranking} ELSE Manifests :
         LET looks == script = "official" /\ ~refresh
             had == IF looks THEN KeysOf(store.records) ELSE {}
         IN IF looks /\ store = TornList
            THEN CollectorEnds(r, "failed")
            ELSE collector' = [collector EXCEPT ![r] =
                   [NoCollector EXCEPT !.phase = "next", !.script = script, !.refresh = refresh,
                      !.list = list, !.found = had, !.completed = had]]
  BY DEF StartCollector
<1>3. PICK list \in IF script = "web" THEN {Ranking} ELSE Manifests :
         LET looks == script = "official" /\ ~refresh
             had == IF looks THEN KeysOf(store.records) ELSE {}
         IN IF looks /\ store = TornList
            THEN CollectorEnds(r, "failed")
            ELSE collector' = [collector EXCEPT ![r] =
                   [NoCollector EXCEPT !.phase = "next", !.script = script, !.refresh = refresh,
                      !.list = list, !.found = had, !.completed = had]]
  BY <1>2
<1>4. list \in Seq(Listings)
  BY <1>3, ListsAssumption
<1>5. PICK had : had = IF script = "official" /\ ~refresh THEN KeysOf(store.records) ELSE {}
  OBVIOUS
<1>6. had \subseteq Listings
  BY <1>5, RunAt, KeysKnown
<1>7. CASE CollectorEnds(r, "failed")
  BY <1>1, <1>7, EndKept DEF CollectorAt
<1>8. CASE ~CollectorEnds(r, "failed")
  <2> DEFINE c == [NoCollector EXCEPT !.phase = "next", !.script = script, !.refresh = refresh,
                      !.list = list, !.found = had, !.completed = had]
  <2>1. collector' = [collector EXCEPT ![r] = c]
    BY <1>3, <1>5, <1>8
  <2>2. /\ c \in CollectorRecord /\ c.phase = "next" /\ c.found = c.completed
        /\ c.script # "none"
    BY <1>4, <1>6, FilesApart DEF CollectorRecord, Recording, NoCollector
  <2> HIDE DEF c
  <2>3. OwnInv(c)
    BY <2>2 DEF OwnInv, Recording
  <2>. QED
    BY <1>1, <2>1, <2>2, <2>3, QuietRun DEF CollectorAt
<1>. QED
  BY <1>7, <1>8

LEMMA TakeKept ==
  ASSUME CollectInv, NEW r \in Collectors, TakeEntry(r)
  PROVE  CollectInv'
<1>1. UNCHANGED <<store, temp, raw, cutNames>> /\ collector[r].phase = "next"
  BY DEF TakeEntry, CollectorAt
<1>2. /\ OwnInv(collector[r]) /\ collector[r] \in CollectorRecord
      /\ collector = [q \in Collectors |-> collector[q]]
      /\ store \in StoreFiles
  BY RunAt
<1>3. PICK c : c = collector[r]
  OBVIOUS
<1>4. /\ c \in CollectorRecord /\ c.phase = "next"
      /\ (c.script = "official" /\ ~c.refresh => c.found \subseteq c.completed)
      /\ c.refresh \in BOOLEAN /\ c.script \in {"none", "official", "web"}
      /\ c.list # <<>> => c.script # "none"
  BY <1>1, <1>2, <1>3 DEF OwnInv, CollectorRecord
<1>5. CASE CollectorEnds(r, "done")
  BY <1>1, <1>5, EndKept DEF CollectorAt
<1>6. CASE CollectorEnds(r, "failed")
  BY <1>1, <1>6, EndKept DEF CollectorAt
<1>7. CASE ~CollectorEnds(r, "done") /\ ~CollectorEnds(r, "failed")
  <2>1. c.list # <<>>
    BY <1>3, <1>7 DEF TakeEntry
  <2>2. Head(c.list) \in Listings /\ Tail(c.list) \in Seq(Listings)
    BY <1>4, <2>1, HeadTailProperties DEF CollectorRecord
  <2> DEFINE looks == c.script = "web" /\ ~c.refresh
             skips == \/ c.script = "official" /\ Head(c.list) \in c.completed
                      \/ looks /\ Head(c.list) \in KeysOf(store.records)
             found == IF looks THEN KeysOf(store.records) ELSE c.found
             one == [c EXCEPT !.list = Tail(c.list)]
             two == [c EXCEPT !.phase = "fetch", !.found = found]
  <2>3. IF skips THEN collector' = [collector EXCEPT ![r].list = Tail(@)]
        ELSE collector' = [collector EXCEPT ![r].phase = "fetch", ![r].found = found]
    BY <1>3, <1>7, <2>1 DEF TakeEntry, EntryOf
  <2>4. KeysOf(store.records) \subseteq Listings
    BY <1>2, KeysKnown
  <2>5. c.found \subseteq Listings /\ found \subseteq Listings
    BY <1>4, <2>4 DEF CollectorRecord
  <2>6. CASE skips
    <3>1. collector' = [collector EXCEPT ![r] = one]
      BY <1>2, <1>3, <2>3, <2>6
    <3>2. one \in CollectorRecord /\ one.phase = "next" /\ one.script = c.script
          /\ one.refresh = c.refresh /\ one.found = c.found /\ one.completed = c.completed
      BY <1>4, <2>2 DEF CollectorRecord
    <3> HIDE DEF one
    <3>3. OwnInv(one)
      BY <1>4, <2>1, <3>2 DEF OwnInv, Recording
    <3>. QED
      BY <1>1, <3>1, <3>2, <3>3, QuietRun DEF CollectorAt
  <2>7. CASE ~skips
    <3>1. collector' = [collector EXCEPT ![r] = two]
      BY <1>2, <1>3, <2>3, <2>7
    <3>2. two \in CollectorRecord /\ two.phase = "fetch" /\ two.script = c.script
          /\ two.refresh = c.refresh /\ two.found = found /\ two.completed = c.completed
          /\ two.list = c.list
      <4>1. PICK keys : keys = found
        OBVIOUS
      <4>. QED
        BY <1>4, <2>5, <4>1 DEF CollectorRecord
    <3>3. c.script = "official" /\ ~c.refresh => found \subseteq c.completed
      BY <1>4
    <3>4. ~c.refresh => Head(c.list) \notin found
      BY <1>4, <2>1, <2>7
    <3> HIDE DEF two, found
    <3>5. OwnInv(two)
      BY <1>4, <2>1, <3>2, <3>3, <3>4 DEF OwnInv, Recording
    <3>. QED
      BY <1>1, <3>1, <3>2, <3>5, QuietRun DEF CollectorAt
  <2>. QED
    BY <2>6, <2>7
<1>. QED
  BY <1>5, <1>6, <1>7

\* A run's record, and the name under which its document is archived.
LEMMA NamedRecord ==
  ASSUME NEW r \in Collectors, collector[r].record \in OfficialRecords
  PROVE  /\ NameOf(r) = RawNameOf(collector[r].record)
         /\ NameOf(r) \in Names /\ NameOf(r)[2] = collector[r].record.document
BY OfficialParts DEF NameOf, RawNameOf

LEMMA FetchKept ==
  ASSUME CollectInv, NEW r \in Collectors, FetchDocument(r)
  PROVE  CollectInv'
<1>1. UNCHANGED <<store, temp, raw, cutNames>> /\ collector[r].phase = "fetch"
  BY DEF FetchDocument, CollectorAt
<1>2. OwnInv(collector[r]) /\ collector = [q \in Collectors |-> collector[q]]
  BY RunAt
<1>3. PICK c : c = collector[r]
  OBVIOUS
<1>4. /\ c \in CollectorRecord /\ c.phase = "fetch" /\ c.list # <<>> /\ c.script # "none"
      /\ (c.script = "official" /\ ~c.refresh => c.found \subseteq c.completed)
      /\ ~c.refresh => Head(c.list) \notin c.found
  BY <1>1, <1>2, <1>3 DEF OwnInv
<1>5. Head(c.list) \in Listings
  BY <1>4, HeadTailProperties DEF CollectorRecord
<1>6. CASE collector' = [collector EXCEPT ![r] = NextEntry(@)]
  <2>1. PICK d : d = NextEntry(c)
    OBVIOUS
  <2>2. OwnInv(d) /\ d.phase = "next"
    BY <1>2, <1>3, <1>4, <2>1, NextEntryOwn, NextEntryIs
  <2>3. collector' = [collector EXCEPT ![r] = d]
    BY <1>2, <1>3, <1>6, <2>1
  <2>. QED
    BY <1>1, <2>2, <2>3, QuietRun DEF CollectorAt
<1>7. ASSUME NEW document \in Documents, Parses(document),
             collector' = [collector EXCEPT ![r].phase = "archive",
                                            ![r].record = Official(EntryOf(r), document)]
      PROVE  CollectInv'
  <2>1. PICK record : record = Official(Head(c.list), document)
    OBVIOUS
  <2>2. record \in OfficialRecords /\ record \in SnapshotRecords /\ record.key = Head(c.list)
    BY <1>5, <1>7, <2>1, RecordKinds DEF OfficialRecords, SnapshotRecords
  <2> DEFINE d == [c EXCEPT !.phase = "archive", !.record = record]
  <2>3. collector' = [collector EXCEPT ![r] = d]
    BY <1>2, <1>3, <1>7, <2>1 DEF EntryOf
  <2>4. /\ d \in CollectorRecord /\ d.phase = "archive" /\ d.record = record /\ d.script = c.script
        /\ d.refresh = c.refresh /\ d.found = c.found /\ d.completed = c.completed /\ d.list = c.list
    BY <1>4, <2>2 DEF CollectorRecord, Recording
  <2> HIDE DEF d
  <2>5. OwnInv(d)
    BY <1>4, <2>2, <2>4 DEF OwnInv, Recording
  <2>. QED
    BY <1>1, <2>3, <2>4, <2>5, QuietRun DEF CollectorAt
<1>8. ASSUME collector' = [collector EXCEPT ![r].phase = "read",
                                            ![r].record = Researched(EntryOf(r))]
      PROVE  CollectInv'
  <2>1. PICK record : record = Researched(Head(c.list))
    OBVIOUS
  <2>2. record \in SnapshotRecords /\ record.key = Head(c.list) /\ record.source = "web"
    BY <1>5, <2>1, RecordKinds DEF SnapshotRecords
  <2> DEFINE d == [c EXCEPT !.phase = "read", !.record = record]
  <2>3. collector' = [collector EXCEPT ![r] = d]
    BY <1>2, <1>3, <1>8, <2>1 DEF EntryOf
  <2>4. /\ d \in CollectorRecord /\ d.phase = "read" /\ d.record = record /\ d.script = c.script
        /\ d.refresh = c.refresh /\ d.found = c.found /\ d.completed = c.completed /\ d.list = c.list
    BY <1>4, <2>2 DEF CollectorRecord, Recording
  <2> HIDE DEF d
  <2>5. Filed(record)
    BY <2>2 DEF Filed
  <2>6. OwnInv(d)
    BY <1>4, <2>2, <2>4, <2>5 DEF OwnInv, Recording
  <2>. QED
    BY <1>1, <2>3, <2>4, <2>6, QuietRun DEF CollectorAt
<1>. QED
  BY <1>6, <1>7, <1>8 DEF FetchDocument

LEMMA ArchiveKept ==
  ASSUME CollectInv, NEW r \in Collectors, Archive(r)
  PROVE  CollectInv'
<1>1. UNCHANGED <<store, temp, cutNames>> /\ collector[r].phase = "archive"
  BY DEF Archive, CollectorAt
<1>2. /\ OwnInv(collector[r]) /\ collector = [q \in Collectors |-> collector[q]] /\ RawInv
      /\ FileInv(store) /\ FileInv(temp)
  BY RunAt
<1>3. PICK c : c = collector[r]
  OBVIOUS
<1>4. /\ c \in CollectorRecord /\ c.phase = "archive" /\ c.list # <<>> /\ c.script # "none"
      /\ (c.script = "official" /\ ~c.refresh => c.found \subseteq c.completed)
      /\ ~c.refresh => c.record.key \notin c.found
      /\ c.record \in OfficialRecords /\ c.record \in SnapshotRecords
  BY <1>1, <1>2, <1>3 DEF OwnInv, Recording, SnapshotRecords
<1>5. PICK name : name = NameOf(r)
  OBVIOUS
<1>6. name = RawNameOf(c.record) /\ name \in Names /\ DOMAIN raw = Names
  BY <1>2, <1>3, <1>4, <1>5, NamedRecord DEF RawInv
<1>7. CASE raw[name] # Absent
  <2> DEFINE d == [c EXCEPT !.phase = "read"]
  <2>1. collector' = [collector EXCEPT ![r] = d] /\ raw' = raw
    BY <1>2, <1>3, <1>5, <1>6, <1>7 DEF Archive, Archived
  <2>2. /\ d \in CollectorRecord /\ d.phase = "read" /\ d.record = c.record /\ d.script = c.script
        /\ d.refresh = c.refresh /\ d.found = c.found /\ d.completed = c.completed /\ d.list = c.list
    BY <1>4 DEF CollectorRecord, Recording
  <2> HIDE DEF d
  <2>3. Filed(c.record)
    BY <1>6, <1>7 DEF Filed
  <2>4. OwnInv(d)
    BY <1>4, <2>2, <2>3 DEF OwnInv, Recording
  <2>. QED
    BY <1>1, <2>1, <2>2, <2>4, QuietRun DEF CollectorAt
<1>8. CASE raw[name] = Absent
  <2> DEFINE d == [c EXCEPT !.phase = "fill raw"]
  <2>1. collector' = [collector EXCEPT ![r] = d] /\ raw' = [raw EXCEPT ![name] = Partial]
    BY <1>2, <1>3, <1>5, <1>6, <1>8 DEF Archive, Archived
  <2>2. /\ d \in CollectorRecord /\ d.phase = "fill raw" /\ d.record = c.record /\ d.script = c.script
        /\ d.refresh = c.refresh /\ d.found = c.found /\ d.completed = c.completed /\ d.list = c.list
    BY <1>4 DEF CollectorRecord, Recording
  <2> HIDE DEF d
  <2>3. OwnInv(d)
    BY <1>4, <2>2 DEF OwnInv, Recording
  <2>4. Partial # Absent
    BY DEF Partial, Absent
  <2>5. RawGrows
    BY <1>6, <2>1, <2>4 DEF RawGrows
  <2>6. /\ collector'[r] = d /\ CollectorAt(r, "fill raw")'
        /\ \A q \in Collectors : q # r => collector'[q] = collector[q]
    BY <1>2, <2>1, <2>2 DEF CollectorAt
  <2>7. NameOf(r)' = name
    BY <1>3, <1>5, <2>2, <2>6 DEF NameOf, RawName
  <2>8. \A q \in Collectors : CollectorAt(q, "fill raw") =>
          CollectorAt(q, "fill raw")' /\ NameOf(q)' = NameOf(q)
    BY <1>1, <2>6 DEF CollectorAt, NameOf, RawName
  <2>9. RawInv'
    <3>1. DOMAIN raw' = Names /\ raw'[name] = Partial
          /\ \A other \in Names : other # name => raw'[other] = raw[other]
      BY <1>6, <2>1
    <3>2. ASSUME NEW other \in Names
          PROVE  /\ raw'[other] \in {Absent, Partial, other[2]}
                 /\ raw'[other] = Partial =>
                      \/ other \in cutNames'
                      \/ \E q \in Collectors : CollectorAt(q, "fill raw")' /\ NameOf(q)' = other
      <4>1. CASE other = name
        BY <2>6, <2>7, <3>1, <4>1
      <4>2. CASE other # name
        <5>1. raw'[other] = raw[other]
          BY <3>1, <4>2
        <5>2. /\ raw[other] \in {Absent, Partial, other[2]}
              /\ raw[other] = Partial =>
                   \/ other \in cutNames
                   \/ \E q \in Collectors : CollectorAt(q, "fill raw") /\ NameOf(q) = other
          BY <1>2 DEF RawInv
        <5>. QED
          BY <1>1, <2>8, <5>1, <5>2
      <4>. QED
        BY <4>1, <4>2
    <3>3. Names' = Names
      OBVIOUS
    <3>. QED
      BY <3>1, <3>2, <3>3 DEF RawInv
  <2>10. OwnInv(d)'
    BY <2>3, <2>5, OwnGrows
  <2>11. LonelyInv(r)'
    BY <2>2, <2>6 DEF LonelyInv, WritesList
  <2>12. FileInv(store)' /\ FileInv(temp)'
    BY <1>1, <1>2, <2>5, FileStays
  <2>. QED
    BY <1>1, <2>1, <2>2, <2>5, <2>9, <2>10, <2>11, <2>12, OneRun
<1>. QED
  BY <1>7, <1>8

LEMMA FillRawKept ==
  ASSUME CollectInv, NEW r \in Collectors, FillRaw(r)
  PROVE  CollectInv'
<1>1. UNCHANGED <<store, temp>> /\ collector[r].phase = "fill raw"
  BY DEF FillRaw, CollectorAt
<1>2. /\ OwnInv(collector[r]) /\ collector = [q \in Collectors |-> collector[q]] /\ RawInv
      /\ FileInv(store) /\ FileInv(temp)
  BY RunAt
<1>3. PICK c : c = collector[r]
  OBVIOUS
<1>4. /\ c \in CollectorRecord /\ c.phase = "fill raw" /\ c.list # <<>> /\ c.script # "none"
      /\ (c.script = "official" /\ ~c.refresh => c.found \subseteq c.completed)
      /\ ~c.refresh => c.record.key \notin c.found
      /\ c.record \in OfficialRecords /\ c.record \in SnapshotRecords
  BY <1>1, <1>2, <1>3 DEF OwnInv, Recording, SnapshotRecords
<1>5. PICK name : name = NameOf(r)
  OBVIOUS
<1>6. /\ name = RawNameOf(c.record) /\ name \in Names /\ name[2] = c.record.document
      /\ DOMAIN raw = Names
  BY <1>2, <1>3, <1>4, <1>5, NamedRecord DEF RawInv
<1>7. ASSUME cutNames' = cutNames \cup {NameOf(r)}, UNCHANGED raw,
             collector' = [collector EXCEPT ![r] = NextEntry(@)]
      PROVE  CollectInv'
  <2>1. PICK d : d = NextEntry(c)
    OBVIOUS
  <2>2. OwnInv(d) /\ d.phase = "next"
    BY <1>2, <1>3, <1>4, <2>1, NextEntryOwn, NextEntryIs
  <2>3. collector' = [collector EXCEPT ![r] = d]
    BY <1>2, <1>3, <1>7, <2>1
  <2>. QED
    BY <1>1, <1>7, <2>2, <2>3, QuietRun
<1>8. ASSUME raw' = [raw EXCEPT ![NameOf(r)] = collector[r].record.document],
             collector' = [collector EXCEPT ![r].phase = "read"], UNCHANGED cutNames
      PROVE  CollectInv'
  <2> DEFINE d == [c EXCEPT !.phase = "read"]
  <2>1. collector' = [collector EXCEPT ![r] = d] /\ raw' = [raw EXCEPT ![name] = name[2]]
    BY <1>2, <1>3, <1>5, <1>6, <1>8
  <2>2. /\ d \in CollectorRecord /\ d.phase = "read" /\ d.record = c.record /\ d.script = c.script
        /\ d.refresh = c.refresh /\ d.found = c.found /\ d.completed = c.completed /\ d.list = c.list
    BY <1>4 DEF CollectorRecord, Recording
  <2> HIDE DEF d
  <2>3. name[2] # Absent /\ name[2] # Partial
    <3>1. name[2] \in Documents
      BY <1>4, <1>6, OfficialParts
    <3>. QED
      BY <3>1, DocumentsAssumption DEF Absent, Partial
  <2>4. DOMAIN raw' = Names /\ raw'[name] = name[2]
        /\ \A other \in Names : other # name => raw'[other] = raw[other]
    BY <1>6, <2>1
  <2>5. RawGrows
    BY <2>3, <2>4 DEF RawGrows
  <2>6. collector'[r] = d /\ \A q \in Collectors : q # r => collector'[q] = collector[q]
    BY <1>2, <2>1
  <2>7. \A q \in Collectors : CollectorAt(q, "fill raw") /\ NameOf(q) # name =>
          CollectorAt(q, "fill raw")' /\ NameOf(q)' = NameOf(q)
    BY <1>5, <2>6 DEF CollectorAt, NameOf, RawName
  <2>8. RawInv'
    <3>1. ASSUME NEW other \in Names
          PROVE  /\ raw'[other] \in {Absent, Partial, other[2]}
                 /\ raw'[other] = Partial =>
                      \/ other \in cutNames'
                      \/ \E q \in Collectors : CollectorAt(q, "fill raw")' /\ NameOf(q)' = other
      <4>1. CASE other = name
        BY <2>3, <2>4, <4>1
      <4>2. CASE other # name
        <5>1. raw'[other] = raw[other]
          BY <2>4, <4>2
        <5>2. /\ raw[other] \in {Absent, Partial, other[2]}
              /\ raw[other] = Partial =>
                   \/ other \in cutNames
                   \/ \E q \in Collectors : CollectorAt(q, "fill raw") /\ NameOf(q) = other
          BY <1>2 DEF RawInv
        <5>. QED
          BY <1>8, <2>7, <4>2, <5>1, <5>2
      <4>. QED
        BY <4>1, <4>2
    <3>2. Names' = Names
      OBVIOUS
    <3>. QED
      BY <2>4, <3>1, <3>2 DEF RawInv
  <2>9. Filed(c.record)'
    BY <1>6, <2>3, <2>4 DEF Filed, RawNameOf
  <2>10. OwnInv(d)'
    BY <1>4, <2>2, <2>9 DEF OwnInv, Recording, Filed, RawNameOf
  <2>11. LonelyInv(r)'
    BY <2>2, <2>6 DEF LonelyInv, WritesList
  <2>12. FileInv(store)' /\ FileInv(temp)'
    BY <1>1, <1>2, <2>5, FileStays
  <2>. QED
    BY <1>1, <2>1, <2>2, <2>5, <2>8, <2>10, <2>11, <2>12, OneRun
<1>. QED
  BY <1>7, <1>8 DEF FillRaw

LEMMA DieKept ==
  ASSUME CollectInv, NEW r \in Collectors, Die(r)
  PROVE  CollectInv'
BY EndKept DEF Die

LEMMA OpenKept ==
  ASSUME CollectInv, NEW r \in Collectors, OpenTemp(r)
  PROVE  CollectInv'
<1>1. UNCHANGED <<store, raw, cutNames>> /\ temp' = TornList /\ collector[r].phase = "open"
  BY DEF OpenTemp, CollectorAt
<1>2. /\ OwnInv(collector[r]) /\ collector = [q \in Collectors |-> collector[q]] /\ RawInv
      /\ FileInv(store) /\ LonelyInv(r)
  BY RunAt
<1>3. PICK c : c = collector[r]
  OBVIOUS
<1>4. c \in CollectorRecord /\ c.phase = "open" /\ OwnInv(c)
  BY <1>1, <1>2, <1>3 DEF OwnInv
<1> DEFINE d == [c EXCEPT !.phase = "fill", !.place = "temp"]
<1>5. collector' = [collector EXCEPT ![r] = d]
  BY <1>2, <1>3 DEF OpenTemp
<1>6. /\ d \in CollectorRecord /\ d.phase = "fill" /\ d.place = "temp"
      /\ d.record = c.record /\ d.script = c.script /\ d.content = c.content /\ d.alone = c.alone
      /\ d.refresh = c.refresh /\ d.found = c.found /\ d.completed = c.completed /\ d.list = c.list
  BY <1>4 DEF CollectorRecord, Recording
<1> HIDE DEF d
<1>7. OwnInv(d)
  BY <1>4, <1>6 DEF OwnInv, Recording
<1>8. RawGrows
  BY <1>1, RawSame
<1>9. OwnInv(d)'
  BY <1>7, <1>8, OwnGrows
<1>10. collector'[r] = d /\ \A q \in Collectors : q # r => collector'[q] = collector[q]
  BY <1>2, <1>5
<1>11. LonelyInv(r)'
  <2>1. SUFFICES ASSUME d.alone
                 PROVE  /\ \A q \in Collectors \ {r} : ~WritesList(q)'
                        /\ store' # TornList
                        /\ d.content = Stored(Merged(store'.records, d.record))
    BY <1>6, <1>10, Zenon DEF LonelyInv, CollectorAt, Merged, KeysOf, Stored, TornList,
               ReplaceAt, SelectInSeq, Min
  <2>2. /\ \A q \in Collectors \ {r} : ~WritesList(q)
        /\ store # TornList
        /\ c.content = Stored(Merged(store.records, c.record))
    BY <1>2, <1>3, <1>4, <1>6, <2>1 DEF LonelyInv, WritesList
  <2>. QED
    BY <1>1, <1>6, <1>10, <2>2 DEF WritesList
<1>12. FileInv(store)'
  BY <1>1, <1>2, <1>8, FileStays
<1>13. FileInv(temp)'
  <2>1. temp' \in StoreFiles /\ temp'.records = <<>>
    BY <1>1, FilesApart
  <2>2. StoreFiles' = StoreFiles
    OBVIOUS
  <2>. QED
    BY <2>1, <2>2 DEF FileInv, AllFiled
<1>14. RawInv'
  <2>1. \A q \in Collectors : CollectorAt(q, "fill raw") =>
          CollectorAt(q, "fill raw")' /\ NameOf(q)' = NameOf(q)
    BY <1>1, <1>10 DEF CollectorAt, NameOf, RawName
  <2>. QED
    BY <1>1, <1>2, <2>1, RawUntouched
<1>15. WritesList(r)
  BY <1>1 DEF WritesList
<1>. QED
  BY <1>5, <1>8, <1>9, <1>11, <1>12, <1>13, <1>14, <1>15, OneRun

LEMMA FillKept ==
  ASSUME CollectInv, NEW r \in Collectors, FillTemp(r)
  PROVE  CollectInv'
<1>1. UNCHANGED <<raw, cutNames>> /\ collector[r].phase = "fill" /\ CollectorAt(r, "fill")
  BY DEF FillTemp, CollectorAt
<1>2. /\ OwnInv(collector[r]) /\ collector = [q \in Collectors |-> collector[q]] /\ RawInv
      /\ FileInv(store) /\ FileInv(temp) /\ LonelyInv(r)
  BY RunAt
<1>3. PICK c : c = collector[r]
  OBVIOUS
<1>4. /\ c \in CollectorRecord /\ c.phase = "fill" /\ OwnInv(c)
      /\ c.content \in WholeLists /\ AllFiled(c.content)
  BY <1>1, <1>2, <1>3 DEF OwnInv
<1>5. /\ temp' = IF c.place = "temp" THEN c.content ELSE temp
      /\ store' = IF c.place = "destination" THEN c.content ELSE store
  BY <1>3 DEF FillTemp
<1> DEFINE d == [c EXCEPT !.phase = "replace", !.place = "closed"]
<1>6. collector' = [collector EXCEPT ![r] = d]
  BY <1>2, <1>3 DEF FillTemp
<1>7. /\ d \in CollectorRecord /\ d.phase = "replace"
      /\ d.record = c.record /\ d.script = c.script /\ d.content = c.content /\ d.alone = c.alone
      /\ d.refresh = c.refresh /\ d.found = c.found /\ d.completed = c.completed /\ d.list = c.list
  BY <1>4 DEF CollectorRecord, Recording
<1> HIDE DEF d
<1>8. OwnInv(d)
  BY <1>4, <1>7 DEF OwnInv, Recording
<1>9. RawGrows
  BY <1>1, RawSame
<1>10. OwnInv(d)'
  BY <1>8, <1>9, OwnGrows
<1>11. collector'[r] = d /\ \A q \in Collectors : q # r => collector'[q] = collector[q]
  BY <1>2, <1>6
<1>12. WritesList(r)
  BY <1>1 DEF WritesList
<1>13. LonelyInv(r)'
  <2>1. SUFFICES ASSUME d.alone
                 PROVE  /\ \A q \in Collectors \ {r} : ~WritesList(q)'
                        /\ store' # TornList
                        /\ d.content = Stored(Merged(store'.records, d.record))
                        /\ temp' = d.content
    BY <1>7, <1>11, Zenon DEF LonelyInv, CollectorAt, Merged, KeysOf, Stored, TornList,
               ReplaceAt, SelectInSeq, Min
  <2>2. /\ \A q \in Collectors \ {r} : ~WritesList(q)
        /\ store # TornList
        /\ c.content = Stored(Merged(store.records, c.record))
        /\ c.place = "temp"
    BY <1>1, <1>2, <1>3, <1>7, <1>12, <2>1 DEF LonelyInv
  <2>3. store' = store /\ temp' = c.content
    BY <1>5, <2>2
  <2>. QED
    BY <1>7, <1>11, <2>2, <2>3 DEF WritesList
<1>14. FileInv(store)' /\ FileInv(temp)'
  <2>1. FileInv(c.content)
    BY <1>4 DEF FileInv, StoreFiles
  <2>2. PICK file, old, oldTemp : file = c.content /\ old = store /\ oldTemp = temp
    OBVIOUS
  <2>3. FileInv(file) /\ FileInv(old) /\ FileInv(oldTemp)
    BY <1>2, <2>1, <2>2
  <2>4. FileInv(file)' /\ FileInv(old)' /\ FileInv(oldTemp)'
    BY <1>9, <2>3, FilesGrow
  <2>5. store' \in {file, old} /\ temp' \in {file, oldTemp}
    BY <1>5, <2>2
  <2>. QED
    BY <2>4, <2>5 DEF FileInv, AllFiled, Filed, RawNameOf
<1>15. RawInv'
  <2>1. \A q \in Collectors : CollectorAt(q, "fill raw") =>
          CollectorAt(q, "fill raw")' /\ NameOf(q)' = NameOf(q)
    BY <1>1, <1>11 DEF CollectorAt, NameOf, RawName
  <2>. QED
    BY <1>1, <1>2, <2>1, RawUntouched
<1>. QED
  BY <1>6, <1>9, <1>10, <1>12, <1>13, <1>14, <1>15, OneRun

\* A list that gains a filed record has filed records only.
LEMMA MergedFile ==
  ASSUME NEW file, FileInv(file), NEW record \in SnapshotRecords, Filed(record)
  PROVE  LET new == Stored(Merged(file.records, record))
         IN new \in WholeLists /\ AllFiled(new)
<1>1. file.records \in UniqueLists /\ AllFiled(file)
  BY FileRecords DEF FileInv
<1>2. PICK merged : merged = Merged(file.records, record)
  OBVIOUS
<1>3. merged \in UniqueLists /\ Stored(merged).records = merged
  BY <1>1, <1>2, MergedList, FilesApart
<1>4. \A x : x \in ToSet(merged) => x \in ToSet(file.records) \/ x = record
  BY <1>1, <1>2, MergedList
<1>5. \A x : x \in ToSet(file.records) => Filed(x)
  BY <1>1 DEF AllFiled, ToSet
<1>6. ASSUME NEW n \in DOMAIN merged PROVE Filed(merged[n])
  <2>1. PICK x : x = merged[n]
    OBVIOUS
  <2>2. x \in ToSet(merged)
    BY <2>1 DEF ToSet
  <2>3. Filed(x)
    BY <1>4, <1>5, <2>2
  <2>. QED
    BY <2>1, <2>3
<1>. QED
  BY <1>2, <1>3, <1>6 DEF WholeLists, AllFiled

LEMMA ReadKept ==
  ASSUME CollectInv, NEW r \in Collectors, ReadStore(r)
  PROVE  CollectInv'
<1>1. UNCHANGED <<store, temp, raw, cutNames>> /\ collector[r].phase = "read"
  BY DEF ReadStore, CollectorAt
<1>2. /\ OwnInv(collector[r]) /\ collector = [q \in Collectors |-> collector[q]] /\ RawInv
      /\ FileInv(store) /\ FileInv(temp)
  BY RunAt
<1>3. PICK c : c = collector[r]
  OBVIOUS
<1>4. /\ c \in CollectorRecord /\ c.phase = "read" /\ OwnInv(c) /\ c.list # <<>>
      /\ c.record \in SnapshotRecords /\ Filed(c.record)
  BY <1>1, <1>2, <1>3 DEF OwnInv, Recording
<1>5. RawGrows
  BY <1>1, RawSame
<1> DEFINE others == {q \in Collectors \ {r} : WritesList(q)}
           new == Stored(Merged(store.records, c.record))
<1>6. PICK mine : mine = IF store = TornList THEN NextEntry(c)
                         ELSE [c EXCEPT !.phase = "open", !.alone = (others = {}), !.content = new]
  OBVIOUS
<1>7. /\ collector' = [q \in Collectors |-> collector'[q]]
      /\ collector'[r] = mine
      /\ \A q \in others : collector'[q] = [collector[q] EXCEPT !.alone = FALSE]
      /\ \A q \in Collectors \ {r} : q \notin others => collector'[q] = collector[q]
  BY <1>3, <1>6 DEF ReadStore
<1>8. new \in WholeLists /\ AllFiled(new)
  BY <1>2, <1>4, MergedFile
<1>9. /\ OwnInv(mine) /\ mine.phase \in {"next", "open"}
      /\ mine.phase = "open" => /\ store # TornList
                                /\ mine.content = Stored(Merged(store.records, mine.record))
                                /\ mine.alone => others = {}
  <2>1. CASE store = TornList
    BY <1>4, <1>6, <2>1, NextEntryOwn, NextEntryIs
  <2>2. CASE store # TornList
    <3>1. PICK content, alone : content = new /\ alone \in BOOLEAN /\ (alone <=> others = {})
      OBVIOUS
    <3>2. alone = (others = {})
      BY <3>1, Zenon
    <3> DEFINE d == [c EXCEPT !.phase = "open", !.alone = alone, !.content = content]
    <3>3. mine = d
      BY <1>6, <2>2, <3>1, <3>2
    <3>4. /\ d \in CollectorRecord /\ d.phase = "open" /\ d.alone = alone /\ d.content = content
          /\ d.record = c.record /\ d.script = c.script /\ d.list = c.list
          /\ d.refresh = c.refresh /\ d.found = c.found /\ d.completed = c.completed
      <4>1. content \in StoreFiles
        BY <1>8, <3>1 DEF StoreFiles
      <4>. QED
        BY <1>4, <3>1, <4>1 DEF CollectorRecord, Recording
    <3> HIDE DEF d
    <3>5. OwnInv(d)
      BY <1>4, <1>8, <3>1, <3>4 DEF OwnInv, Recording
    <3>. QED
      BY <2>2, <3>1, <3>3, <3>4, <3>5
  <2>. QED
    BY <2>1, <2>2
<1>10. OwnInv(collector[r])' /\ LonelyInv(r)'
  <2>1. OwnInv(mine)'
    BY <1>5, <1>9, OwnGrows
  <2>2. OwnInv(collector[r])'
    BY <1>7, <2>1 DEF OwnInv, Filed, AllFiled, RawNameOf
  <2>3. /\ ~CollectorAt(r, "fill")' /\ ~CollectorAt(r, "replace")'
        /\ WritesList(r)' => mine.phase = "open"
        /\ collector'[r] = mine
    BY <1>7, <1>9 DEF CollectorAt, WritesList
  <2>4. SUFFICES ASSUME mine.phase = "open", mine.alone
                 PROVE  /\ \A q \in Collectors \ {r} : ~WritesList(q)'
                        /\ store' # TornList
                        /\ mine.content = Stored(Merged(store'.records, mine.record))
    BY <2>2, <2>3, Zenon DEF LonelyInv, Merged, KeysOf, Stored, TornList,
               ReplaceAt, SelectInSeq, Min
  <2>5. others = {} /\ store # TornList
        /\ mine.content = Stored(Merged(store.records, mine.record))
    BY <1>9, <2>4
  <2>6. \A q \in Collectors \ {r} : ~WritesList(q) /\ collector'[q] = collector[q]
    BY <1>7, <2>5
  <2>. QED
    BY <1>1, <2>5, <2>6 DEF WritesList
<1>11. ASSUME NEW q \in Collectors, q # r PROVE OwnInv(collector[q])' /\ LonelyInv(q)'
  <2>1. PICK e : e = collector'[q]
    OBVIOUS
  <2>2. OwnInv(collector[q])
    BY RunAt
  <2>3. OwnInv(e) /\ ~(e.phase \in {"open", "fill", "replace"} /\ e.alone)
    <3>1. CASE q \in others
      <4>1. PICK b : b = collector[q]
        OBVIOUS
      <4> DEFINE d == [b EXCEPT !.alone = FALSE]
      <4>2. e = d /\ b \in CollectorRecord /\ OwnInv(b)
        BY <1>7, <2>1, <2>2, <3>1, <4>1 DEF OwnInv
      <4>3. /\ d \in CollectorRecord /\ d.phase = b.phase /\ d.alone = FALSE /\ d.content = b.content
            /\ d.record = b.record /\ d.script = b.script /\ d.list = b.list
            /\ d.refresh = b.refresh /\ d.found = b.found /\ d.completed = b.completed
        BY <4>2 DEF CollectorRecord
      <4> HIDE DEF d
      <4>4. OwnInv(d)
        BY <4>2, <4>3 DEF OwnInv
      <4>. QED
        BY <4>2, <4>3, <4>4
    <3>2. CASE q \notin others
      BY <1>7, <1>11, <2>1, <2>2, <3>2 DEF WritesList
    <3>. QED
      BY <3>1, <3>2
  <2>4. OwnInv(e)'
    BY <1>5, <2>3, OwnGrows
  <2>. QED
    BY <2>1, <2>3, <2>4 DEF OwnInv, Filed, AllFiled, RawNameOf, LonelyInv, WritesList
<1>12. FileInv(store)' /\ FileInv(temp)'
  BY <1>1, <1>2, <1>5, FileStays
<1>13. RawInv'
  <2>1. ASSUME NEW q \in Collectors, CollectorAt(q, "fill raw")
        PROVE  CollectorAt(q, "fill raw")' /\ NameOf(q)' = NameOf(q)
    <3>1. q # r /\ q \notin others
      BY <1>1, <2>1 DEF CollectorAt, WritesList
    <3>2. collector'[q] = collector[q]
      BY <1>7, <3>1
    <3>. QED
      BY <2>1, <3>2 DEF CollectorAt, NameOf, RawName
  <2>. QED
    BY <1>1, <1>2, <2>1, RawUntouched
<1>. QED
  BY <1>7, <1>10, <1>11, <1>12, <1>13 DEF CollectInv

LEMMA RenameKept ==
  ASSUME CollectInv, NEW r \in Collectors, Rename(r)
  PROVE  CollectInv'
<1>1. /\ UNCHANGED <<raw, cutNames>> /\ collector[r].phase = "replace" /\ temp' = NoList
      /\ store' = IF temp = NoList THEN store ELSE temp
  BY DEF Rename, CollectorAt
<1>2. /\ OwnInv(collector[r]) /\ collector = [q \in Collectors |-> collector[q]] /\ RawInv
      /\ FileInv(store) /\ FileInv(temp)
  BY RunAt
<1>3. PICK c : c = collector[r]
  OBVIOUS
<1>4. /\ c \in CollectorRecord /\ c.phase = "replace" /\ OwnInv(c) /\ c.list # <<>>
  BY <1>1, <1>2, <1>3 DEF OwnInv, Recording
<1>5. RawGrows
  BY <1>1, RawSame
<1> DEFINE moved(place) == CASE place = "temp" -> "destination"
                           [] place = "destination" -> "gone"
                           [] OTHER -> place
<1>6. PICK mine : mine = NextEntry(IF temp = NoList THEN c
                           ELSE [c EXCEPT !.completed = @ \cup {Head(c.list)}])
  OBVIOUS
<1>7. /\ collector' = [q \in Collectors |-> collector'[q]]
      /\ collector'[r] = mine
      /\ \A q \in Collectors \ {r} : \/ collector'[q] = collector[q]
                                     \/ collector'[q] = [collector[q] EXCEPT !.place = moved(@)]
  BY <1>3, <1>6 DEF Rename, EntryOf
<1>8. OwnInv(mine) /\ mine.phase = "next"
  <2>1. CASE temp = NoList
    BY <1>4, <1>6, <2>1, NextEntryOwn, NextEntryIs
  <2>2. CASE temp # NoList
    <3>1. PICK completed : completed = c.completed \cup {Head(c.list)}
      OBVIOUS
    <3>2. completed \subseteq Listings /\ c.completed \subseteq completed
      BY <1>4, <3>1, HeadTailProperties DEF CollectorRecord
    <3> DEFINE d == [c EXCEPT !.completed = completed]
    <3>3. mine = NextEntry(d)
      BY <1>6, <2>2, <3>1
    <3>4. /\ d \in CollectorRecord /\ d.phase = c.phase /\ d.alone = c.alone /\ d.content = c.content
          /\ d.record = c.record /\ d.script = c.script /\ d.list = c.list
          /\ d.refresh = c.refresh /\ d.found = c.found /\ d.completed = completed
      BY <1>4, <3>2 DEF CollectorRecord
    <3> HIDE DEF d
    <3>5. OwnInv(d)
      BY <1>4, <3>2, <3>4 DEF OwnInv
    <3>. QED
      BY <1>4, <3>3, <3>4, <3>5, NextEntryOwn, NextEntryIs
  <2>. QED
    BY <2>1, <2>2
<1>9. OwnInv(collector[r])' /\ LonelyInv(r)'
  <2>1. OwnInv(mine)'
    BY <1>5, <1>8, OwnGrows
  <2>2. OwnInv(collector[r])'
    BY <1>7, <2>1 DEF OwnInv, Filed, AllFiled, RawNameOf
  <2>. QED
    BY <1>7, <1>8, <2>2 DEF LonelyInv, WritesList
<1>10. ASSUME NEW q \in Collectors, q # r PROVE OwnInv(collector[q])' /\ LonelyInv(q)'
  <2>1. PICK b, e : b = collector[q] /\ e = collector'[q]
    OBVIOUS
  <2>2. OwnInv(b) /\ b \in CollectorRecord
    BY <2>1, RunAt
  <2>3. OwnInv(e) /\ e.phase = b.phase /\ e.alone = b.alone
    <3>1. CASE e = b
      BY <2>2, <3>1
    <3>2. CASE e = [b EXCEPT !.place = moved(@)]
      <4>1. PICK place : place = moved(b.place)
        OBVIOUS
      <4>2. place \in {"closed", "temp", "destination", "gone"}
        BY <2>2, <4>1 DEF CollectorRecord
      <4> DEFINE d == [b EXCEPT !.place = place]
      <4>3. e = d
        BY <3>2, <4>1
      <4>4. /\ d \in CollectorRecord /\ d.phase = b.phase /\ d.alone = b.alone /\ d.content = b.content
            /\ d.record = b.record /\ d.script = b.script /\ d.list = b.list
            /\ d.refresh = b.refresh /\ d.found = b.found /\ d.completed = b.completed
        BY <2>2, <4>2 DEF CollectorRecord
      <4> HIDE DEF d
      <4>5. OwnInv(d)
        BY <2>2, <4>4 DEF OwnInv
      <4>. QED
        BY <4>3, <4>4, <4>5
    <3>. QED
      BY <1>7, <1>10, <2>1, <3>1, <3>2
  <2>4. OwnInv(e)'
    BY <1>5, <2>3, OwnGrows
  <2>5. ~(b.phase \in {"open", "fill", "replace"} /\ b.alone)
    <3>1. LonelyInv(q) /\ WritesList(r)
      BY <1>1, RunAt DEF WritesList
    <3>. QED
      BY <1>10, <2>1, <3>1 DEF LonelyInv, WritesList
  <2>. QED
    BY <2>1, <2>3, <2>4, <2>5 DEF OwnInv, Filed, AllFiled, RawNameOf, LonelyInv, WritesList
<1>11. FileInv(store)' /\ FileInv(temp)'
  <2>1. PICK old, new, none : old = store /\ new = temp /\ none = NoList
    OBVIOUS
  <2>2. FileInv(none)
    BY <2>1, FilesApart DEF FileInv, AllFiled
  <2>3. FileInv(old)' /\ FileInv(new)' /\ FileInv(none)'
    BY <1>2, <1>5, <2>1, <2>2, FilesGrow
  <2>4. store' \in {old, new} /\ temp' = none
    BY <1>1, <2>1
  <2>. QED
    BY <2>3, <2>4 DEF FileInv, AllFiled, Filed, RawNameOf
<1>12. RawInv'
  <2>1. ASSUME NEW q \in Collectors, CollectorAt(q, "fill raw")
        PROVE  CollectorAt(q, "fill raw")' /\ NameOf(q)' = NameOf(q)
    <3>1. q # r
      BY <1>1, <2>1 DEF CollectorAt
    <3>2. PICK b : b = collector[q]
      OBVIOUS
    <3>3. b \in CollectorRecord
      BY <3>2, RunAt
    <3>4. collector'[q].phase = b.phase /\ collector'[q].record = b.record
      BY <1>7, <3>1, <3>2, <3>3 DEF CollectorRecord
    <3>. QED
      BY <2>1, <3>2, <3>4 DEF CollectorAt, NameOf, RawName
  <2>. QED
    BY <1>1, <1>2, <2>1, RawUntouched
<1>. QED
  BY <1>7, <1>9, <1>10, <1>11, <1>12 DEF CollectInv

-----------------------------------------------------------------------------
(* The collectors together *)

LEMMA CollectStepInv ==
  ASSUME CollectInv, CollectStep
  PROVE  CollectInv'
<1>1. PICK r \in Collectors :
        \/ StartCollector(r) \/ TakeEntry(r) \/ FetchDocument(r) \/ Archive(r)
        \/ FillRaw(r) \/ ReadStore(r) \/ OpenTemp(r) \/ FillTemp(r)
        \/ Rename(r) \/ Die(r)
  BY DEF CollectStep
<1>. QED
  BY <1>1, StartKept, TakeKept, FetchKept, ArchiveKept, FillRawKept, ReadKept, OpenKept, FillKept,
     RenameKept, DieKept

LEMMA CollectSame ==
  ASSUME CollectInv, UNCHANGED collectVars
  PROVE  CollectInv'
<1>1. store' = store /\ temp' = temp /\ raw' = raw /\ collector' = collector /\ cutNames' = cutNames
  BY DEF collectVars
<1>2. RawGrows
  BY <1>1, RawSame
<1>3. /\ collector = [q \in Collectors |-> collector[q]] /\ RawInv
      /\ FileInv(store) /\ FileInv(temp)
  BY DEF CollectInv
<1>4. ASSUME NEW q \in Collectors PROVE OwnInv(collector[q])' /\ LonelyInv(q)'
  <2>1. OwnInv(collector[q]) /\ LonelyInv(q)
    BY RunAt
  <2>2. OwnInv(collector[q])'
    BY <1>1, <2>1 DEF OwnInv, Filed, AllFiled, RawNameOf
  <2>3. LonelyInv(q) /\ store' = store /\ temp' = temp /\ collector' = collector
    BY <1>1, <2>1
  <2>4. LonelyInv(q)'
    <3>1. SUFFICES ASSUME WritesList(q)', collector'[q].alone
                   PROVE  /\ \A p \in Collectors \ {q} : ~WritesList(p)'
                          /\ store' # TornList
                          /\ collector'[q].content =
                               Stored(Merged(store'.records, collector'[q].record))
                          /\ CollectorAt(q, "fill")' => collector'[q].place = "temp"
                          /\ CollectorAt(q, "replace")' => temp' = collector'[q].content
      BY Zenon DEF LonelyInv, Merged, KeysOf, Stored, TornList, ReplaceAt,
                 SelectInSeq, Min
    <3>. QED
      BY <2>3, <3>1 DEF LonelyInv, CollectorAt, WritesList
  <2>. QED
    BY <2>2, <2>4
<1>5. FileInv(store)' /\ FileInv(temp)'
  BY <1>1, <1>2, <1>3, FileStays
<1>6. RawInv'
  BY <1>1, <1>3, RawUntouched DEF CollectorAt, NameOf, RawName
<1>. QED
  BY <1>1, <1>3, <1>4, <1>5, <1>6 DEF CollectInv

LEMMA CollectStarts ==
  ASSUME NothingCollected,
         store = NoList \/ \E key \in Listings : store = Stored(<<Researched(key)>>)
  PROVE  CollectInv
<1>1. /\ temp = NoList
      /\ raw = [name \in {RawName(key, document) : key \in Listings, document \in Documents}
                  |-> Absent]
      /\ collector = [r \in Collectors |-> NoCollector]
  BY DEF NothingCollected
<1>2. RawInv
  <2>1. Absent # Partial
    BY DEF Absent, Partial
  <2>2. raw = [name \in Names |-> Absent]
    <3>1. Names = {RawName(key, document) : key \in Listings, document \in Documents}
      BY DEF Names
    <3>. QED
      BY <1>1, <3>1
  <2>. QED
    BY <2>1, <2>2 DEF RawInv
<1>3. NoCollector.phase = "idle" /\ OwnInv(NoCollector)
  <2>1. NoList \in StoreFiles /\ <<>> \in Seq(Listings)
    BY FilesApart, EmptySeq
  <2>. QED
    BY <2>1 DEF NoCollector, OwnInv, CollectorRecord, Recording
<1>4. \A r \in Collectors : OwnInv(collector[r]) /\ LonelyInv(r)
  BY <1>1, <1>3 DEF LonelyInv, WritesList
<1>5. FileInv(NoList)
  BY FilesApart DEF FileInv, AllFiled
<1>6. FileInv(store)
  <2>1. CASE store = NoList
    BY <1>5, <2>1
  <2>2. ASSUME NEW key \in Listings, store = Stored(<<Researched(key)>>)
        PROVE  FileInv(store)
    <3>1. PICK record : record = Researched(key)
      OBVIOUS
    <3>2. record \in SnapshotRecords /\ record.source = "web"
      BY <3>1, RecordKinds DEF SnapshotRecords
    <3>3. PICK records : records = <<record>>
      OBVIOUS
    <3>4. records \in Seq(SnapshotRecords) /\ DOMAIN records = {1} /\ records[1] = record
      BY <3>2, <3>3
    <3>5. records \in UniqueLists
      BY <3>4 DEF UniqueLists, Unique
    <3>6. store \in WholeLists /\ store.records = records
      BY <2>2, <3>1, <3>3, <3>5, FilesApart DEF WholeLists
    <3>7. AllFiled(store)
      BY <3>2, <3>4, <3>6 DEF AllFiled, Filed
    <3>. QED
      BY <3>6, <3>7 DEF FileInv, StoreFiles
  <2>. QED
    BY <2>1, <2>2
<1>. QED
  BY <1>1, <1>2, <1>4, <1>5, <1>6 DEF CollectInv

LEMMA StatedValue ==
  ASSUME NEW values \in Seq(Nat), StatedOnce(values) # Missing
  PROVE  StatedOnce(values) \in ToSet(values)
<1>1. values # <<>> /\ StatedOnce(values) = Head(values)
  BY DEF StatedOnce
<1>2. 1 \in DOMAIN values /\ Head(values) = values[1]
  BY <1>1, HeadTailProperties, EmptySeq, LenProperties
<1>. QED
  BY <1>1, <1>2 DEF ToSet

LEMMA BackedStep ==
  ASSUME CollectInv
  PROVE  RecordsAreBacked
<1>1. /\ store \in StoreFiles /\ FileInv(store) /\ RawInv
  BY DEF CollectInv, FileInv
<1>2. ASSUME NEW n \in DOMAIN store.records, store.records[n].source = "official"
      PROVE  LET record == store.records[n]
                 name == RawName(record.key, record.document)
                 stated(value, values) == value # Missing => value \in ToSet(values)
             IN /\ \/ raw[name] = record.document
                   \/ /\ raw[name] = Partial
                      /\ \/ name \in cutNames
                         \/ \E r \in Collectors : CollectorAt(r, "fill raw") /\ NameOf(r) = name
                /\ stated(record.growth, record.document.growth)
                /\ stated(record.other, record.document.other)
                /\ record.document.type = "structured" =>
                     \A m, k \in DOMAIN record.document.growth :
                       record.document.growth[m] = record.document.growth[k]
  <2>1. PICK record : record = store.records[n]
    OBVIOUS
  <2>2. record \in SnapshotRecords /\ Filed(record) /\ record.source = "official"
    <3>1. store.records \in Seq(SnapshotRecords)
      BY <1>1, FileRecords DEF UniqueLists
    <3>. QED
      BY <1>1, <1>2, <2>1, <3>1, LenProperties DEF FileInv, AllFiled
  <2>3. record \in OfficialRecords
    BY <2>2, RecordParts
  <2>4. PICK name, document : name = RawNameOf(record) /\ document = record.document
    OBVIOUS
  <2>5. /\ document \in Documents /\ Parses(document)
        /\ record = Official(record.key, document)
        /\ name \in Names /\ name[2] = document
    BY <2>3, <2>4, OfficialParts
  <2>6. /\ document.growth \in Seq(Nat) /\ document.other \in Seq(Nat)
        /\ document.type \in {"structured", "pdf", "unsupported"}
    BY <2>5, DocumentsAssumption
  <2>7. raw[name] # Absent
    BY <2>2, <2>4 DEF Filed
  <2>8. \/ raw[name] = document
        \/ /\ raw[name] = Partial
           /\ \/ name \in cutNames
              \/ \E r \in Collectors : CollectorAt(r, "fill raw") /\ NameOf(r) = name
    BY <1>1, <2>5, <2>7 DEF RawInv
  <2>9. /\ record.growth = StatedOnce(document.growth)
        /\ record.other = IF document.type = "pdf" THEN Missing ELSE StatedOnce(document.other)
    <3>1. PICK key : key = record.key
      OBVIOUS
    <3>2. record = Official(key, document)
      BY <2>5, <3>1
    <3>. QED
      BY <3>2 DEF Official
  <2>10. /\ record.growth # Missing => record.growth \in ToSet(document.growth)
         /\ record.other # Missing => record.other \in ToSet(document.other)
    BY <2>6, <2>9, StatedValue
  <2>11. document.type = "structured" =>
           \A m, k \in DOMAIN document.growth : document.growth[m] = document.growth[k]
    <3>1. SUFFICES ASSUME document.type = "structured"
                   PROVE  \A m, k \in DOMAIN document.growth : document.growth[m] = document.growth[k]
      OBVIOUS
    <3>2. PICK values : values = document.growth
      OBVIOUS
    <3>3. \A m \in DOMAIN values : values[m] = values[1]
      BY <2>5, <3>1, <3>2 DEF Parses
    <3>. QED
      BY <3>2, <3>3
  <2>. QED
    BY <2>1, <2>4, <2>8, <2>10, <2>11 DEF RawNameOf
<1>. QED
  BY <1>2 DEF RecordsAreBacked

\* Only a rename of its own can change the list while a run that writes alone
\* is about to rename.
LEMMA KeptStep ==
  ASSUME CollectInv, CollectStep, NEW r \in Collectors
  PROVE  KeepsRecords(r)
<1>1. SUFFICES ASSUME CollectorAt(r, "replace"), collector[r].alone, store' # store
               PROVE  LET record == collector[r].record
                          before == ToSet(store.records)
                          after == ToSet(store'.records)
                      IN /\ store # TornList /\ store'.of = "list"
                         /\ \A n, m \in DOMAIN store'.records :
                              store'.records[n].key = store'.records[m].key => n = m
                         /\ after = {other \in before : other.key # record.key} \cup {record}
                         /\ ~collector[r].refresh => record.key \notin collector[r].found
  BY DEF KeepsRecords
<1>2. PICK q \in Collectors :
        \/ StartCollector(q) \/ TakeEntry(q) \/ FetchDocument(q) \/ Archive(q)
        \/ FillRaw(q) \/ ReadStore(q) \/ OpenTemp(q) \/ FillTemp(q)
        \/ Rename(q) \/ Die(q)
  BY DEF CollectStep
<1>3. FillTemp(q) \/ Rename(q)
  BY <1>1, <1>2 DEF StartCollector, TakeEntry, FetchDocument, Archive, FillRaw,
     ReadStore, OpenTemp, Die
<1>4. /\ OwnInv(collector[r]) /\ LonelyInv(r) /\ store \in StoreFiles /\ WritesList(r)
  BY <1>1, RunAt DEF CollectorAt, WritesList
<1>5. /\ \A p \in Collectors \ {r} : ~WritesList(p)
      /\ store # TornList
      /\ collector[r].content = Stored(Merged(store.records, collector[r].record))
      /\ temp = collector[r].content
  BY <1>1, <1>4 DEF LonelyInv
<1>6. q = r /\ Rename(r)
  BY <1>1, <1>3, <1>5 DEF FillTemp, Rename, CollectorAt, WritesList
<1>7. PICK record, records : record = collector[r].record /\ records = store.records
  OBVIOUS
<1>8. /\ record \in SnapshotRecords /\ records \in UniqueLists
      /\ ~collector[r].refresh => record.key \notin collector[r].found
  BY <1>1, <1>4, <1>7, FileRecords DEF OwnInv, CollectorAt, Recording
<1>9. PICK merged : merged = Merged(records, record)
  OBVIOUS
<1>10. store' = Stored(merged)
  BY <1>5, <1>6, <1>7, <1>9, FilesApart DEF Rename
<1>11. store'.of = "list" /\ store'.records = merged
  BY <1>10, FilesApart
<1>12. /\ merged \in UniqueLists
       /\ \A x : x \in ToSet(merged) <=>
                 (x \in ToSet(records) /\ x.key # record.key) \/ x = record
  BY <1>8, <1>9, MergedList
<1>13. ToSet(merged) = {other \in ToSet(records) : other.key # record.key} \cup {record}
  BY <1>12
<1>14. \A n, m \in DOMAIN merged : merged[n].key = merged[m].key => n = m
  BY <1>12 DEF UniqueLists, Unique
<1>. QED
  BY <1>5, <1>7, <1>8, <1>11, <1>13, <1>14

-----------------------------------------------------------------------------
(* The tools, one of them run *)

DeskInv == IndicatorInv /\ EvaluationInv /\ CollectInv

LEMMA DeskStarts ==
  ASSUME DeskInit
  PROVE  DeskInv
<1>1. EvaluationInv
  <2>1. EvaluationOff \/ EvaluationInit
    BY DEF DeskInit
  <2>2. CASE EvaluationOff
    BY <2>2, EvaluationStarts DEF EvaluationOff
  <2>3. CASE EvaluationInit
    <3>1. NothingEvaluated
      BY <2>3 DEF EvaluationInit
    <3>2. PICK size \in 1 .. LongestData, warmup \in [1 .. Candidates -> Warmups] :
       \/ \E split \in 0 .. LongestData :
            request = [kind |-> "split", bars |-> size, warmup |-> warmup, split |-> split,
                       scenarios |-> 2]
       \/ \E train \in 0 .. LongestTrain, test \in 0 .. LongestTest,
             step \in 0 .. LongestStep \cup {DefaultStep} :
            request = [kind |-> "walk", bars |-> size, warmup |-> warmup, train |-> train,
                       test |-> test, step |-> step]
      BY <2>3 DEF EvaluationInit
    <3>3. size \in Int
      OBVIOUS
    <3>4. ASSUME NEW split \in 0 .. LongestData,
                 request = [kind |-> "split", bars |-> size, warmup |-> warmup, split |-> split,
                            scenarios |-> 2]
          PROVE  request.kind = "split" /\ SplitRequest(request)
      <4>1. split \in Int /\ warmup[1] \in Nat \ {0}
        <5>1. 1 \in 1 .. Candidates /\ split \in Int
          BY CandidatesAssumption
        <5>2. warmup[1] \in Warmups
          BY <5>1
        <5>. QED
          BY <5>1, <5>2, WarmupsAssumption
      <4>. QED
        BY <3>3, <3>4, <4>1 DEF SplitRequest
    <3>5. ASSUME NEW train \in 0 .. LongestTrain, NEW test \in 0 .. LongestTest,
                 NEW step \in 0 .. LongestStep \cup {DefaultStep},
                 request = [kind |-> "walk", bars |-> size, warmup |-> warmup, train |-> train,
                            test |-> test, step |-> step]
          PROVE  request.kind = "walk" /\ WalkRequest(request)
      <4>1. train \in Int /\ test \in Int /\ step \in Int
        BY DEF DefaultStep
      <4>. QED
        BY <3>3, <3>5, <4>1 DEF WalkRequest
    <3>. QED
      BY <3>1, <3>2, <3>4, <3>5, EvaluationStarts
  <2>. QED
    BY <2>1, <2>2, <2>3
<1>2. CollectInv
  <2>1. CollectorsOff \/ CollectInit
    BY DEF DeskInit
  <2>2. NothingCollected
    BY <2>1 DEF CollectorsOff, CollectInit
  <2>3. store = NoList \/ \E key \in Listings : store = Stored(<<Researched(key)>>)
    BY <2>1 DEF CollectorsOff, CollectInit
  <2>. QED
    BY <2>2, <2>3, CollectStarts
<1>. QED
  BY <1>1, <1>2, IndicatorsBegin DEF DeskInv

LEMMA DeskStep ==
  ASSUME DeskInv, [DeskNext]_deskVars
  PROVE  DeskInv'
<1>1. IndicatorInv /\ EvaluationInv /\ CollectInv
  BY DEF DeskInv
<1>2. IndicatorInv'
  BY <1>1, IndicatorsKeep
<1>3. CASE UNCHANGED evaluationVars /\ UNCHANGED collectVars
  BY <1>1, <1>2, <1>3, EvaluationSame, CollectSame DEF DeskInv
<1>4. CASE EvaluationStep /\ UNCHANGED collectVars
  BY <1>1, <1>2, <1>4, EvaluationStepInv, CollectSame DEF DeskInv
<1>5. CASE UNCHANGED evaluationVars /\ CollectStep
  BY <1>1, <1>2, <1>5, EvaluationSame, CollectStepInv DEF DeskInv
<1>. QED
  BY <1>3, <1>4, <1>5 DEF DeskNext, deskVars

LEMMA DeskIsRight == DeskSpec => []DeskInv
<1>1. DeskInit => DeskInv
  BY DeskStarts
<1>2. DeskInv /\ [DeskNext]_deskVars => DeskInv'
  BY DeskStep
<1>. QED
  BY <1>1, <1>2, PTL DEF DeskSpec

\* The rolling indicators of the technical-only backtester are those of all the
\* bars so far, and a week's verdict is of the weeks before it only, for every
\* data set, all periods and whatever bars are skipped.
THEOREM PastMemory == DeskSpec => []MemoryIsOfThePast
<1>1. DeskInv => MemoryIsOfThePast
  BY IndicatorsRemember DEF DeskInv
<1>. QED
  BY <1>1, DeskIsRight, PTL

\* No test counts a bar its strategy was trained on, and candidates and benchmarks
\* are tested on the same bars, for every data set, split and walk.
THEOREM OutOfSampleTests == DeskSpec => []TestsAreOutOfSample
<1>1. DeskInv => TestsAreOutOfSample
  BY OutOfSample DEF DeskInv
<1>. QED
  BY <1>1, DeskIsRight, PTL

\* Who is selected is eligible and not beaten, and nobody is selected only when
\* nobody is eligible (compare_strategies), whatever the backtests yield.
THEOREM UndominatedSelection == DeskSpec => []SelectionIsUndominated
<1>1. DeskInv => SelectionIsUndominated
  BY Undominated DEF DeskInv
<1>. QED
  BY <1>1, DeskIsRight, PTL

\* The document of an official record is in the archive, and states what the
\* record says, however the runs of the collectors overlap or die.
THEOREM BackedRecords == DeskSpec => []RecordsAreBacked
<1>1. DeskInv => RecordsAreBacked
  BY BackedStep DEF DeskInv
<1>. QED
  BY <1>1, DeskIsRight, PTL

\* A run whose write no other came between changes its own record only.
THEOREM KeptRecords == DeskSpec => RecordsAreKept
<1>1. DeskInv /\ [DeskNext]_deskVars =>
        [\A r \in Collectors : KeepsRecords(r)]_collectVars
  <2>1. SUFFICES ASSUME DeskInv, [DeskNext]_deskVars, ~UNCHANGED collectVars
                 PROVE  \A r \in Collectors : KeepsRecords(r)
    OBVIOUS
  <2>2. CollectInv /\ CollectStep
    BY <2>1 DEF DeskInv, DeskNext, deskVars
  <2>. QED
    BY <2>2, KeptStep
<1>. QED
  BY <1>1, DeskIsRight, PTL DEF DeskSpec, RecordsAreKept
=============================================================================
