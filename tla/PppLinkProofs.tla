--------------------------- MODULE PppLinkProofs ---------------------------
(***************************************************************************)
(* The safety of the two automata of PppLink for any number of starts,     *)
(* kills and faults, any limits, identifier width and options.             *)
(***************************************************************************)
EXTENDS PppLink, PppFsmProofs, FiniteSetTheorems

USE ZenonT(30)

\* The inductive invariant: what the three theorems say, no callback is left over, and
\* the automaton of an end without a process is the one lcp_init makes.
Settled(e) ==
  /\ FsmOK(lcp[e]) /\ lcp[e].calls = << >>
  /\ up[e] = IF lcp[e].state = "OPENED" THEN 1 ELSE 0
  /\ e \notin on => lcp[e].state = "INITIAL"
LinkInv == TypeOK /\ \A e \in Ends : Settled(e)

\* A line has two ends.
LEMMA OtherEnd == \A e \in Ends : Other(e) \in Ends /\ Other(e) # e
BY LinkAssumption DEF Other

\* How often a callback occurs in the lists that one call can make.
LEMMA CountShapes ==
  ASSUME NEW c \in {"up", "down"}
  PROVE  /\ Count(<< >>, c) = 0 /\ Count(<< "finished" >>, c) = 0
         /\ Count(<< "up" >>, c) = IF c = "up" THEN 1 ELSE 0
         /\ Count(<< "down" >>, c) = IF c = "down" THEN 1 ELSE 0
         /\ Count(<< "down", "finished" >>, c) = IF c = "down" THEN 1 ELSE 0
<1>0. Cardinality({}) = 0 /\ Cardinality({1}) = 1
  BY FS_EmptySet, FS_Singleton
<1>1. {i \in DOMAIN << >> : << >>[i] = c} = {}
  BY SMTT(30)
<1>2. {i \in DOMAIN << "finished" >> : << "finished" >>[i] = c} = {}
  BY SMTT(30)
<1>3. {i \in DOMAIN << "up" >> : << "up" >>[i] = c} = IF c = "up" THEN {1} ELSE {}
  BY SMTT(30)
<1>4. {i \in DOMAIN << "down" >> : << "down" >>[i] = c} = IF c = "down" THEN {1} ELSE {}
  BY SMTT(30)
<1>5. {i \in DOMAIN << "down", "finished" >> : << "down", "finished" >>[i] = c}
        = IF c = "down" THEN {1} ELSE {}
  BY SMTT(30)
<1> QED
  BY <1>0, <1>1, <1>2, <1>3, <1>4, <1>5 DEF Count

\* Which of those lists end the session.
Over(f) == "finished" \in {f.calls[i] : i \in DOMAIN f.calls}
\* They are the two with finished.
LEMMA OverShapes ==
  ASSUME NEW f, f.calls \in CallShapes
  PROVE  Over(f) <=> f.calls \in {<< "finished" >>, << "down", "finished" >>}
BY CallLists, SMTT(30) DEF Over, CallShapes

----------------------------------------------------------------------------
\* Consuming the packets and the callbacks leaves the rest of the automaton alone.
LEMMA ConsumedFacts ==
  ASSUME NEW f \in Fsm
  PROVE  LET r == [f EXCEPT !.out = << >>, !.calls = << >>]
         IN /\ r \in Fsm /\ r.calls = << >> /\ r.state = f.state /\ r.timer = f.timer
            /\ r.seen_ack = f.seen_ack
<1>1. ASSUME NEW o \in Seq(Packets), NEW c \in Seq({"up", "down", "finished"})
      PROVE  LET r == [f EXCEPT !.out = o, !.calls = c]
             IN /\ r \in Fsm /\ r.calls = c /\ r.state = f.state /\ r.timer = f.timer
                /\ r.seen_ack = f.seen_ack
  BY DEF Fsm
<1>2. << >> \in Seq(Packets) /\ << >> \in Seq({"up", "down", "finished"})
  BY SMTT(30)
<1> QED
  BY <1>1, <1>2

\* Settling the automaton f of end e keeps the invariant when f is in order, its
\* callbacks account for the change of OPENED, and it is at rest when the session is
\* over.
LEMMA SettleStep ==
  ASSUME LinkInv, NEW e \in Ends, NEW f \in Fsm, FsmOK(f), f.calls \in CallShapes,
         up[e] + Count(f.calls, "up") - Count(f.calls, "down") = IF f.state = "OPENED" THEN 1 ELSE 0,
         Over(f) => f.state \in {"INITIAL", "STARTING", "CLOSED", "STOPPED"},
         NEW rest \in [Ends -> Seq(Packets)], Settle(e, f, rest),
         profile' \in Profiles, starts' \in Nat, kills' \in Nat, faults' \in Nat
  PROVE  LinkInv'
<1> DEFINE g == IF Over(f) THEN Close(LowerDown(f)) ELSE f
           h == [g EXCEPT !.out = << >>, !.calls = << >>]
<1>1. /\ lcp' = [lcp EXCEPT ![e] = h]
      /\ up' = [up EXCEPT ![e] = @ + Count(g.calls, "up") - Count(g.calls, "down")]
      /\ on' = IF Over(f) THEN on \ {e} ELSE on \cup {e}
      /\ line' = [rest EXCEPT ![Other(e)] = @ \o f.out]
  BY DEF Settle, Over
<1>2. /\ g \in Fsm /\ FsmOK(g) /\ g.calls = f.calls
      /\ Over(f) => g.state = "INITIAL"
      /\ g.state = "OPENED" <=> f.state = "OPENED"
  <2>1. CASE ~Over(f)
    BY <2>1
  <2>2. CASE Over(f)
    <3> DEFINE st == IF f.state \in {"INITIAL", "CLOSED"} THEN "INITIAL" ELSE "STARTING"
               k == [f EXCEPT !.state = st]
    <3>1. LowerDown(f) = k
      BY <2>2 DEF LowerDown, Timed, Negotiating
    <3>2. k \in Fsm /\ k.state = st /\ k.calls = f.calls /\ k.timer = f.timer
      BY DEF Fsm, FsmStates, Timed, Negotiating
    <3>3. Close(k) = [k EXCEPT !.state = "INITIAL"]
      <4>1. CASE st = "STARTING"
        BY <3>2, <4>1 DEF Close, Negotiating
      <4>2. CASE st = "INITIAL"
        <5>1. Close(k) = k
          BY <3>2, <4>2 DEF Close, Negotiating
        <5>2. [k EXCEPT !.state = "INITIAL"] = k
          BY <4>2
        <5> QED
          BY <5>1, <5>2
      <4> QED
        BY <4>1, <4>2
    <3>4. f.timer = 0
      BY <2>2 DEF FsmOK, Timed, Negotiating
    <3> HIDE DEF k
    <3>5. g = [k EXCEPT !.state = "INITIAL"]
      BY <2>2, <3>1, <3>3
    <3>6. g \in Fsm /\ g.state = "INITIAL" /\ g.calls = f.calls /\ g.timer = 0
      <4>1. Is(k, st, 0, f.calls, k.seen_ack)
        BY <3>2, <3>4 DEF Is
      <4>2. Is([k EXCEPT !.state = "INITIAL"], "INITIAL", 0, f.calls, k.seen_ack)
        BY <4>1, IsState DEF FsmStates
      <4> QED
        BY <3>5, <4>2 DEF Is
    <3> QED
      BY <3>6 DEF FsmOK, Timed, Negotiating
  <2> QED
    BY <2>2
<1> HIDE DEF g
<1>3. h \in Fsm /\ h.calls = << >> /\ FsmOK(h) /\ h.state = g.state
  <2>1. h \in Fsm /\ h.calls = << >> /\ h.state = g.state /\ h.timer = g.timer
        /\ h.seen_ack = g.seen_ack
    BY <1>2, ConsumedFacts
  <2> QED
    BY <1>2, <2>1 DEF FsmOK
<1> HIDE DEF h
<1>4. TypeOK'
  <2>1. lcp' \in [Ends -> Fsm]
    BY <1>1, <1>3 DEF LinkInv, TypeOK
  <2>2. on' \subseteq Ends
    BY <1>1 DEF LinkInv, TypeOK
  <2>3. up' \in [Ends -> Int]
    <3>1. up[e] + Count(g.calls, "up") - Count(g.calls, "down") \in Int
      BY <1>2, SMTT(30) DEF FsmStates, Timed, Negotiating
    <3> QED
      BY <1>1, <3>1 DEF LinkInv, TypeOK
  <2>4. line' \in [Ends -> Seq(Packets)]
    <3>1. rest[Other(e)] \o f.out \in Seq(Packets)
      BY OtherEnd, SMTT(30) DEF Fsm, FsmStates, Timed, Negotiating
    <3> QED
      BY <1>1, <3>1
  <2> QED
    BY <2>1, <2>2, <2>3, <2>4 DEF TypeOK
<1>5. ASSUME NEW x \in Ends PROVE Settled(x)'
  <2>1. CASE x # e
    <3>1. lcp'[x] = lcp[x] /\ up'[x] = up[x] /\ (x \notin on' => x \notin on)
      BY <1>1, <2>1 DEF LinkInv, TypeOK
    <3> QED
      BY <3>1 DEF LinkInv, Settled
  <2>2. CASE x = e
    <3>1. lcp'[e] = h
      BY <1>1 DEF LinkInv, TypeOK
    <3>2. up'[e] = IF h.state = "OPENED" THEN 1 ELSE 0
      <4>1. up'[e] = up[e] + Count(g.calls, "up") - Count(g.calls, "down")
        BY <1>1 DEF LinkInv, TypeOK
      <4> QED
        BY <1>2, <1>3, <4>1
    <3>3. e \notin on' => h.state = "INITIAL"
      BY <1>1, <1>2, <1>3
    <3> QED
      BY <1>3, <2>2, <3>1, <3>2, <3>3 DEF Settled
  <2> QED
    BY <2>1, <2>2
<1> QED
  BY <1>4, <1>5 DEF LinkInv

\* The same after a call into an automaton that was settled.
LEMMA SettleSound ==
  ASSUME LinkInv, NEW e \in Ends, NEW f, Quiet(f), f.state = "OPENED" <=> lcp[e].state = "OPENED",
         NEW r, Sound(f, r),
         NEW rest \in [Ends -> Seq(Packets)], Settle(e, r, rest),
         profile' \in Profiles, starts' \in Nat, kills' \in Nat, faults' \in Nat
  PROVE  LinkInv'
<1>1. r \in Fsm /\ FsmOK(r) /\ Reported(f, r) /\ r.calls \in CallShapes
  BY DEF Sound, Reported
<1>2. Over(r) => r.state \in {"CLOSED", "STOPPED"}
  BY <1>1, OverShapes DEF Reported
<1>3. up[e] = IF f.state = "OPENED" THEN 1 ELSE 0
  BY DEF LinkInv, Settled
<1>4. up[e] + Count(r.calls, "up") - Count(r.calls, "down") = IF r.state = "OPENED" THEN 1 ELSE 0
  <2>1. CASE r.calls = << "up" >>
    BY <1>1, <1>3, <2>1, CountShapes, SMTT(30) DEF Reported
  <2>2. CASE r.calls = << "down" >>
    BY <1>1, <1>3, <2>2, CountShapes, SMTT(30) DEF Reported
  <2>3. CASE r.calls = << "down", "finished" >>
    BY <1>1, <1>3, <2>3, CountShapes, SMTT(30) DEF Reported
  <2>4. CASE r.calls = << >>
    BY <1>1, <1>3, <2>4, CountShapes, SMTT(30) DEF Reported
  <2>5. CASE r.calls = << "finished" >>
    BY <1>1, <1>3, <2>5, CountShapes, SMTT(30) DEF Reported
  <2> QED
    BY <1>1, <2>1, <2>2, <2>3, <2>4, <2>5 DEF CallShapes
<1> QED
  BY <1>1, <1>2, <1>4, SettleStep

----------------------------------------------------------------------------
\* The automaton of a new process.
LEMMA FreshQuiet ==
  ASSUME profile \in Profiles, NEW e \in Ends
  PROVE  Quiet(Fresh(e)) /\ Fresh(e).state = "INITIAL"
<1>1. profile[e].want \in Vals \cup {NoVal} /\ profile[e].allow \in SUBSET Vals
  BY LinkAssumption
<1> DEFINE w == profile[e].want
           a == profile[e].allow
<1> HIDE DEF w, a
<1>2. Fresh(e) = FsmInit(w, a, {})
  BY DEF Fresh, w, a
<1>3. 0 \in 0..IdMod-1 /\ << >> \in Seq(Packets) /\ << >> \in Seq({"up", "down", "finished"})
  BY FsmAssumption, SMTT(30) DEF FsmStates, Timed, Negotiating
<1>4. ASSUME NEW z \in 0..IdMod-1, NEW o \in Seq(Packets), NEW c \in Seq({"up", "down", "finished"})
      PROVE  [state |-> "INITIAL", id |-> z, reqid |-> z, seen_ack |-> 0, retransmits |-> 0,
              nakloops |-> 0, rnakloops |-> 0, timer |-> 0, flags |-> {},
              want |-> w, allow |-> a, got |-> NoVal, his |-> NoVal, out |-> o, calls |-> c] \in Fsm
  BY <1>1, SMTT(30) DEF Fsm, w, a, FsmStates, Timed, Negotiating
<1>5. FsmInit(w, a, {}) \in Fsm
  BY <1>3, <1>4 DEF FsmInit
<1> QED
  BY <1>2, <1>5, SMTT(30) DEF Quiet, FsmOK, FsmInit, FsmStates, Timed, Negotiating

\* Two fresh automata and an empty line.
THEOREM LinkInvInit == Init => LinkInv
<1> SUFFICES ASSUME Init PROVE LinkInv
  OBVIOUS
<1>1. \A e \in Ends : lcp[e] = Fresh(e) /\ Quiet(lcp[e]) /\ lcp[e].state = "INITIAL"
  BY FreshQuiet DEF Init
<1>2. lcp \in [Ends -> Fsm]
  BY <1>1 DEF Init, Quiet
<1>3. line \in [Ends -> Seq(Packets)]
  BY SMTT(30) DEF Init
<1>4. TypeOK
  BY <1>2, <1>3, SMTT(30) DEF Init, TypeOK
<1>5. \A e \in Ends : Settled(e)
  BY <1>1 DEF Init, Settled, Quiet
<1> QED
  BY <1>4, <1>5 DEF LinkInv

\* Every step of an end or of the line keeps the invariant.
THEOREM LinkInvNext == LinkInv /\ [Next]_vars => LinkInv'
<1> SUFFICES ASSUME LinkInv, [Next]_vars PROVE LinkInv'
  OBVIOUS
<1>1. TypeOK /\ line \in [Ends -> Seq(Packets)] /\ profile \in Profiles
      /\ starts \in Nat /\ kills \in Nat /\ faults \in Nat
  BY DEF LinkInv, TypeOK
<1>2. \A e \in Ends : Quiet(lcp[e])
  BY DEF LinkInv, TypeOK, Settled, Quiet
<1>3. ASSUME NEW e \in Ends, Start(e) PROVE LinkInv'
  <2> DEFINE f == Open(Fresh(e))
  <2>1. Quiet(Fresh(e)) /\ Fresh(e).state = "INITIAL"
    BY <1>1, FreshQuiet
  <2>2. f = [Fresh(e) EXCEPT !.state = "STARTING"]
    BY <2>1 DEF Open
  <2>3. Is(f, "STARTING", 0, << >>, Fresh(e).seen_ack)
    <3>1. Is(Fresh(e), "INITIAL", 0, << >>, Fresh(e).seen_ack)
      BY <2>1, IsQuiet DEF Timed, Negotiating
    <3>2. Is([Fresh(e) EXCEPT !.state = "STARTING"], "STARTING", 0, << >>, Fresh(e).seen_ack)
      BY <3>1, IsState DEF FsmStates
    <3> QED
      BY <2>2, <3>2
  <2>4. Quiet(f) /\ f.state = "STARTING"
    BY <2>3 DEF Is, Quiet, FsmOK, Timed, Negotiating
  <2> HIDE DEF f
  <2>5. Sound(f, LowerUp(f))
    BY <2>4, LowerUpSound
  <2>6. lcp[e].state = "INITIAL"
    BY <1>3 DEF Start, LinkInv, Settled
  <2>7. /\ Settle(e, LowerUp(f), line) /\ profile' = profile /\ starts' = starts + 1
        /\ kills' = kills /\ faults' = faults
    BY <1>3 DEF Start, f
  <2>8. starts' \in Nat
    BY <1>1, <2>7, SMTT(30) DEF FsmStates, Timed, Negotiating
  <2> QED
    BY <1>1, <2>4, <2>5, <2>6, <2>7, <2>8, SettleSound
<1>4. ASSUME NEW e \in Ends, Receive(e) PROVE LinkInv'
  <2> DEFINE rest == [line EXCEPT ![e] = Tail(@)]
             p == Head(line[e])
  <2>1. p \in Packets /\ Tail(line[e]) \in Seq(Packets)
    BY <1>1, <1>4, SMTT(30) DEF Receive, FsmStates, Timed, Negotiating
  <2>2. rest \in [Ends -> Seq(Packets)]
    BY <1>1, <2>1
  <2>3. /\ Settle(e, Input(lcp[e], p), rest) /\ profile' = profile /\ starts' = starts
        /\ kills' = kills /\ faults' = faults
    BY <1>4 DEF Receive
  <2> HIDE DEF rest, p
  <2>4. Sound(lcp[e], Input(lcp[e], p))
    BY <1>2, <2>1, InputSound
  <2> QED
    BY <1>1, <1>2, <2>2, <2>3, <2>4, SettleSound DEF FsmStates
<1>5. ASSUME NEW e \in Ends, Discard(e) PROVE LinkInv'
  <2>1. Tail(line[e]) \in Seq(Packets)
    BY <1>1, <1>5, SMTT(30) DEF Discard, FsmStates, Timed, Negotiating
  <2>2. line' \in [Ends -> Seq(Packets)]
    BY <1>1, <1>5, <2>1 DEF Discard
  <2> QED
    BY <1>5, <2>2 DEF Discard, LinkInv, TypeOK, Settled
<1>6. ASSUME NEW e \in Ends, Timeout(e) PROVE LinkInv'
  <2>1. /\ Settle(e, Expire(lcp[e]), line) /\ profile' = profile /\ starts' = starts
        /\ kills' = kills /\ faults' \in {faults, faults + 1} /\ lcp[e].timer > 0
    BY <1>6 DEF Timeout
  <2>2. faults' \in Nat
    BY <1>1, <2>1, SMTT(30) DEF FsmStates, Timed, Negotiating
  <2>3. Sound(lcp[e], Expire(lcp[e]))
    BY <1>2, <2>1, ExpireSound
  <2> QED
    BY <1>1, <1>2, <2>1, <2>2, <2>3, SettleSound DEF Negotiating
<1>7. ASSUME NEW e \in Ends, Kill(e) PROVE LinkInv'
  <2>1. /\ Settle(e, Close(lcp[e]), line) /\ profile' = profile /\ starts' = starts
        /\ kills' = kills + 1 /\ faults' = faults
    BY <1>7 DEF Kill
  <2>2. kills' \in Nat
    BY <1>1, <2>1, SMTT(30) DEF FsmStates, Timed, Negotiating
  <2>3. Sound(lcp[e], Close(lcp[e]))
    BY <1>2, CloseSound
  <2> QED
    BY <1>1, <1>2, <2>1, <2>2, <2>3, SettleSound
<1>8. ASSUME NEW e \in Ends, Hangup(e) PROVE LinkInv'
  <2> DEFINE h == LowerDown(lcp[e])
             f == Callback(h, "finished")
  <2>1. /\ Settle(e, f, line) /\ profile' = profile /\ starts' = starts
        /\ kills' = kills /\ faults' = faults + 1
    BY <1>8 DEF Hangup
  <2>2. faults' \in Nat
    BY <1>1, <2>1, SMTT(30) DEF FsmStates, Timed, Negotiating
  <2>3. Sound(lcp[e], h)
    BY <1>2, LowerDownSound
  <2>4. h.state \in {"INITIAL", "STARTING"}
    <3>1. ASSUME NEW k \in Fsm, NEW s \in FsmStates PROVE [k EXCEPT !.state = s].state = s
      BY DEF Fsm
    <3>2. Untimeout(lcp[e]) \in Fsm /\ Callback(lcp[e], "down") \in Fsm /\ lcp[e] \in Fsm
      BY <1>2, TimerFacts, CallbackFacts DEF Quiet
    <3> QED
      BY <3>1, <3>2, SMTT(30) DEF LowerDown, FsmStates, Timed, Negotiating
  <2> HIDE DEF h
  <2>5. h \in Fsm /\ FsmOK(h) /\ Reported(lcp[e], h)
    BY <2>3 DEF Sound
  <2>6. f \in Fsm /\ f.state = h.state /\ f.timer = h.timer /\ f.seen_ack = h.seen_ack
        /\ f.calls = Append(h.calls, "finished")
    BY <2>5, CallbackFacts
  <2> HIDE DEF f
  <2>7. FsmOK(f)
    BY <2>5, <2>6 DEF FsmOK
  <2>8. up[e] = IF lcp[e].state = "OPENED" THEN 1 ELSE 0
    BY DEF LinkInv, Settled
  <2>9. /\ h.calls \in {<< >>, << "down" >>}
        /\ h.calls = << "down" >> <=> lcp[e].state = "OPENED"
    BY <2>4, <2>5 DEF Reported, CallShapes
  <2>10. CASE h.calls = << >>
    <3>1. f.calls = << "finished" >>
      BY <2>6, <2>10, SMTT(30) DEF FsmStates, Timed, Negotiating
    <3>2. up[e] + Count(f.calls, "up") - Count(f.calls, "down") = IF f.state = "OPENED" THEN 1 ELSE 0
      BY <2>4, <2>6, <2>8, <2>9, <2>10, <3>1, CallLists, CountShapes, SMTT(30)
      DEF FsmStates, Timed, Negotiating
    <3>3. f.calls \in CallShapes
      BY <3>1 DEF CallShapes
    <3> QED
      BY <1>1, <2>1, <2>2, <2>4, <2>6, <2>7, <3>2, <3>3, SettleStep
  <2>11. CASE h.calls = << "down" >>
    <3>1. f.calls = << "down", "finished" >>
      BY <2>6, <2>11, CallLists
    <3>2. up[e] + Count(f.calls, "up") - Count(f.calls, "down") = IF f.state = "OPENED" THEN 1 ELSE 0
      <4>1. Count(f.calls, "up") = 0 /\ Count(f.calls, "down") = 1
        BY <3>1, CountShapes
      <4>2. up[e] = 1 /\ f.state # "OPENED"
        BY <2>4, <2>6, <2>8, <2>9, <2>11
      <4> QED
        BY <4>1, <4>2, SMTT(30) DEF FsmStates, Timed, Negotiating
    <3>3. f.calls \in CallShapes
      BY <3>1 DEF CallShapes
    <3> QED
      BY <1>1, <2>1, <2>2, <2>4, <2>6, <2>7, <3>2, <3>3, SettleStep
  <2> QED
    BY <2>9, <2>10, <2>11
<1>9. ASSUME NEW e \in Ends, Lose(e) PROVE LinkInv'
  <2> DEFINE kept(q, i) == SubSeq(q, 1, i - 1) \o SubSeq(q, i + 1, Len(q))
  <2>1. PICK i \in DOMAIN line[e] : line' = [line EXCEPT ![e] = kept(@, i)]
    BY <1>9 DEF Lose
  <2>2. kept(line[e], i) \in Seq(Packets)
    BY <1>1, SMTT(30) DEF FsmStates, Timed, Negotiating
  <2> HIDE DEF kept
  <2>3. line' \in [Ends -> Seq(Packets)]
    BY <1>1, <2>1, <2>2
  <2>4. faults' \in Nat
    BY <1>1, <1>9, SMTT(30) DEF Lose, FsmStates, Timed, Negotiating
  <2> QED
    BY <1>9, <2>3, <2>4 DEF Lose, LinkInv, TypeOK, Settled
<1>10. CASE UNCHANGED vars
  BY <1>10 DEF vars, LinkInv, TypeOK, Settled
<1> QED
  BY <1>3, <1>4, <1>5, <1>6, <1>7, <1>8, <1>9, <1>10 DEF Next

\* For every configuration and any number of faults, restarts and kills: the state
\* stays typed, and in particular identifiers wrap within their byte.
THEOREM LinkTypeCorrect == Spec => []TypeOK
<1>1. LinkInv => TypeOK
  BY DEF LinkInv
<1> QED
  BY <1>1, LinkInvInit, LinkInvNext, PTL DEF Spec

\* Every automaton has a timer exactly while a request of its own is unanswered, and
\* counts each answer once.
THEOREM LinkAutomataOK == Spec => []AutomataOK
<1>1. LinkInv => AutomataOK
  BY DEF LinkInv, Settled, AutomataOK
<1> QED
  BY <1>1, LinkInvInit, LinkInvNext, PTL DEF Spec

\* lcp_up and lcp_down are called alternately, in step with OPENED.
THEOREM LinkUpperInStep == Spec => []UpperInStep
<1>1. LinkInv => UpperInStep
  BY DEF LinkInv, Settled, UpperInStep
<1> QED
  BY <1>1, LinkInvInit, LinkInvNext, PTL DEF Spec

=============================================================================
