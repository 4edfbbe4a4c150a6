---------------------------- MODULE PppFsmProofs ----------------------------
(***************************************************************************)
(* What every call into the automaton of fsm.c preserves, for all values   *)
(* of the retransmission limits, the identifier width and the options.     *)
(***************************************************************************)
EXTENDS PppFsm, TLAPS

USE SMTT(30), ZenonT(30)

\* The callbacks that one call makes on an automaton that had none pending.
CallShapes == {<< >>, << "up" >>, << "down" >>, << "finished" >>, << "down", "finished" >>}

\* The call took f to r: the upper layers hear of every change of OPENED and of
\* nothing else, and the end of the layer is only reported from a settled state.
Reported(f, r) ==
  /\ r.calls \in CallShapes
  /\ r.calls = << "up" >> => f.state # "OPENED" /\ r.state = "OPENED"
  /\ r.calls \in {<< "down" >>, << "down", "finished" >>} =>
       f.state = "OPENED" /\ r.state # "OPENED"
  /\ r.calls \in {<< >>, << "finished" >>} => (f.state = "OPENED" <=> r.state = "OPENED")
  /\ r.calls \in {<< "finished" >>, << "down", "finished" >>} => r.state \in {"CLOSED", "STOPPED"}

Quiet(f) == f \in Fsm /\ FsmOK(f) /\ f.calls = << >>
Sound(f, r) == r \in Fsm /\ FsmOK(r) /\ Reported(f, r)

----------------------------------------------------------------------------
\* Identifiers stay in a byte.
LEMMA NextIdType == \A f \in Fsm : NextId(f) \in 0..IdMod-1
<1> SUFFICES ASSUME NEW f \in Fsm PROVE NextId(f) \in 0..IdMod-1
  OBVIOUS
<1>1. f.id \in 0..IdMod-1
  BY DEF Fsm
<1> QED
  BY <1>1, FsmAssumption, SMT DEF NextId

\* fsm_sdata changes nothing but the output.
LEMMA SDataFacts ==
  ASSUME NEW f \in Fsm, NEW code \in Codes, NEW id \in 0..IdMod-1, NEW val \in Vals \cup {NoVal}
  PROVE  LET r == SData(f, code, id, val)
         IN /\ r \in Fsm /\ r.state = f.state /\ r.timer = f.timer
            /\ r.seen_ack = f.seen_ack /\ r.calls = f.calls /\ r.nakloops = f.nakloops
            /\ r.allow = f.allow
<1>1. [code |-> code, id |-> id, val |-> val] \in Packets
  BY DEF Packets
<1>2. Append(f.out, [code |-> code, id |-> id, val |-> val]) \in Seq(Packets)
  BY <1>1 DEF Fsm
<1> QED
  BY <1>2, ZenonT(30) DEF SData, Fsm

\* A callback changes nothing but the list of calls.
LEMMA CallbackFacts ==
  ASSUME NEW f \in Fsm, NEW c \in {"up", "down", "finished"}
  PROVE  LET r == Callback(f, c)
         IN /\ r \in Fsm /\ r.state = f.state /\ r.timer = f.timer
            /\ r.seen_ack = f.seen_ack /\ r.calls = Append(f.calls, c)
            /\ r.nakloops = f.nakloops /\ r.allow = f.allow
<1>1. Append(f.calls, c) \in Seq({"up", "down", "finished"})
  BY DEF Fsm
<1> QED
  BY <1>1, ZenonT(30) DEF Callback, Fsm

\* fsm_sconfreq starts the timer, forgets the last answer and keeps the state.
LEMMA SConfReqFacts ==
  ASSUME NEW f \in Fsm, NEW retransmit \in BOOLEAN
  PROVE  LET r == SConfReq(f, retransmit)
         IN /\ r \in Fsm /\ r.state = f.state /\ r.timer = f.timer + 1
            /\ r.seen_ack = 0 /\ r.calls = f.calls /\ r.allow = f.allow
<1> DEFINE g == IF f.state \in Negotiating THEN f
                ELSE [ResetCI(f) EXCEPT !.nakloops = 0, !.rnakloops = 0]
           h == IF retransmit THEN g
                ELSE [g EXCEPT !.retransmits = MaxConfReqs, !.id = NextId(g), !.reqid = NextId(g)]
           i == [h EXCEPT !.seen_ack = 0, !.retransmits = @ - 1]
<1>1. g \in Fsm /\ g.state = f.state /\ g.timer = f.timer /\ g.calls = f.calls /\ g.allow = f.allow
  BY ZenonT(30) DEF ResetCI, Fsm
<1> HIDE DEF g
<1>2. h \in Fsm /\ h.state = g.state /\ h.timer = g.timer /\ h.calls = g.calls /\ h.allow = g.allow
  <2>1. NextId(g) \in 0..IdMod-1 /\ MaxConfReqs \in Int
    BY <1>1, NextIdType, FsmAssumption
  <2>2. CASE retransmit
    BY <2>2, <1>1
  <2>3. CASE ~retransmit
    BY <2>1, <2>3, <1>1, ZenonT(30) DEF Fsm
  <2> QED
    BY <2>2, <2>3
<1> HIDE DEF h
<1>3. /\ i \in Fsm /\ i.state = h.state /\ i.timer = h.timer /\ i.calls = h.calls
      /\ i.seen_ack = 0 /\ i.allow = h.allow
  <2>1. h.retransmits - 1 \in Int
    BY <1>2 DEF Fsm
  <2> QED
    BY <1>2, <2>1, ZenonT(30) DEF Fsm
<1> HIDE DEF i
<1>4. h.reqid \in 0..IdMod-1 /\ h.got \in Vals \cup {NoVal} /\ "CONFREQ" \in Codes
  BY <1>2 DEF Fsm, Codes
<1> DEFINE s == SData(i, "CONFREQ", h.reqid, h.got)
<1>5. /\ s \in Fsm /\ s.state = i.state /\ s.timer = i.timer /\ s.calls = i.calls
      /\ s.seen_ack = i.seen_ack /\ s.allow = i.allow
  BY <1>3, <1>4, SDataFacts
<1>6. SConfReq(f, retransmit) = TimeoutOn(s)
  BY DEF SConfReq, g, h, i
<1> HIDE DEF s
<1>7. /\ TimeoutOn(s) \in Fsm /\ TimeoutOn(s).state = s.state /\ TimeoutOn(s).timer = s.timer + 1
      /\ TimeoutOn(s).calls = s.calls /\ TimeoutOn(s).seen_ack = s.seen_ack
      /\ TimeoutOn(s).allow = s.allow
  <2>1. s.timer + 1 \in Nat
    BY <1>5 DEF Fsm
  <2> QED
    BY <1>5, <2>1, ZenonT(30) DEF TimeoutOn, Fsm
<1> QED
  BY <1>1, <1>2, <1>3, <1>5, <1>6, <1>7

\* TIMEOUT and UNTIMEOUT change nothing but the number of pending entries.
LEMMA TimerFacts ==
  ASSUME NEW f \in Fsm
  PROVE  /\ TimeoutOn(f) = [f EXCEPT !.timer = f.timer + 1]
         /\ TimeoutOn(f) \in Fsm /\ TimeoutOn(f).timer = f.timer + 1
         /\ TimeoutOn(f).state = f.state /\ TimeoutOn(f).calls = f.calls
         /\ TimeoutOn(f).seen_ack = f.seen_ack
         /\ Untimeout(f) \in Fsm /\ (f.timer = 1 => Untimeout(f).timer = 0)
         /\ Untimeout(f).state = f.state /\ Untimeout(f).calls = f.calls
         /\ Untimeout(f).seen_ack = f.seen_ack
<1> DEFINE n == IF f.timer > 0 THEN f.timer - 1 ELSE 0
<1>1. f.timer + 1 \in Nat /\ n \in Nat /\ (f.timer = 1 => n = 0)
  BY DEF Fsm
<1>2. Untimeout(f) = [f EXCEPT !.timer = n] /\ TimeoutOn(f) = [f EXCEPT !.timer = f.timer + 1]
  BY DEF Untimeout, TimeoutOn
<1> HIDE DEF n
<1> QED
  BY <1>1, <1>2, ZenonT(30) DEF Fsm

\* A change of the state, or of what counts answers, changes nothing else.
LEMMA StateFacts ==
  ASSUME NEW f \in Fsm, NEW s \in FsmStates
  PROVE  LET r == [f EXCEPT !.state = s]
         IN r \in Fsm /\ r.state = s /\ r.timer = f.timer /\ r.calls = f.calls
            /\ r.seen_ack = f.seen_ack
BY ZenonT(30) DEF Fsm

\* Renegotiation ends in REQSENT with the timer started.
LEMMA RenegotiateFacts ==
  ASSUME NEW f \in Fsm
  PROVE  LET r == Renegotiate(f)
         IN /\ r \in Fsm /\ r.state = "REQSENT" /\ r.timer = f.timer + 1
            /\ r.calls = f.calls /\ r.seen_ack = 0
<1> DEFINE s == SConfReq(f, FALSE)
<1>1. s \in Fsm /\ s.timer = f.timer + 1 /\ s.calls = f.calls /\ s.seen_ack = 0
  BY SConfReqFacts, ZenonT(30)
<1>2. "REQSENT" \in FsmStates
  BY DEF FsmStates, Timed, Negotiating
<1>3. Renegotiate(f) = [s EXCEPT !.state = "REQSENT"]
  BY DEF Renegotiate
<1> HIDE DEF s
<1> QED
  BY <1>1, <1>2, <1>3, StateFacts

\* The lists of calls that occur.
LEMMA CallLists ==
  /\ Append(<< >>, "up") = << "up" >> /\ Append(<< >>, "down") = << "down" >>
  /\ Append(<< >>, "finished") = << "finished" >>
  /\ Append(<< "down" >>, "finished") = << "down", "finished" >>
  /\ << >> # << "up" >> /\ << >> # << "down" >> /\ << >> # << "finished" >>
  /\ << >> # << "down", "finished" >> /\ << "up" >> # << "down" >>
  /\ << "up" >> # << "finished" >> /\ << "up" >> # << "down", "finished" >>
  /\ << "down" >> # << "finished" >> /\ << "down" >> # << "down", "finished" >>
  /\ << "finished" >> # << "down", "finished" >>
<1>1. Append(<< >>, "up") = << "up" >> /\ Append(<< >>, "down") = << "down" >>
  OBVIOUS
<1>2. Append(<< >>, "finished") = << "finished" >>
  OBVIOUS
<1>3. Append(<< "down" >>, "finished") = << "down", "finished" >>
  <2> DEFINE S == {"down", "finished"}
             s == Append(<< "down" >>, "finished")
             t == << "down", "finished" >>
  <2>1. << "down" >> \in Seq(S) /\ t \in Seq(S) /\ Len(<< "down" >>) = 1 /\ Len(t) = 2
    OBVIOUS
  <2>2. s \in Seq(S) /\ Len(s) = 2 /\ s[1] = "down" /\ s[2] = "finished"
    BY <2>1, SMTT(30)
  <2>3. t[1] = "down" /\ t[2] = "finished"
    OBVIOUS
  <2>4. \A i \in 1..Len(s) : s[i] = t[i]
    BY <2>2, <2>3
  <2> HIDE DEF s, t, S
  <2>5. s = t
    BY <2>1, <2>2, <2>4, SMTT(30)
  <2> QED
    BY <2>5 DEF s, t
<1>4. /\ Len(<< >>) = 0 /\ Len(<< "up" >>) = 1 /\ Len(<< "down" >>) = 1
      /\ Len(<< "finished" >>) = 1 /\ Len(<< "down", "finished" >>) = 2
  OBVIOUS
<1>5. << "up" >>[1] = "up" /\ << "down" >>[1] = "down" /\ << "finished" >>[1] = "finished"
  OBVIOUS
<1>6. << "up" >> # << "down" >> /\ << "up" >> # << "finished" >> /\ << "down" >> # << "finished" >>
  BY <1>5
<1> QED
  BY <1>1, <1>2, <1>3, <1>4, <1>6

----------------------------------------------------------------------------
\* What the proofs below follow through a call: r is an automaton in state st with tm
\* timer entries, the callbacks cs and the answer flag sa.
Is(r, st, tm, cs, sa) ==
  r \in Fsm /\ r.state = st /\ r.timer = tm /\ r.calls = cs /\ r.seen_ack = sa

\* An assignment to f->state.
LEMMA IsState ==
  ASSUME NEW f, NEW st, NEW tm, NEW cs, NEW sa, Is(f, st, tm, cs, sa), NEW s \in FsmStates
  PROVE  Is([f EXCEPT !.state = s], s, tm, cs, sa)
BY StateFacts DEF Is

\* fsm_sdata.
LEMMA IsSData ==
  ASSUME NEW f, NEW st, NEW tm, NEW cs, NEW sa, Is(f, st, tm, cs, sa),
         NEW code \in Codes, NEW id \in 0..IdMod-1, NEW val \in Vals \cup {NoVal}
  PROVE  Is(SData(f, code, id, val), st, tm, cs, sa)
BY SDataFacts DEF Is

\* One callback, or down and then finished.
LEMMA IsCallback ==
  ASSUME NEW f, NEW st, NEW tm, NEW sa
  PROVE  /\ Is(f, st, tm, << >>, sa) => Is(Callback(f, "up"), st, tm, << "up" >>, sa)
         /\ Is(f, st, tm, << >>, sa) => Is(Callback(f, "down"), st, tm, << "down" >>, sa)
         /\ Is(f, st, tm, << >>, sa) => Is(Callback(f, "finished"), st, tm, << "finished" >>, sa)
         /\ Is(f, st, tm, << "down" >>, sa) =>
              Is(Callback(f, "finished"), st, tm, << "down", "finished" >>, sa)
<1>1. ASSUME Is(f, st, tm, << >>, sa) PROVE Is(Callback(f, "up"), st, tm, << "up" >>, sa)
  <2>1. f \in Fsm /\ Append(f.calls, "up") = << "up" >>
    BY <1>1, CallLists DEF Is
  <2> QED
    BY <1>1, <2>1, CallbackFacts DEF Is
<1>2. ASSUME Is(f, st, tm, << >>, sa) PROVE Is(Callback(f, "down"), st, tm, << "down" >>, sa)
  <2>1. f \in Fsm /\ Append(f.calls, "down") = << "down" >>
    BY <1>2, CallLists DEF Is
  <2> QED
    BY <1>2, <2>1, CallbackFacts DEF Is
<1>3. ASSUME Is(f, st, tm, << >>, sa) PROVE Is(Callback(f, "finished"), st, tm, << "finished" >>, sa)
  <2>1. f \in Fsm /\ Append(f.calls, "finished") = << "finished" >>
    BY <1>3, CallLists DEF Is
  <2> QED
    BY <1>3, <2>1, CallbackFacts DEF Is
<1>4. ASSUME Is(f, st, tm, << "down" >>, sa) PROVE Is(Callback(f, "finished"), st, tm, << "down", "finished" >>, sa)
  <2>1. f \in Fsm /\ Append(f.calls, "finished") = << "down", "finished" >>
    BY <1>4, CallLists DEF Is
  <2> QED
    BY <1>4, <2>1, CallbackFacts, ZenonT(30) DEF Is
<1> QED
  BY <1>1, <1>2, <1>3, <1>4

\* TIMEOUT with no entry pending, UNTIMEOUT with one.
LEMMA IsTimer ==
  ASSUME NEW f, NEW st, NEW cs, NEW sa
  PROVE  /\ Is(f, st, 0, cs, sa) => Is(TimeoutOn(f), st, 1, cs, sa)
         /\ Is(f, st, 1, cs, sa) => Is(Untimeout(f), st, 0, cs, sa)
<1>1. Is(f, st, 0, cs, sa) => Is(TimeoutOn(f), st, 1, cs, sa)
  BY TimerFacts DEF Is
<1>2. Is(f, st, 1, cs, sa) => Is(Untimeout(f), st, 0, cs, sa)
  BY TimerFacts DEF Is
<1> QED
  BY <1>1, <1>2

\* A new Configure-Request from a state without a timer.
LEMMA IsRenegotiate ==
  ASSUME NEW f, NEW st, NEW cs, NEW sa, Is(f, st, 0, cs, sa)
  PROVE  Is(Renegotiate(f), "REQSENT", 1, cs, 0)
<1>1. f \in Fsm /\ f.timer + 1 = 1 /\ f.calls = cs
  BY DEF Is
<1> QED
  BY <1>1, RenegotiateFacts DEF Is

\* fsm_sconfreq from a state without a timer.
LEMMA IsSConfReq ==
  ASSUME NEW f, NEW st, NEW cs, NEW sa, Is(f, st, 0, cs, sa), NEW retransmit \in BOOLEAN
  PROVE  Is(SConfReq(f, retransmit), st, 1, cs, 0)
<1>1. f \in Fsm /\ f.timer + 1 = 1 /\ f.calls = cs /\ f.state = st
  BY DEF Is
<1> QED
  BY <1>1, SConfReqFacts DEF Is

\* Changes of the counters, the identifiers and the negotiated values.
LEMMA IsRequest ==
  ASSUME NEW f, NEW st, NEW tm, NEW cs, NEW sa, Is(f, st, tm, cs, sa),
         NEW n \in Int, NEW i \in 0..IdMod-1
  PROVE  Is([f EXCEPT !.retransmits = n, !.id = i, !.reqid = i], st, tm, cs, sa)
BY ZenonT(30) DEF Is, Fsm

\* fsm_rconfreq records what it answered.
LEMMA IsAnswered ==
  ASSUME NEW f, NEW st, NEW tm, NEW cs, NEW sa, Is(f, st, tm, cs, sa),
         NEW n \in Nat, NEW v \in Vals \cup {NoVal}, NEW s \in FsmStates
  PROVE  /\ Is([f EXCEPT !.state = s, !.nakloops = n, !.his = v], s, tm, cs, sa)
         /\ Is([f EXCEPT !.state = s, !.nakloops = n], s, tm, cs, sa)
BY ZenonT(30) DEF Is, Fsm

\* fsm_rconfack and fsm_rconfnakrej record that an answer was seen.
LEMMA IsSeen ==
  ASSUME NEW f, NEW st, NEW tm, NEW cs, NEW sa, Is(f, st, tm, cs, sa),
         NEW n \in Nat, NEW v \in Vals \cup {NoVal}
  PROVE  /\ Is([f EXCEPT !.seen_ack = 1, !.rnakloops = n], st, tm, cs, 1)
         /\ Is([f EXCEPT !.rnakloops = n], st, tm, cs, sa)
         /\ Is([f EXCEPT !.rnakloops = n, !.got = v, !.seen_ack = 1], st, tm, cs, 1)
BY ZenonT(30) DEF Is, Fsm

\* A change of state together with the retransmission counter.
LEMMA IsRetransmits ==
  ASSUME NEW f, NEW st, NEW tm, NEW cs, NEW sa, Is(f, st, tm, cs, sa),
         NEW n \in Int, NEW s \in FsmStates
  PROVE  Is([f EXCEPT !.state = s, !.retransmits = n], s, tm, cs, sa)
BY ZenonT(30) DEF Is, Fsm

\* Between two calls the timer runs exactly in the timed states.
LEMMA IsQuiet ==
  ASSUME NEW f, Quiet(f)
  PROVE  /\ f \in Fsm /\ f.state \in FsmStates
         /\ f.state \in Timed => Is(f, f.state, 1, << >>, f.seen_ack)
         /\ f.state \notin Timed => Is(f, f.state, 0, << >>, f.seen_ack)
         /\ f.state \in {"ACKRCVD", "OPENED"} => f.seen_ack = 1
BY DEF Quiet, Is, FsmOK, Fsm

\* The ways in which a call may end.
LEMMA EndsSilent ==
  ASSUME NEW f, Quiet(f), NEW r, NEW st, NEW sa, NEW tm,
         Is(r, st, tm, << >>, sa), tm = IF st \in Timed THEN 1 ELSE 0,
         st \in {"ACKRCVD", "OPENED"} => sa = 1, f.state = "OPENED" <=> st = "OPENED"
  PROVE  Sound(f, r)
BY CallLists DEF Sound, Is, FsmOK, Reported, CallShapes

\* The call opened the layer.
LEMMA EndsUp ==
  ASSUME NEW f, Quiet(f), f.state # "OPENED", NEW r, Is(r, "OPENED", 0, << "up" >>, 1)
  PROVE  Sound(f, r)
BY CallLists DEF Sound, Is, FsmOK, Reported, CallShapes, Timed, Negotiating

\* The call left OPENED for a state in which the layer goes on.
LEMMA EndsDown ==
  ASSUME NEW f, Quiet(f), f.state = "OPENED", NEW r, NEW sa, NEW tm,
         NEW st \in {"STARTING", "REQSENT", "ACKSENT", "CLOSING", "STOPPING"},
         Is(r, st, tm, << "down" >>, sa), tm = IF st \in Timed THEN 1 ELSE 0
  PROVE  Sound(f, r)
BY CallLists DEF Sound, Is, FsmOK, Reported, CallShapes

\* The call ended the layer.
LEMMA EndsFinished ==
  ASSUME NEW f, Quiet(f), NEW r, NEW sa, NEW st \in {"CLOSED", "STOPPED"},
         \/ Is(r, st, 0, << "finished" >>, sa) /\ f.state # "OPENED"
         \/ Is(r, st, 0, << "down", "finished" >>, sa) /\ f.state = "OPENED"
  PROVE  Sound(f, r)
BY CallLists, ZenonT(30) DEF Sound, Is, FsmOK, Reported, CallShapes, Timed, Negotiating

----------------------------------------------------------------------------
\* One lemma for each entry point of fsm.c.

\* fsm_lowerup.
LEMMA LowerUpSound ==
  ASSUME NEW f, Quiet(f)
  PROVE  Sound(f, LowerUp(f))
<1> USE DEF FsmStates, Timed, Negotiating
<1> DEFINE r == LowerUp(f)
<1>10. CASE f.state = "INITIAL"
  <2>1. Is([f EXCEPT !.state = "CLOSED"], "CLOSED", 0, << >>, f.seen_ack)
    BY <1>10, IsQuiet, IsState, ZenonT(30)
  <2>2. Is(r, "CLOSED", 0, << >>, f.seen_ack)
    BY <1>10, <2>1 DEF LowerUp
  <2> QED
    BY <1>10, <2>2, EndsSilent, ZenonT(30)
<1>20. CASE f.state \notin {"INITIAL", "STARTING"}
  <2>1. r = f
    BY <1>20, IsQuiet DEF LowerUp
  <2> QED
    BY <1>20, <2>1, IsQuiet, EndsSilent, ZenonT(30)
<1>30. CASE f.state = "STARTING" /\ "SILENT" \in f.flags
  <2>1. Is([f EXCEPT !.state = "STOPPED"], "STOPPED", 0, << >>, f.seen_ack)
    BY <1>30, IsQuiet, IsState, ZenonT(30)
  <2>2. Is(r, "STOPPED", 0, << >>, f.seen_ack)
    BY <1>30, <2>1 DEF LowerUp
  <2> QED
    BY <1>30, <2>2, EndsSilent, ZenonT(30)
<1>40. CASE f.state = "STARTING" /\ "SILENT" \notin f.flags
  <2>1. Is(Renegotiate(f), "REQSENT", 1, << >>, 0)
    BY <1>40, IsQuiet, IsRenegotiate
  <2>2. Is(r, "REQSENT", 1, << >>, 0)
    BY <1>40, <2>1 DEF LowerUp
  <2> QED
    BY <1>40, <2>2, EndsSilent, ZenonT(30)
<1> QED
  BY <1>10, <1>20, <1>30, <1>40, IsQuiet

\* fsm_lowerdown.
LEMMA LowerDownSound ==
  ASSUME NEW f, Quiet(f)
  PROVE  Sound(f, LowerDown(f))
<1> USE DEF FsmStates, Timed, Negotiating
<1> DEFINE r == LowerDown(f)
<1>10. CASE f.state \in {"INITIAL", "CLOSED"}
  <2>1. Is([f EXCEPT !.state = "INITIAL"], "INITIAL", 0, << >>, f.seen_ack)
    BY <1>10, IsQuiet, IsState, ZenonT(30)
  <2>2. Is(r, "INITIAL", 0, << >>, f.seen_ack)
    BY <1>10, <2>1 DEF LowerDown
  <2> QED
    BY <1>10, <2>2, EndsSilent, ZenonT(30)
<1>20. CASE f.state \in {"STOPPED", "STARTING"}
  <2>1. Is([f EXCEPT !.state = "STARTING"], "STARTING", 0, << >>, f.seen_ack)
    BY <1>20, IsQuiet, IsState, ZenonT(30)
  <2>2. Is(r, "STARTING", 0, << >>, f.seen_ack)
    BY <1>20, <2>1 DEF LowerDown
  <2> QED
    BY <1>20, <2>2, EndsSilent, ZenonT(30)
<1>30. CASE f.state = "CLOSING"
  <2>1. Is(Untimeout(f), f.state, 0, << >>, f.seen_ack)
    BY <1>30, IsQuiet, IsTimer
  <2>2. Is([Untimeout(f) EXCEPT !.state = "INITIAL"], "INITIAL", 0, << >>, f.seen_ack)
    BY <2>1, IsState, ZenonT(30)
  <2>3. Is(r, "INITIAL", 0, << >>, f.seen_ack)
    BY <1>30, <2>2 DEF LowerDown
  <2> QED
    BY <1>30, <2>3, EndsSilent, ZenonT(30)
<1>40. CASE f.state \in Timed \ {"CLOSING"}
  <2>1. Is(Untimeout(f), f.state, 0, << >>, f.seen_ack)
    BY <1>40, IsQuiet, IsTimer
  <2>2. Is([Untimeout(f) EXCEPT !.state = "STARTING"], "STARTING", 0, << >>, f.seen_ack)
    BY <2>1, IsState, ZenonT(30)
  <2>3. Is(r, "STARTING", 0, << >>, f.seen_ack)
    BY <1>40, <2>2 DEF LowerDown
  <2> QED
    BY <1>40, <2>3, EndsSilent, ZenonT(30)
<1>50. CASE f.state = "OPENED"
  <2>1. Is(Callback(f, "down"), f.state, 0, << "down" >>, f.seen_ack)
    BY <1>50, IsQuiet, IsCallback
  <2>2. Is([Callback(f, "down") EXCEPT !.state = "STARTING"], "STARTING", 0, << "down" >>, f.seen_ack)
    BY <2>1, IsState, ZenonT(30)
  <2>3. Is(r, "STARTING", 0, << "down" >>, f.seen_ack)
    BY <1>50, <2>2 DEF LowerDown
  <2> QED
    BY <1>50, <2>3, EndsDown
<1> QED
  BY <1>10, <1>20, <1>30, <1>40, <1>50, IsQuiet

\* fsm_open.
LEMMA OpenSound ==
  ASSUME NEW f, Quiet(f)
  PROVE  Sound(f, Open(f))
<1> USE DEF FsmStates, Timed, Negotiating
<1> DEFINE r == Open(f)
<1>10. CASE f.state = "INITIAL"
  <2>1. Is([f EXCEPT !.state = "STARTING"], "STARTING", 0, << >>, f.seen_ack)
    BY <1>10, IsQuiet, IsState, ZenonT(30)
  <2>2. Is(r, "STARTING", 0, << >>, f.seen_ack)
    BY <1>10, <2>1 DEF Open
  <2> QED
    BY <1>10, <2>2, EndsSilent, ZenonT(30)
<1>20. CASE f.state = "CLOSED" /\ "SILENT" \in f.flags
  <2>1. Is([f EXCEPT !.state = "STOPPED"], "STOPPED", 0, << >>, f.seen_ack)
    BY <1>20, IsQuiet, IsState, ZenonT(30)
  <2>2. Is(r, "STOPPED", 0, << >>, f.seen_ack)
    BY <1>20, <2>1 DEF Open
  <2> QED
    BY <1>20, <2>2, EndsSilent, ZenonT(30)
<1>30. CASE f.state = "CLOSED" /\ "SILENT" \notin f.flags
  <2>1. Is(Renegotiate(f), "REQSENT", 1, << >>, 0)
    BY <1>30, IsQuiet, IsRenegotiate
  <2>2. Is(r, "REQSENT", 1, << >>, 0)
    BY <1>30, <2>1 DEF Open
  <2> QED
    BY <1>30, <2>2, EndsSilent, ZenonT(30)
<1>40. CASE f.state = "CLOSING"
  <2>1. Is([f EXCEPT !.state = "STOPPING"], "STOPPING", 1, << >>, f.seen_ack)
    BY <1>40, IsQuiet, IsState, ZenonT(30)
  <2>2. Is(r, "STOPPING", 1, << >>, f.seen_ack)
    BY <1>40, <2>1 DEF Open
  <2> QED
    BY <1>40, <2>2, EndsSilent, ZenonT(30)
<1>50. CASE f.state \notin {"INITIAL", "CLOSED", "CLOSING"}
  <2>1. r = f
    BY <1>50, IsQuiet DEF Open
  <2> QED
    BY <1>50, <2>1, IsQuiet, EndsSilent, ZenonT(30)
<1> QED
  BY <1>10, <1>20, <1>30, <1>40, <1>50, IsQuiet

\* terminate_layer.
LEMMA TerminateLayerSound ==
  ASSUME NEW f, Quiet(f), f.state \in Negotiating \cup {"OPENED"},
         NEW next \in {"CLOSING", "STOPPING"}
  PROVE  Sound(f, TerminateLayer(f, next)) /\ TerminateLayer(f, next).state # "OPENED"
<1> USE DEF FsmStates, Timed, Negotiating
<1> DEFINE g == IF f.state # "OPENED" THEN Untimeout(f) ELSE Callback(f, "down")
           h0 == [g EXCEPT !.retransmits = MaxTermReqs, !.id = NextId(g), !.reqid = NextId(g)]
           h == SData(h0, "TERMREQ", NextId(g), NoVal)
           last == IF next = "CLOSING" THEN "CLOSED" ELSE "STOPPED"
           cs == IF f.state = "OPENED" THEN << "down" >> ELSE << >>
<1>1. Is(g, f.state, 0, cs, f.seen_ack)
  BY IsQuiet, IsTimer, IsCallback
<1> HIDE DEF g
<1>2. NextId(g) \in 0..IdMod-1 /\ MaxTermReqs \in Int
  BY <1>1, NextIdType, FsmAssumption DEF Is
<1>3. Is(h0, f.state, 0, cs, f.seen_ack)
  BY <1>1, <1>2, IsRequest, ZenonT(30)
<1> HIDE DEF h0
<1>4. Is(h, f.state, 0, cs, f.seen_ack)
  BY <1>2, <1>3, IsSData DEF Codes
<1>5. /\ MaxTermReqs = 0 => TerminateLayer(f, next) = Callback([h EXCEPT !.state = last], "finished")
      /\ MaxTermReqs # 0 =>
           TerminateLayer(f, next) = TimeoutOn([h EXCEPT !.state = next, !.retransmits = @ - 1])
  BY DEF TerminateLayer, g, h0
<1> HIDE DEF h
<1>6. CASE MaxTermReqs = 0
  <2> DEFINE k == [h EXCEPT !.state = last]
  <2>1. Is(k, last, 0, cs, f.seen_ack)
    BY <1>4, IsState, ZenonT(30)
  <2>2. TerminateLayer(f, next) = Callback(k, "finished")
    BY <1>5, <1>6
  <2> HIDE DEF k
  <2>a. TerminateLayer(f, next).state # "OPENED"
    <3>1. k \in Fsm /\ k.state = last
      BY <2>1 DEF Is
    <3>2. Callback(k, "finished").state = last
      BY <3>1, CallbackFacts, ZenonT(30)
    <3> QED
      BY <2>2, <3>2
  <2>3. ASSUME f.state = "OPENED" PROVE Sound(f, TerminateLayer(f, next))
    <3>1. Is(Callback(k, "finished"), last, 0, << "down", "finished" >>, f.seen_ack)
      BY <2>1, <2>3, IsCallback
    <3> QED
      BY <2>2, <2>3, <3>1, EndsFinished
  <2>4. ASSUME f.state # "OPENED" PROVE Sound(f, TerminateLayer(f, next))
    <3>1. Is(Callback(k, "finished"), last, 0, << "finished" >>, f.seen_ack)
      BY <2>1, <2>4, IsCallback
    <3> QED
      BY <2>2, <2>4, <3>1, EndsFinished
  <2> QED
    BY <2>a, <2>3, <2>4
<1>7. CASE MaxTermReqs # 0
  <2> DEFINE k == [h EXCEPT !.state = next, !.retransmits = @ - 1]
  <2>1. h.retransmits - 1 \in Int
    BY <1>4 DEF Fsm, Is
  <2>2. Is(k, next, 0, cs, f.seen_ack)
    BY <1>4, <2>1, IsRetransmits, ZenonT(30)
  <2>3. TerminateLayer(f, next) = TimeoutOn(k)
    BY <1>5, <1>7
  <2> HIDE DEF k
  <2>4. Is(TimeoutOn(k), next, 1, cs, f.seen_ack)
    BY <2>2, IsTimer
  <2>a. TerminateLayer(f, next).state # "OPENED"
    BY <2>3, <2>4 DEF Is
  <2>5. ASSUME f.state = "OPENED" PROVE Sound(f, TerminateLayer(f, next))
    BY <2>3, <2>4, <2>5, EndsDown
  <2>6. ASSUME f.state # "OPENED" PROVE Sound(f, TerminateLayer(f, next))
    BY <2>3, <2>4, <2>6, EndsSilent, ZenonT(30)
  <2> QED
    BY <2>a, <2>5, <2>6
<1> QED
  BY <1>6, <1>7

\* fsm_close.
LEMMA CloseSound ==
  ASSUME NEW f, Quiet(f)
  PROVE  Sound(f, Close(f))
<1> USE DEF FsmStates, Timed, Negotiating
<1>1. CASE f.state \in Negotiating \cup {"OPENED"}
  <2>1. Close(f) = TerminateLayer(f, "CLOSING")
    BY <1>1 DEF Close
  <2> QED
    BY <1>1, <2>1, TerminateLayerSound
<1> DEFINE r == Close(f)
<1>10. CASE f.state = "STARTING"
  <2>1. Is([f EXCEPT !.state = "INITIAL"], "INITIAL", 0, << >>, f.seen_ack)
    BY <1>10, IsQuiet, IsState, ZenonT(30)
  <2>2. Is(r, "INITIAL", 0, << >>, f.seen_ack)
    BY <1>10, <2>1 DEF Close
  <2> QED
    BY <1>10, <2>2, EndsSilent, ZenonT(30)
<1>20. CASE f.state = "STOPPED"
  <2>1. Is([f EXCEPT !.state = "CLOSED"], "CLOSED", 0, << >>, f.seen_ack)
    BY <1>20, IsQuiet, IsState, ZenonT(30)
  <2>2. Is(r, "CLOSED", 0, << >>, f.seen_ack)
    BY <1>20, <2>1 DEF Close
  <2> QED
    BY <1>20, <2>2, EndsSilent, ZenonT(30)
<1>30. CASE f.state = "STOPPING"
  <2>1. Is([f EXCEPT !.state = "CLOSING"], "CLOSING", 1, << >>, f.seen_ack)
    BY <1>30, IsQuiet, IsState, ZenonT(30)
  <2>2. Is(r, "CLOSING", 1, << >>, f.seen_ack)
    BY <1>30, <2>1 DEF Close
  <2> QED
    BY <1>30, <2>2, EndsSilent, ZenonT(30)
<1>40. CASE f.state \in {"INITIAL", "CLOSED", "CLOSING"}
  <2>1. r = f
    BY <1>40, IsQuiet DEF Close
  <2> QED
    BY <1>40, <2>1, IsQuiet, EndsSilent, ZenonT(30)
<1> QED
  BY <1>10, <1>20, <1>30, <1>40, IsQuiet, <1>1

\* fsm_timeout, called with the automaton's only entry off the callout list.
LEMMA ExpireSound ==
  ASSUME NEW f, Quiet(f), f.timer > 0
  PROVE  Sound(f, Expire(f))
<1> USE DEF FsmStates, Timed, Negotiating
<1> DEFINE g == [f EXCEPT !.timer = @ - 1]
           done == IF f.state = "CLOSING" THEN "CLOSED" ELSE "STOPPED"
<1>1. f \in Fsm /\ f.state \in Timed /\ f.timer - 1 = 0
  BY DEF Quiet, FsmOK
<1>2. Is(g, f.state, 0, << >>, f.seen_ack)
  <2>1. g = [f EXCEPT !.timer = 0]
    BY <1>1
  <2>2. Is([f EXCEPT !.timer = 0], f.state, 0, << >>, f.seen_ack)
    BY DEF Quiet, Is, Fsm
  <2> QED
    BY <2>1, <2>2
<1>3. Is([g EXCEPT !.state = done], done, 0, << >>, f.seen_ack)
  BY <1>2, IsState, ZenonT(30)
<1>4. CASE f.retransmits <= 0 /\ f.state \in Negotiating /\ "PASSIVE" \in f.flags
  <2>1. Expire(f) = [g EXCEPT !.state = done]
    BY <1>4 DEF Expire
  <2>2. Is(Expire(f), "STOPPED", 0, << >>, f.seen_ack)
    BY <1>3, <1>4, <2>1
  <2> QED
    BY <1>4, <2>2, EndsSilent
<1>5. CASE f.retransmits <= 0 /\ ~(f.state \in Negotiating /\ "PASSIVE" \in f.flags)
  <2>1. Expire(f) = Callback([g EXCEPT !.state = done], "finished")
    BY <1>1, <1>5 DEF Expire
  <2>2. Is(Callback([g EXCEPT !.state = done], "finished"), done, 0, << "finished" >>, f.seen_ack)
    BY <1>3, IsCallback
  <2> QED
    BY <1>1, <2>1, <2>2, EndsFinished
<1>6. CASE ~(f.retransmits <= 0) /\ f.state \in Negotiating
  <2> DEFINE next == IF f.state = "ACKRCVD" THEN "REQSENT" ELSE f.state
             h == SConfReq(g, TRUE)
  <2>1. Is(h, f.state, 1, << >>, 0)
    BY <1>2, IsSConfReq, ZenonT(30)
  <2>2. Expire(f) = [h EXCEPT !.state = next]
    BY <1>6 DEF Expire
  <2> HIDE DEF h
  <2>3. Is([h EXCEPT !.state = next], next, 1, << >>, 0)
    BY <1>6, <2>1, IsState, ZenonT(30)
  <2> QED
    BY <1>6, <2>2, <2>3, EndsSilent, ZenonT(30)
<1>7. CASE ~(f.retransmits <= 0) /\ f.state \in {"CLOSING", "STOPPING"}
  <2> DEFINE n == f.retransmits - 1
             h == [g EXCEPT !.retransmits = n, !.id = NextId(g), !.reqid = NextId(g)]
             k == SData(h, "TERMREQ", NextId(g), NoVal)
  <2>1. n \in Int
    BY <1>1 DEF Fsm
  <2>2. NextId(g) \in 0..IdMod-1
    BY <1>2, NextIdType DEF Is
  <2>3. g.retransmits = f.retransmits
    BY <1>1 DEF Fsm
  <2>4. Expire(f) = TimeoutOn(k)
    BY <1>7, <2>3 DEF Expire
  <2> HIDE DEF n, g
  <2>5. Is(h, f.state, 0, << >>, f.seen_ack)
    BY <1>2, <2>1, <2>2, IsRequest, ZenonT(30)
  <2> HIDE DEF h
  <2>6. Is(k, f.state, 0, << >>, f.seen_ack)
    BY <2>2, <2>5, IsSData DEF Codes
  <2> HIDE DEF k
  <2>7. Is(TimeoutOn(k), f.state, 1, << >>, f.seen_ack)
    BY <2>6, IsTimer
  <2> QED
    BY <1>7, <2>4, <2>7, EndsSilent, ZenonT(30)
<1> QED
  BY <1>1, <1>4, <1>5, <1>6, <1>7

\* The answer to a Configure-Request is one of the three codes, with a value.
LEMMA ReqCIType ==
  ASSUME NEW f \in Fsm, NEW val \in Vals \cup {NoVal}, NEW b \in BOOLEAN
  PROVE  /\ ReqCI(f, val, b).code \in {"CONFACK", "CONFNAK", "CONFREJ"}
         /\ ReqCI(f, val, b).val \in Vals \cup {NoVal}
<1>1. f.allow \in SUBSET Vals
  BY DEF Fsm
<1>2. CASE val = NoVal \/ val \in f.allow
  BY <1>2 DEF ReqCI
<1>3. CASE ~(val = NoVal \/ val \in f.allow) /\ (b \/ f.allow = {})
  BY <1>3 DEF ReqCI
<1>4. CASE ~(val = NoVal \/ val \in f.allow) /\ ~(b \/ f.allow = {})
  <2>1. (CHOOSE v \in f.allow : TRUE) \in f.allow
    BY <1>4
  <2> QED
    BY <1>1, <1>4, <2>1 DEF ReqCI
<1> QED
  BY <1>2, <1>3, <1>4

\* fsm_rconfreq.
LEMMA RConfReqSound ==
  ASSUME NEW f, Quiet(f), f.state \notin {"INITIAL", "STARTING"},
         NEW id \in 0..IdMod-1, NEW val \in Vals \cup {NoVal}
  PROVE  Sound(f, RConfReq(f, id, val))
<1> USE DEF FsmStates, Timed, Negotiating
<1> DEFINE g == IF f.state = "OPENED" THEN Renegotiate(Callback(f, "down"))
                ELSE IF f.state = "STOPPED" THEN Renegotiate(f) ELSE f
           tooMany == g.nakloops >= MaxNakLoops
           verdict == ReqCI(g, val, tooMany)
           h == SData(g, verdict.code, id, verdict.val)
           r == RConfReq(f, id, val)
           n == h.nakloops + 1
           m == IF verdict.code = "CONFNAK" THEN n ELSE h.nakloops
           next == IF g.state = "ACKRCVD" THEN "ACKRCVD" ELSE "REQSENT"
<1>1. CASE f.state = "CLOSED"
  <2>1. r = SData(f, "TERMACK", id, NoVal)
    BY <1>1 DEF RConfReq
  <2>2. Is(SData(f, "TERMACK", id, NoVal), "CLOSED", 0, << >>, f.seen_ack)
    BY <1>1, IsQuiet, IsSData DEF Codes
  <2> QED
    BY <1>1, <2>1, <2>2, EndsSilent, ZenonT(30)
<1>2. CASE f.state \in {"CLOSING", "STOPPING"}
  <2>1. r = f
    BY <1>2 DEF RConfReq
  <2> QED
    BY <1>2, <2>1, IsQuiet, EndsSilent, ZenonT(30)
<1>3. ASSUME f.state \notin {"CLOSED", "CLOSING", "STOPPING"}
      PROVE  Sound(f, r)
  <2>1. /\ verdict.code = "CONFACK" /\ g.state = "ACKRCVD" =>
             r = Callback(Agreed(Untimeout(h), "OPENED", val), "up")
        /\ verdict.code = "CONFACK" /\ g.state # "ACKRCVD" =>
             r = Agreed(h, "ACKSENT", val)
        /\ verdict.code # "CONFACK" =>
             r = [h EXCEPT !.state = next, !.nakloops = m]
    BY <1>3, ZenonT(30) DEF RConfReq
  <2>2. PICK st \in Negotiating, cs \in {<< >>, << "down" >>}, sa \in {0, 1} :
          /\ Is(g, st, 1, cs, sa)
          /\ f.state = "OPENED" => st = "REQSENT" /\ cs = << "down" >>
          /\ f.state # "OPENED" => cs = << >>
          /\ st = "ACKRCVD" => sa = 1
    <3>1. CASE f.state = "OPENED"
      <4>1. Is(Callback(f, "down"), "OPENED", 0, << "down" >>, f.seen_ack)
        BY <3>1, IsQuiet, IsCallback
      <4>2. Is(Renegotiate(Callback(f, "down")), "REQSENT", 1, << "down" >>, 0)
        BY <4>1, IsRenegotiate
      <4> QED
        BY <3>1, <4>2
    <3>2. CASE f.state = "STOPPED"
      <4>1. Is(Renegotiate(f), "REQSENT", 1, << >>, 0)
        BY <3>2, IsQuiet, IsRenegotiate
      <4> QED
        BY <3>2, <4>1
    <3>3. CASE f.state \in Negotiating
      <4>1. Is(f, f.state, 1, << >>, f.seen_ack)
        BY <3>3, IsQuiet
      <4>2. f.seen_ack \in {0, 1}
        BY <4>1 DEF Is, Fsm
      <4> QED
        BY <3>3, <4>1, <4>2, IsQuiet
    <3> QED
      BY <1>3, <3>1, <3>2, <3>3, IsQuiet
  <2>3. g \in Fsm /\ g.state = st
    BY <2>2 DEF Is
  <2> HIDE DEF g
  <2>4. /\ verdict.code \in {"CONFACK", "CONFNAK", "CONFREJ"}
        /\ verdict.val \in Vals \cup {NoVal}
    <3>1. tooMany \in BOOLEAN
      OBVIOUS
    <3> HIDE DEF tooMany
    <3> QED
      BY <2>3, <3>1, ReqCIType
  <2> HIDE DEF verdict
  <2>5. Is(h, st, 1, cs, sa)
    BY <2>2, <2>4, IsSData, ZenonT(30) DEF Codes
  <2>6. n \in Nat /\ h.nakloops \in Nat
    BY <2>5 DEF Is, Fsm
  <2> HIDE DEF h, n, r
  <2>7. m \in Nat
    BY <2>6
  <2>8. CASE verdict.code = "CONFACK" /\ g.state = "ACKRCVD"
    <3> DEFINE u == Untimeout(h)
               k == Agreed(u, "OPENED", val)
    <3>1. Is(u, "ACKRCVD", 0, << >>, 1)
      BY <2>2, <2>3, <2>5, <2>8, IsTimer
    <3>2. r = Callback(k, "up")
      BY <2>1, <2>8
    <3> HIDE DEF u
    <3>3. Is(k, "OPENED", 0, << >>, 1)
      BY <3>1, IsAnswered, ZenonT(30) DEF Agreed
    <3> HIDE DEF k
    <3>4. Is(r, "OPENED", 0, << "up" >>, 1)
      BY <3>2, <3>3, IsCallback
    <3> QED
      BY <2>2, <2>3, <2>8, <3>4, EndsUp
  <2>9. CASE verdict.code = "CONFACK" /\ g.state # "ACKRCVD"
    <3>1. Is(r, "ACKSENT", 1, cs, sa)
      <4> DEFINE k == Agreed(h, "ACKSENT", val)
      <4>1. r = k
        BY <2>1, <2>9
      <4>2. Is(k, "ACKSENT", 1, cs, sa)
        BY <2>5, IsAnswered, ZenonT(30) DEF Agreed
      <4> QED
        BY <4>1, <4>2
    <3>2. CASE f.state = "OPENED"
      BY <2>2, <3>1, <3>2, EndsDown
    <3>3. CASE f.state # "OPENED"
      BY <2>2, <3>1, <3>3, EndsSilent, ZenonT(30)
    <3> QED
      BY <3>2, <3>3
  <2>10. CASE verdict.code # "CONFACK"
    <3>1. next \in FsmStates
      OBVIOUS
    <3>2. r = [h EXCEPT !.state = next, !.nakloops = m]
      BY <2>1, <2>10
    <3> HIDE DEF m
    <3>3. Is(r, next, 1, cs, sa)
      BY <2>5, <2>7, <3>1, <3>2, IsAnswered, ZenonT(30)
    <3>4. CASE f.state = "OPENED"
      <4>1. Is(r, "REQSENT", 1, << "down" >>, sa)
        BY <2>2, <2>3, <3>3, <3>4
      <4> QED
        BY <3>4, <4>1, EndsDown
    <3>5. CASE f.state # "OPENED"
      <4>1. Is(r, next, 1, << >>, sa)
        BY <2>2, <3>3, <3>5
      <4>2. next = "ACKRCVD" => sa = 1
        BY <2>2, <2>3
      <4> QED
        BY <3>5, <4>1, <4>2, EndsSilent, ZenonT(30)
    <3> QED
      BY <3>4, <3>5
  <2> QED
    BY <2>8, <2>9, <2>10 DEF r
<1> QED
  BY <1>1, <1>2, <1>3

\* fsm_rconfack.
LEMMA RConfAckSound ==
  ASSUME NEW f, Quiet(f), f.state \notin {"INITIAL", "STARTING"},
         NEW id \in 0..IdMod-1, NEW val
  PROVE  Sound(f, RConfAck(f, id, val))
<1> USE DEF FsmStates, Timed, Negotiating
<1> DEFINE g == [f EXCEPT !.seen_ack = 1, !.rnakloops = 0]
           ignored == id # f.reqid \/ f.seen_ack = 1 \/ ~AckCI(f, val)
           r == RConfAck(f, id, val)
           u == Untimeout(g)
<1>1. CASE ignored
  <2>1. r = f
    BY <1>1 DEF RConfAck
  <2> QED
    BY <2>1, IsQuiet, EndsSilent, ZenonT(30)
<1>2. f.state \in {"ACKRCVD", "OPENED"} => ignored
  BY IsQuiet
<1>3. MaxConfReqs \in Int
  BY FsmAssumption
<1>4. CASE ~ignored /\ f.state \in {"CLOSED", "STOPPED"}
  <2>1. Is(g, f.state, 0, << >>, 1)
    BY <1>4, IsQuiet, IsSeen, ZenonT(30)
  <2>2. r = SData(g, "TERMACK", id, NoVal)
    BY <1>4 DEF RConfAck
  <2> HIDE DEF g
  <2>3. Is(r, f.state, 0, << >>, 1)
    BY <2>1, <2>2, IsSData DEF Codes
  <2> QED
    BY <1>4, <2>3, EndsSilent, ZenonT(30)
<1>5. CASE ~ignored /\ f.state = "REQSENT"
  <2>1. Is(g, "REQSENT", 1, << >>, 1)
    <3>1. Is(f, "REQSENT", 1, << >>, f.seen_ack)
      BY <1>5, IsQuiet
    <3> QED
      BY <3>1, IsSeen, ZenonT(30)
  <2>2. r = [g EXCEPT !.state = "ACKRCVD", !.retransmits = MaxConfReqs]
    BY <1>5 DEF RConfAck
  <2> HIDE DEF g
  <2>3. Is(r, "ACKRCVD", 1, << >>, 1)
    <3> DEFINE k == [g EXCEPT !.state = "ACKRCVD", !.retransmits = MaxConfReqs]
    <3>1. Is(k, "ACKRCVD", 1, << >>, 1)
      BY <1>3, <2>1, IsRetransmits, ZenonT(30)
    <3> QED
      BY <2>2, <3>1
  <2> QED
    BY <1>5, <2>3, EndsSilent, ZenonT(30)
<1>6. CASE ~ignored /\ f.state = "ACKSENT"
  <2> DEFINE k == [u EXCEPT !.state = "OPENED", !.retransmits = MaxConfReqs]
  <2>1. Is(g, "ACKSENT", 1, << >>, 1)
    <3>1. Is(f, "ACKSENT", 1, << >>, f.seen_ack)
      BY <1>6, IsQuiet
    <3> QED
      BY <3>1, IsSeen, ZenonT(30)
  <2>2. r = Callback(k, "up")
    BY <1>6 DEF RConfAck
  <2> HIDE DEF g
  <2>3. Is(u, "ACKSENT", 0, << >>, 1)
    BY <2>1, IsTimer
  <2> HIDE DEF u
  <2>4. Is(k, "OPENED", 0, << >>, 1)
    BY <1>3, <2>3, IsRetransmits, ZenonT(30)
  <2> HIDE DEF k
  <2>5. Is(r, "OPENED", 0, << "up" >>, 1)
    BY <2>2, <2>4, IsCallback
  <2> QED
    BY <1>6, <2>5, EndsUp
<1>7. CASE ~ignored /\ f.state \in {"CLOSING", "STOPPING"}
  <2>1. Is(g, f.state, 1, << >>, 1)
    BY <1>7, IsQuiet, IsSeen, ZenonT(30)
  <2>2. r = g
    BY <1>7 DEF RConfAck
  <2> QED
    BY <1>7, <2>1, <2>2, EndsSilent, ZenonT(30)
<1> QED
  BY <1>1, <1>2, <1>4, <1>5, <1>6, <1>7, IsQuiet

\* fsm_rconfnakrej.
LEMMA RConfNakRejSound ==
  ASSUME NEW f, Quiet(f), f.state \notin {"INITIAL", "STARTING"},
         NEW code \in {"CONFNAK", "CONFREJ"}, NEW id \in 0..IdMod-1, NEW val \in Vals \cup {NoVal}
  PROVE  Sound(f, RConfNakRej(f, code, id, val))
<1> USE DEF FsmStates, Timed, Negotiating
<1> DEFINE loops == IF code = "CONFNAK" THEN f.rnakloops + 1 ELSE 0
           counted == [f EXCEPT !.rnakloops = loops]
           bad == f.got = NoVal \/ (code = "CONFREJ" /\ val # f.got)
           g == [(IF code = "CONFNAK" THEN NakCI(counted, val, loops >= MaxNakLoops)
                  ELSE RejCI(counted)) EXCEPT !.seen_ack = 1]
           ignored == id # f.reqid \/ f.seen_ack = 1
           r == RConfNakRej(f, code, id, val)
           u == Untimeout(g)
<1>1. CASE ignored
  <2>1. r = f
    BY <1>1, ZenonT(30) DEF RConfNakRej
  <2> QED
    BY <2>1, IsQuiet, EndsSilent, ZenonT(30)
<1>2. f.state \in {"ACKRCVD", "OPENED"} => ignored
  BY IsQuiet
<1>3. loops \in Nat
  BY DEF Quiet, Fsm
<1>4. CASE ~ignored /\ bad
  <2>1. r = counted
    BY <1>4, ZenonT(30) DEF RConfNakRej
  <2> HIDE DEF loops
  <2>2. CASE f.state \in Timed
    <3>1. Is(counted, f.state, 1, << >>, f.seen_ack)
      BY <1>3, <2>2, IsQuiet, IsSeen, ZenonT(30)
    <3> QED
      BY <2>1, <2>2, <3>1, IsQuiet, EndsSilent, ZenonT(30)
  <2>3. CASE f.state \notin Timed
    <3>1. Is(counted, f.state, 0, << >>, f.seen_ack)
      BY <1>3, <2>3, IsQuiet, IsSeen, ZenonT(30)
    <3> QED
      BY <2>1, <2>3, <3>1, IsQuiet, EndsSilent, ZenonT(30)
  <2> QED
    BY <2>2, <2>3
<1>5. PICK v \in Vals \cup {NoVal} : g = [f EXCEPT !.rnakloops = loops, !.got = v, !.seen_ack = 1]
  <2> HIDE DEF loops
  <2>1. f \in Fsm /\ counted \in Fsm
    BY <1>3 DEF Quiet, Fsm
  <2>2. f.allow \in SUBSET Vals /\ f.got \in Vals \cup {NoVal}
    BY <2>1 DEF Fsm
  <2>3. counted.allow = f.allow /\ counted.got = f.got
    BY <2>1 DEF Fsm
  <2>4. CASE code = "CONFREJ" \/ loops >= MaxNakLoops
    <3>1. g = [[counted EXCEPT !.got = NoVal] EXCEPT !.seen_ack = 1]
      BY <2>4, ZenonT(30) DEF NakCI, RejCI
    <3>2. g = [f EXCEPT !.rnakloops = loops, !.got = NoVal, !.seen_ack = 1]
      BY <2>1, <3>1
    <3> QED
      BY <3>2, ZenonT(30)
  <2>5. CASE code = "CONFNAK" /\ ~(loops >= MaxNakLoops)
    <3> DEFINE w == IF val \in f.allow THEN val ELSE f.got
    <3>1. g = [[counted EXCEPT !.got = w] EXCEPT !.seen_ack = 1]
      BY <2>3, <2>5 DEF NakCI
    <3>2. w \in Vals \cup {NoVal}
      BY <2>2
    <3> HIDE DEF w
    <3>3. g = [f EXCEPT !.rnakloops = loops, !.got = w, !.seen_ack = 1]
      BY <2>1, <3>1
    <3> QED
      BY <3>2, <3>3, ZenonT(30)
  <2> QED
    BY <2>4, <2>5, ZenonT(30)
<1>6. CASE ~ignored /\ ~bad /\ f.state \in {"CLOSED", "STOPPED"}
  <2>1. r = SData(g, "TERMACK", id, NoVal)
    BY <1>6 DEF RConfNakRej
  <2> HIDE DEF g, loops
  <2>2. Is(g, f.state, 0, << >>, 1)
    BY <1>3, <1>5, <1>6, IsQuiet, IsSeen, ZenonT(30)
  <2>3. Is(r, f.state, 0, << >>, 1)
    BY <2>1, <2>2, IsSData DEF Codes
  <2> QED
    BY <1>6, <2>3, EndsSilent, ZenonT(30)
<1>7. CASE ~ignored /\ ~bad /\ f.state \in {"REQSENT", "ACKSENT"}
  <2>1. r = SConfReq(u, FALSE)
    BY <1>7, ZenonT(30) DEF RConfNakRej
  <2> HIDE DEF g, loops
  <2>2. Is(g, f.state, 1, << >>, 1)
    BY <1>3, <1>5, <1>7, IsQuiet, IsSeen, ZenonT(30)
  <2>3. Is(u, f.state, 0, << >>, 1)
    BY <2>2, IsTimer
  <2> HIDE DEF u
  <2>4. Is(r, f.state, 1, << >>, 0)
    BY <2>1, <2>3, IsSConfReq, ZenonT(30)
  <2> QED
    BY <1>7, <2>4, EndsSilent, ZenonT(30)
<1>8. CASE ~ignored /\ ~bad /\ f.state \in {"CLOSING", "STOPPING"}
  <2>1. r = g
    BY <1>8, ZenonT(30) DEF RConfNakRej
  <2> HIDE DEF g, loops
  <2>2. Is(g, f.state, 1, << >>, 1)
    BY <1>3, <1>5, <1>8, IsQuiet, IsSeen, ZenonT(30)
  <2> QED
    BY <1>8, <2>1, <2>2, EndsSilent, ZenonT(30)
<1> QED
  BY <1>1, <1>2, <1>4, <1>6, <1>7, <1>8, IsQuiet

\* fsm_rtermreq.
LEMMA RTermReqSound ==
  ASSUME NEW f, Quiet(f), NEW id \in 0..IdMod-1
  PROVE  Sound(f, RTermReq(f, id))
<1> USE DEF FsmStates, Timed, Negotiating
<1> DEFINE r == RTermReq(f, id)
<1>10. CASE f.state \in {"ACKRCVD", "ACKSENT"}
  <2>1. Is([f EXCEPT !.state = "REQSENT"], "REQSENT", 1, << >>, f.seen_ack)
    BY <1>10, IsQuiet, IsState, ZenonT(30)
  <2>2. Is(SData([f EXCEPT !.state = "REQSENT"], "TERMACK", id, NoVal), "REQSENT", 1, << >>, f.seen_ack)
    BY <2>1, IsSData DEF Codes
  <2>3. Is(r, "REQSENT", 1, << >>, f.seen_ack)
    BY <1>10, <2>2 DEF RTermReq
  <2> QED
    BY <1>10, <2>3, EndsSilent, ZenonT(30)
<1>20. CASE f.state = "OPENED"
  <2>1. Is(f, "OPENED", 0, << >>, f.seen_ack)
    BY <1>20, IsQuiet
  <2>2. Is([f EXCEPT !.state = "STOPPING", !.retransmits = 0], "STOPPING", 0, << >>, f.seen_ack)
    <3> DEFINE none == 0
    <3>1. none \in Int
      OBVIOUS
    <3> HIDE DEF none
    <3>2. Is([f EXCEPT !.state = "STOPPING", !.retransmits = none], "STOPPING", 0, << >>, f.seen_ack)
      BY <2>1, <3>1, IsRetransmits, ZenonT(30)
    <3> QED
      BY <3>2 DEF none
  <2>3. Is(Callback([f EXCEPT !.state = "STOPPING", !.retransmits = 0], "down"), "STOPPING", 0, << "down" >>, f.seen_ack)
    BY <2>2, IsCallback
  <2>4. Is(TimeoutOn(Callback([f EXCEPT !.state = "STOPPING", !.retransmits = 0], "down")), "STOPPING", 1, << "down" >>, f.seen_ack)
    BY <2>3, IsTimer
  <2>5. Is(SData(TimeoutOn(Callback([f EXCEPT !.state = "STOPPING", !.retransmits = 0], "down")), "TERMACK", id, NoVal), "STOPPING", 1, << "down" >>, f.seen_ack)
    BY <2>4, IsSData DEF Codes
  <2>6. Is(r, "STOPPING", 1, << "down" >>, f.seen_ack)
    BY <1>20, <2>5 DEF RTermReq
  <2> QED
    BY <1>20, <2>6, EndsDown
<1>30. CASE f.state \in Timed \ {"ACKRCVD", "ACKSENT"}
  <2>1. Is(SData(f, "TERMACK", id, NoVal), f.state, 1, << >>, f.seen_ack)
    BY <1>30, IsQuiet, IsSData DEF Codes
  <2>2. Is(r, f.state, 1, << >>, f.seen_ack)
    BY <1>30, <2>1 DEF RTermReq
  <2> QED
    BY <1>30, <2>2, EndsSilent, ZenonT(30)
<1>40. CASE f.state \notin Timed \cup {"OPENED"}
  <2>1. Is(SData(f, "TERMACK", id, NoVal), f.state, 0, << >>, f.seen_ack)
    BY <1>40, IsQuiet, IsSData DEF Codes
  <2>2. Is(r, f.state, 0, << >>, f.seen_ack)
    BY <1>40, <2>1 DEF RTermReq
  <2> QED
    BY <1>40, <2>2, EndsSilent, ZenonT(30)
<1> QED
  BY <1>10, <1>20, <1>30, <1>40, IsQuiet

\* fsm_rtermack.
LEMMA RTermAckSound ==
  ASSUME NEW f, Quiet(f)
  PROVE  Sound(f, RTermAck(f))
<1> USE DEF FsmStates, Timed, Negotiating
<1> DEFINE r == RTermAck(f)
<1>10. CASE f.state = "CLOSING"
  <2>1. Is(Untimeout(f), f.state, 0, << >>, f.seen_ack)
    BY <1>10, IsQuiet, IsTimer
  <2>2. Is([Untimeout(f) EXCEPT !.state = "CLOSED"], "CLOSED", 0, << >>, f.seen_ack)
    BY <2>1, IsState, ZenonT(30)
  <2>3. Is(Callback([Untimeout(f) EXCEPT !.state = "CLOSED"], "finished"), "CLOSED", 0, << "finished" >>, f.seen_ack)
    BY <2>2, IsCallback
  <2>4. Is(r, "CLOSED", 0, << "finished" >>, f.seen_ack)
    BY <1>10, <2>3 DEF RTermAck
  <2> QED
    BY <1>10, <2>4, EndsFinished
<1>20. CASE f.state = "STOPPING"
  <2>1. Is(Untimeout(f), f.state, 0, << >>, f.seen_ack)
    BY <1>20, IsQuiet, IsTimer
  <2>2. Is([Untimeout(f) EXCEPT !.state = "STOPPED"], "STOPPED", 0, << >>, f.seen_ack)
    BY <2>1, IsState, ZenonT(30)
  <2>3. Is(Callback([Untimeout(f) EXCEPT !.state = "STOPPED"], "finished"), "STOPPED", 0, << "finished" >>, f.seen_ack)
    BY <2>2, IsCallback
  <2>4. Is(r, "STOPPED", 0, << "finished" >>, f.seen_ack)
    BY <1>20, <2>3 DEF RTermAck
  <2> QED
    BY <1>20, <2>4, EndsFinished
<1>30. CASE f.state = "ACKRCVD"
  <2>1. Is([f EXCEPT !.state = "REQSENT"], "REQSENT", 1, << >>, f.seen_ack)
    BY <1>30, IsQuiet, IsState, ZenonT(30)
  <2>2. Is(r, "REQSENT", 1, << >>, f.seen_ack)
    BY <1>30, <2>1 DEF RTermAck
  <2> QED
    BY <1>30, <2>2, EndsSilent, ZenonT(30)
<1>40. CASE f.state = "OPENED"
  <2>1. Is(Callback(f, "down"), f.state, 0, << "down" >>, f.seen_ack)
    BY <1>40, IsQuiet, IsCallback
  <2>2. Is(Renegotiate(Callback(f, "down")), "REQSENT", 1, << "down" >>, 0)
    BY <2>1, IsRenegotiate
  <2>3. Is(r, "REQSENT", 1, << "down" >>, 0)
    BY <1>40, <2>2 DEF RTermAck
  <2> QED
    BY <1>40, <2>3, EndsDown
<1>50. CASE f.state \notin {"CLOSING", "STOPPING", "ACKRCVD", "OPENED"}
  <2>1. r = f
    BY <1>50, IsQuiet DEF RTermAck
  <2> QED
    BY <1>50, <2>1, IsQuiet, EndsSilent, ZenonT(30)
<1> QED
  BY <1>10, <1>20, <1>30, <1>40, <1>50, IsQuiet

\* fsm_rcoderej.
LEMMA RCodeRejSound ==
  ASSUME NEW f, Quiet(f)
  PROVE  Sound(f, RCodeRej(f))
<1> USE DEF FsmStates, Timed, Negotiating
<1> DEFINE r == RCodeRej(f)
<1>10. CASE f.state = "ACKRCVD"
  <2>1. Is([f EXCEPT !.state = "REQSENT"], "REQSENT", 1, << >>, f.seen_ack)
    BY <1>10, IsQuiet, IsState, ZenonT(30)
  <2>2. Is(r, "REQSENT", 1, << >>, f.seen_ack)
    BY <1>10, <2>1 DEF RCodeRej
  <2> QED
    BY <1>10, <2>2, EndsSilent, ZenonT(30)
<1>20. CASE f.state # "ACKRCVD"
  <2>1. r = f
    BY <1>20, IsQuiet DEF RCodeRej
  <2> QED
    BY <1>20, <2>1, IsQuiet, EndsSilent, ZenonT(30)
<1> QED
  BY <1>10, <1>20, IsQuiet

\* fsm_protreject.
LEMMA ProtRejectSound ==
  ASSUME NEW f, Quiet(f)
  PROVE  Sound(f, ProtReject(f))
<1> USE DEF FsmStates, Timed, Negotiating
<1>1. CASE f.state = "OPENED"
  <2>1. ProtReject(f) = TerminateLayer(f, "STOPPING")
    BY <1>1 DEF ProtReject
  <2> QED
    BY <1>1, <2>1, TerminateLayerSound
<1> DEFINE r == ProtReject(f)
<1>10. CASE f.state \in {"INITIAL", "STARTING"}
  <2>1. r = f
    BY <1>10, IsQuiet DEF ProtReject
  <2> QED
    BY <1>10, <2>1, IsQuiet, EndsSilent, ZenonT(30)
<1>20. CASE f.state = "CLOSING"
  <2>1. Is(Untimeout(f), f.state, 0, << >>, f.seen_ack)
    BY <1>20, IsQuiet, IsTimer
  <2>2. Is([Untimeout(f) EXCEPT !.state = "CLOSED"], "CLOSED", 0, << >>, f.seen_ack)
    BY <2>1, IsState, ZenonT(30)
  <2>3. Is(Callback([Untimeout(f) EXCEPT !.state = "CLOSED"], "finished"), "CLOSED", 0, << "finished" >>, f.seen_ack)
    BY <2>2, IsCallback
  <2>4. Is(r, "CLOSED", 0, << "finished" >>, f.seen_ack)
    BY <1>20, <2>3 DEF ProtReject
  <2> QED
    BY <1>20, <2>4, EndsFinished
<1>30. CASE f.state = "CLOSED"
  <2>1. Is([f EXCEPT !.state = "CLOSED"], "CLOSED", 0, << >>, f.seen_ack)
    BY <1>30, IsQuiet, IsState, ZenonT(30)
  <2>2. Is(Callback([f EXCEPT !.state = "CLOSED"], "finished"), "CLOSED", 0, << "finished" >>, f.seen_ack)
    BY <2>1, IsCallback
  <2>3. Is(r, "CLOSED", 0, << "finished" >>, f.seen_ack)
    BY <1>30, <2>2 DEF ProtReject
  <2> QED
    BY <1>30, <2>3, EndsFinished
<1>40. CASE f.state \in Timed \ {"CLOSING"}
  <2>1. Is(Untimeout(f), f.state, 0, << >>, f.seen_ack)
    BY <1>40, IsQuiet, IsTimer
  <2>2. Is([Untimeout(f) EXCEPT !.state = "STOPPED"], "STOPPED", 0, << >>, f.seen_ack)
    BY <2>1, IsState, ZenonT(30)
  <2>3. Is(Callback([Untimeout(f) EXCEPT !.state = "STOPPED"], "finished"), "STOPPED", 0, << "finished" >>, f.seen_ack)
    BY <2>2, IsCallback
  <2>4. Is(r, "STOPPED", 0, << "finished" >>, f.seen_ack)
    BY <1>40, <2>3 DEF ProtReject
  <2> QED
    BY <1>40, <2>4, EndsFinished
<1>50. CASE f.state = "STOPPED"
  <2>1. Is([f EXCEPT !.state = "STOPPED"], "STOPPED", 0, << >>, f.seen_ack)
    BY <1>50, IsQuiet, IsState, ZenonT(30)
  <2>2. Is(Callback([f EXCEPT !.state = "STOPPED"], "finished"), "STOPPED", 0, << "finished" >>, f.seen_ack)
    BY <2>1, IsCallback
  <2>3. Is(r, "STOPPED", 0, << "finished" >>, f.seen_ack)
    BY <1>50, <2>2 DEF ProtReject
  <2> QED
    BY <1>50, <2>3, EndsFinished
<1> QED
  BY <1>10, <1>20, <1>30, <1>40, <1>50, IsQuiet, <1>1

\* fsm_input: whatever packet arrives, in whatever state.
THEOREM InputSound ==
  ASSUME NEW f, Quiet(f), NEW p \in Packets
  PROVE  Sound(f, Input(f, p))
<1> USE DEF FsmStates, Timed, Negotiating
<1>1. p.code \in Codes /\ p.id \in 0..IdMod-1 /\ p.val \in Vals \cup {NoVal}
  BY DEF Packets
<1>2. CASE f.state \in {"INITIAL", "STARTING"}
  <2>1. Input(f, p) = f
    BY <1>2 DEF Input
  <2> QED
    BY <1>2, <2>1, IsQuiet, EndsSilent, ZenonT(30)
<1>3. CASE f.state \notin {"INITIAL", "STARTING"} /\ p.code = "CONFREQ"
  BY <1>1, <1>3, RConfReqSound DEF Input
<1>4. CASE f.state \notin {"INITIAL", "STARTING"} /\ p.code = "CONFACK"
  BY <1>1, <1>4, RConfAckSound DEF Input
<1>5. CASE f.state \notin {"INITIAL", "STARTING"} /\ p.code \in {"CONFNAK", "CONFREJ"}
  BY <1>1, <1>5, RConfNakRejSound DEF Input
<1>6. CASE f.state \notin {"INITIAL", "STARTING"} /\ p.code = "TERMREQ"
  BY <1>1, <1>6, RTermReqSound DEF Input
<1>7. CASE f.state \notin {"INITIAL", "STARTING"} /\ p.code = "TERMACK"
  BY <1>7, RTermAckSound DEF Input
<1>8. CASE f.state \notin {"INITIAL", "STARTING"} /\ p.code = "CODEREJ"
  BY <1>8, RCodeRejSound DEF Input
<1>9. CASE f.state \notin {"INITIAL", "STARTING"} /\ p.code = "OTHER"
  <2> DEFINE i == NextId(f)
             g == [f EXCEPT !.id = i]
             tm == IF f.state \in Timed THEN 1 ELSE 0
  <2>1. Input(f, p) = SData(g, "CODEREJ", i, NoVal)
    BY <1>9 DEF Input
  <2>2. i \in 0..IdMod-1
    BY NextIdType DEF Quiet
  <2>3. Is(f, f.state, tm, << >>, f.seen_ack)
    BY IsQuiet
  <2> HIDE DEF i, tm
  <2>4. Is(g, f.state, tm, << >>, f.seen_ack)
    BY <2>2, <2>3, ZenonT(30) DEF Is, Fsm
  <2> HIDE DEF g
  <2>5. Is(Input(f, p), f.state, tm, << >>, f.seen_ack)
    BY <2>1, <2>2, <2>4, IsSData DEF Codes
  <2> QED
    BY <2>5, IsQuiet, EndsSilent, ZenonT(30) DEF tm
<1> QED
  BY <1>1, <1>2, <1>3, <1>4, <1>5, <1>6, <1>7, <1>8, <1>9 DEF Codes

=============================================================================
