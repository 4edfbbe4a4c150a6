------------------------------ MODULE PppLink ------------------------------
(***************************************************************************)
(* Two PPP ends negotiate LCP over a serial line: the router's pppd and    *)
(* the other end of the radio link, which is taken to run the same         *)
(* automaton.  Packets of one direction arrive in order; the line may lose *)
(* any of them, an expiry of the restart timer may overtake an answer that *)
(* is still on its way, carrier may drop at one end only, either pppd may  *)
(* be told to quit, and a new pppd process starts with a fresh automaton   *)
(* while packets of the session before are still on the line.              *)
(***************************************************************************)
EXTENDS PppFsm, FiniteSets

CONSTANTS Ends,        \* the two ends of the line
          Profiles,    \* [Ends -> [want, allow]]: what the ends are configured for
          MaxStarts,   \* bound: pppd processes started in all
          MaxKills,    \* bound: requests to quit
          MaxFaults,   \* bound: lost packets, carrier drops, early expiries
          MaxLine      \* bound: packets in flight per direction

ASSUME LinkAssumption ==
  /\ \A e \in Ends : \E x \in Ends : x # e
  /\ Profiles \subseteq [Ends -> [want : Vals \cup {NoVal}, allow : SUBSET Vals]]

VARIABLES lcp,      \* the LCP automaton of each end
          on,       \* the ends where a pppd process runs
          up,       \* lcp_up calls less lcp_down calls of that process
          line,     \* the packets on their way to each end
          profile, starts, kills, faults
vars == << lcp, on, up, line, profile, starts, kills, faults >>

Other(e) == CHOOSE x \in Ends : x # e
Fresh(e) == FsmInit(profile[e].want, profile[e].allow, {})

Init ==
  /\ profile \in Profiles
  /\ lcp = [e \in Ends |-> Fresh(e)]
  /\ on = {}
  /\ up = [e \in Ends |-> 0]
  /\ line = [e \in Ends |-> << >>]
  /\ starts = 0 /\ kills = 0 /\ faults = 0

Count(s, c) == Cardinality({i \in DOMAIN s : s[i] = c})

\* What follows a call into the automaton: its packets go on the line, the upper
\* layers are told, and lcp_finished ends the session: link_terminated takes the
\* lower layer down, the main loop restores the automaton and pppd exits.
Settle(e, f, rest) ==
  LET over == "finished" \in {f.calls[i] : i \in DOMAIN f.calls}
      g == IF over THEN Close(LowerDown(f)) ELSE f
  IN /\ Len(rest[Other(e)]) + Len(f.out) <= MaxLine
     /\ lcp' = [lcp EXCEPT ![e] = [g EXCEPT !.out = << >>, !.calls = << >>]]
     /\ up' = [up EXCEPT ![e] = @ + Count(g.calls, "up") - Count(g.calls, "down")]
     /\ on' = IF over THEN on \ {e} ELSE on \cup {e}
     /\ line' = [rest EXCEPT ![Other(e)] = @ \o f.out]

\* main: lcp_open, then start_link, whose lcp_lowerup sends the first request.
Start(e) ==
  /\ e \notin on /\ starts < MaxStarts
  /\ starts' = starts + 1
  /\ Settle(e, LowerUp(Open(Fresh(e))), line)
  /\ UNCHANGED << profile, kills, faults >>

Receive(e) ==
  /\ e \in on /\ line[e] # << >>
  /\ Settle(e, Input(lcp[e], Head(line[e])), [line EXCEPT ![e] = Tail(@)])
  /\ UNCHANGED << profile, starts, kills, faults >>

\* Nobody reads the line.
Discard(e) ==
  /\ e \notin on /\ line[e] # << >>
  /\ line' = [line EXCEPT ![e] = Tail(@)]
  /\ UNCHANGED << lcp, on, up, profile, starts, kills, faults >>

\* The restart timer runs out; while packets are in flight this is a fault, the
\* three seconds of the timer being far longer than the line takes.
Timeout(e) ==
  LET early == \E x \in Ends : line[x] # << >>
  IN /\ e \in on /\ lcp[e].timer > 0
     /\ early => faults < MaxFaults
     /\ faults' = IF early THEN faults + 1 ELSE faults
     /\ Settle(e, Expire(lcp[e]), line)
     /\ UNCHANGED << profile, starts, kills >>

\* A signal: lcp_close(0, "User request").
Kill(e) ==
  /\ e \in on /\ kills < MaxKills
  /\ kills' = kills + 1
  /\ Settle(e, Close(lcp[e]), line)
  /\ UNCHANGED << profile, starts, faults >>

\* get_input reads end of file: lcp_lowerdown, then link_terminated.
Hangup(e) ==
  /\ e \in on /\ faults < MaxFaults
  /\ faults' = faults + 1
  /\ Settle(e, Callback(LowerDown(lcp[e]), "finished"), line)
  /\ UNCHANGED << profile, starts, kills >>

Lose(e) ==
  /\ faults < MaxFaults
  /\ \E i \in DOMAIN line[e] :
       line' = [line EXCEPT ![e] = SubSeq(@, 1, i - 1) \o SubSeq(@, i + 1, Len(@))]
  /\ faults' = faults + 1
  /\ UNCHANGED << lcp, on, up, profile, starts, kills >>

Next == \E e \in Ends : \/ Start(e) \/ Receive(e) \/ Discard(e) \/ Timeout(e)
                        \/ Kill(e) \/ Hangup(e) \/ Lose(e)

Spec == Init /\ [][Next]_vars

\* The line delivers, timers run out and the supervisor starts a pppd again; kills
\* and faults need not happen.
Fairness == \A e \in Ends : WF_vars(Receive(e)) /\ WF_vars(Discard(e))
                            /\ SF_vars(Timeout(e)) /\ WF_vars(Start(e))
FairSpec == Spec /\ Fairness

----------------------------------------------------------------------------
\* Types of all variables: identifiers stay within one byte, counters do not go below 0.
TypeOK ==
  /\ lcp \in [Ends -> Fsm] /\ on \subseteq Ends /\ up \in [Ends -> Int]
  /\ line \in [Ends -> Seq(Packets)] /\ profile \in Profiles
  /\ starts \in Nat /\ kills \in Nat /\ faults \in Nat

\* fsm.c keeps both automata in order whatever is lost, overtaken or left over from
\* the session before: one callout exactly while a request is unanswered (nothing
\* hangs in REQSENT, nothing times out in OPENED), and no answer counts twice.
AutomataOK == \A e \in Ends : FsmOK(lcp[e])

\* lcp_up and lcp_down alternate in step with the automaton: the upper layers run
\* exactly while LCP is open, through every renegotiation, hangup and restart.
UpperInStep == \A e \in Ends : up[e] = IF lcp[e].state = "OPENED" THEN 1 ELSE 0

\* When both ends are open and nothing is on its way, each uses for the other the
\* options the other believes to have: no stale Ack, Nak or retransmission left them
\* with different settings (the identifier check of fsm_rconfack).
OptionsAgree ==
  (\A e \in Ends : lcp[e].state = "OPENED" /\ line[e] = << >>) =>
     \A e \in Ends : lcp[e].got = lcp[Other(e)].his

\* On a line that loses nothing, no end stays open against one that has quit: the
\* other is open as well or still has a timer that will make it speak.
NoHalfOpen ==
  faults = 0 /\ (\A e \in Ends : line[e] = << >>) =>
    \A e \in Ends : lcp[e].state = "OPENED" =>
                      lcp[Other(e)].state = "OPENED" \/ lcp[Other(e)].timer > 0

\* A negotiation ends: whatever the two ends are configured for, a running pppd gets
\* to OPENED or gives up and exits (max_configure, max_failure and the rejection of
\* options that are Nak'ed for ever).
NegotiationEnds == \A e \in Ends : e \in on ~> (lcp[e].state = "OPENED" \/ e \notin on)

=============================================================================
