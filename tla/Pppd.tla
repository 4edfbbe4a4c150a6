-------------------------------- MODULE Pppd --------------------------------
(***************************************************************************)
(* One pppd process of the router, from main's start of the link to its    *)
(* exit: LCP (lcp.c) and IPCP (ipcp.c) on the automaton of PppFsm, the     *)
(* phases and network-protocol counters of auth.c, the LCP echo timer, the *)
(* ip-up and ip-down scripts and the main loop (main.c).  The far end is   *)
(* not modelled: any packet may arrive at any time.                        *)
(*                                                                         *)
(* The callbacks of the two automata call into each other, so the whole    *)
(* state of the daemon is one record d and each function of the code an    *)
(* operator on it.  Authentication, compression, multilink, persist and    *)
(* demand are off, as in the router's options file.                        *)
(***************************************************************************)
EXTENDS PppFsm

CONSTANTS EchoFails,    \* values of lcp-echo-failure; 0 is off
          MaxSignals,   \* bound: SIGTERM or SIGHUP deliveries
          MaxNaks       \* bound: Naks received in a row

VARIABLES d,         \* the daemon
          pc,        \* where main is
          signals,   \* signals delivered so far
          noLower    \* lcp_lowerup gave up: the line could not be configured
vars == << d, pc, signals, noLower >>

\* What the system answers: how far ipcp_up gets, and what run_program returns.
Env == [ifup : {"up", "refused", "addr"}, run : {1, 0, -1}]

Init ==
  /\ \E fails \in EchoFails, v \in Vals :
       d = [lcp |-> FsmInit(v, {v}, {}), ipcp |-> FsmInit(v, {v}, {}),
            phase |-> "INITIALIZE", num_np_open |-> 0, num_np_up |-> 0,
            ipcp_is_open |-> 0, ipcp_is_up |-> 0, iface |-> "down",
            script |-> "s_down", script_pid |-> 0,
            echo_fails |-> fails, echo_running |-> 0, echo_timer |-> 0, echos_pending |-> 0]
  /\ pc = "start" /\ signals = 0 /\ noLower = FALSE

Clear(f) == [f EXCEPT !.out = << >>, !.calls = << >>]

----------------------------------------------------------------------------
\* ipcp.c and the counters of auth.c

\* ipcp_script: run_program returns a pid, 0 without the file, -1 without a process.
IpcpScript(s, state, env) == [s EXCEPT !.script = state, !.script_pid = env.run]

np_up(s) == [s EXCEPT !.num_np_up = @ + 1, !.phase = IF s.num_np_up = 0 THEN "RUNNING" ELSE @]
np_down(s) == [s EXCEPT !.num_np_up = @ - 1, !.phase = IF s.num_np_up = 1 THEN "NETWORK" ELSE @]

\* Mutant: the interface is taken down only when ipcp_up had come to its end.
ipcp_downOnlyUp(s, env) ==
  LET t == IF s.ipcp_is_up = 1
             THEN np_down([s EXCEPT !.ipcp_is_up = 0, !.iface = "down"]) ELSE s
  IN IF t.script = "s_up" /\ t.script_pid = 0 THEN IpcpScript(t, "s_down", env) ELSE t

ipcp_down(s, env) ==
  LET t == [(IF s.ipcp_is_up = 1 THEN np_down([s EXCEPT !.ipcp_is_up = 0]) ELSE s)
              EXCEPT !.iface = "down"]
  IN IF t.script = "s_up" /\ t.script_pid = 0 THEN IpcpScript(t, "s_down", env) ELSE t

upper_layers_down(s, env) ==
  LET f == LowerDown(s.ipcp)
      t == [s EXCEPT !.ipcp = Clear(f)]
      u == IF f.calls = << >> THEN t ELSE ipcp_down(t, env)
  IN [u EXCEPT !.ipcp = Close(@), !.num_np_open = 0, !.num_np_up = 0]

----------------------------------------------------------------------------
\* lcp.c and the phases of auth.c

\* In state OPENED.  The count of unanswered requests is only compared with
\* lcp-echo-failure, so it stops there.
LcpEchoCheck(s) ==
  [s EXCEPT !.echos_pending = IF @ < s.echo_fails THEN @ + 1 ELSE @,
            !.echo_timer = @ + 1, !.echo_running = 1]
lcp_echo_lowerup(s) == LcpEchoCheck([s EXCEPT !.echos_pending = 0, !.echo_running = 0])
\* Mutant: the callout is left on the list.
lcp_echo_lowerdownKeeps(s) == [s EXCEPT !.echo_running = 0]

lcp_echo_lowerdown(s) ==
  IF s.echo_running = 0 THEN s
  ELSE [s EXCEPT !.echo_timer = IF @ > 0 THEN @ - 1 ELSE 0, !.echo_running = 0]

\* link_established, start_networks and continue_networks: IPCP's lower layer is up
\* and IPCP is opened.
link_established(s) ==
  [s EXCEPT !.ipcp = Clear(Open(LowerUp(@))), !.phase = "NETWORK",
            !.num_np_open = @ + 1, !.ipcp_is_open = 1]
\* Mutant: IPCP is not told.
link_downAlone(s, env) == [s EXCEPT !.phase = IF @ = "DEAD" THEN @ ELSE "ESTABLISH"]

link_down(s, env) ==
  LET t == upper_layers_down(s, env)
  IN [t EXCEPT !.phase = IF @ = "DEAD" THEN @ ELSE "ESTABLISH"]
\* The phase passes through DISCONNECT; hungup says that the line is gone already.
link_terminated(s, hungup) ==
  IF s.phase = "DEAD" THEN s
  ELSE [s EXCEPT !.lcp = IF hungup THEN @ ELSE LowerDown(@), !.phase = "DEAD"]

\* lcp_up, lcp_down and lcp_finished.
LcpCall(s, c, env) ==
  IF c = "up" THEN link_established(lcp_echo_lowerup(s))
  ELSE IF c = "down" THEN link_down(lcp_echo_lowerdown(s), env)
  ELSE link_terminated(s, FALSE)

\* The callbacks that a call into the LCP automaton has made: two at most.
LcpCalls(s, f, env) ==
  LET t == [s EXCEPT !.lcp = Clear(f)]
      u == IF f.calls = << >> THEN t ELSE LcpCall(t, f.calls[1], env)
  IN IF Len(f.calls) < 2 THEN u ELSE LcpCall(u, f.calls[2], env)

lcp_close(s, env) ==
  LET t == [s EXCEPT !.phase = IF @ = "DEAD" THEN @ ELSE "TERMINATE"]
  IN LcpCalls(t, Close(t.lcp), env)

np_finished(s, env) ==
  LET t == [s EXCEPT !.num_np_open = @ - 1]
  IN IF t.num_np_open <= 0 THEN lcp_close(t, env) ELSE t
ipcp_finished(s, env) ==
  IF s.ipcp_is_open = 1 THEN np_finished([s EXCEPT !.ipcp_is_open = 0], env) ELSE s

\* Mutant: a change during the script is forgotten.
ipcp_script_doneForgets(s, env) == [s EXCEPT !.script_pid = 0]

\* A script has ended: run the other one when IPCP has changed in the meantime.
ipcp_script_done(s, env) ==
  LET t == [s EXCEPT !.script_pid = 0]
      isOpen == t.ipcp.state = "OPENED"
  IN IF t.script = "s_up" /\ ~isOpen THEN IpcpScript(t, "s_down", env)
     ELSE IF t.script = "s_down" /\ isOpen THEN IpcpScript(t, "s_up", env)
     ELSE t

\* Without an address, or when the interface cannot be configured, ipcp_up closes IPCP,
\* whose terminate_layer calls ipcp_down, and ipcp_finished when it is not to wait.
ipcp_up(s, env) ==
  LET t == [np_up(s) EXCEPT !.ipcp_is_up = 1, !.iface = "up"]
      closed == Close(s.ipcp)
      refused == ipcp_down([s EXCEPT !.ipcp = Clear(closed),
                                     !.iface = IF env.ifup = "addr" THEN "addr" ELSE @], env)
  IN IF env.ifup # "up"
       THEN IF Len(closed.calls) < 2 THEN refused ELSE ipcp_finished(refused, env)
     ELSE IF t.script = "s_down" /\ t.script_pid = 0 THEN IpcpScript(t, "s_up", env) ELSE t

IpcpCall(s, c, env) ==
  IF c = "up" THEN ipcp_up(s, env)
  ELSE IF c = "down" THEN ipcp_down(s, env)
  ELSE ipcp_finished(s, env)

IpcpCalls(s, f, env) ==
  LET t == [s EXCEPT !.ipcp = Clear(f)]
      u == IF f.calls = << >> THEN t ELSE IpcpCall(t, f.calls[1], env)
  IN IF Len(f.calls) < 2 THEN u ELSE IpcpCall(u, f.calls[2], env)

----------------------------------------------------------------------------
\* The events of the main loop.

Looping == pc = "loop" /\ d.phase # "DEAD"
Becomes(s) == d' = s /\ UNCHANGED << pc, signals, noLower >>

\* lcp_open and start_link.  The connect script or the ppp device may fail; so may
\* the configuration of the line, and then lcp_lowerup returns without a word.
Start ==
  LET opened == Open(d.lcp)
  IN /\ pc = "start"
     /\ pc' = "loop"
     /\ \/ /\ d' = [d EXCEPT !.lcp = opened, !.phase = "DEAD"]
           /\ UNCHANGED noLower
        \/ /\ d' = [d EXCEPT !.lcp = opened, !.phase = "ESTABLISH"]
           /\ noLower' = TRUE
        \/ /\ d' = [d EXCEPT !.lcp = Clear(LowerUp(opened)), !.phase = "ESTABLISH"]
           /\ UNCHANGED noLower
     /\ UNCHANGED signals

InputLcp ==
  /\ Looping
  /\ \E p \in Packets, env \in Env : Becomes(LcpCalls(d, Input(d.lcp, p), env))
  /\ d'.lcp.rnakloops <= MaxNaks

\* get_input tosses what is not LCP until LCP is open and the phase is late enough.
InputIpcp ==
  /\ Looping
  /\ d.lcp.state = "OPENED" /\ d.phase \notin {"ESTABLISH", "AUTHENTICATE"}
  /\ \E p \in Packets, env \in Env : Becomes(IpcpCalls(d, Input(d.ipcp, p), env))
  /\ d'.ipcp.rnakloops <= MaxNaks

\* lcp_rprotrej
ProtocolReject ==
  /\ Looping
  /\ d.lcp.state = "OPENED"
  /\ \E env \in Env : \/ Becomes(LcpCalls(d, ProtReject(d.lcp), env))
                      \/ Becomes(IpcpCalls(d, LowerDown(d.ipcp), env))

\* A packet of a protocol pppd does not speak: lcp_sprotrej takes an identifier.
InputUnknown ==
  /\ Looping
  /\ d.lcp.state = "OPENED"
  /\ Becomes([d EXCEPT !.lcp.id = NextId(d.lcp)])

EchoReply == Looping /\ d.lcp.state = "OPENED" /\ Becomes([d EXCEPT !.echos_pending = 0])

ExpireLcp ==
  /\ Looping
  /\ d.lcp.timer > 0
  /\ \E env \in Env : Becomes(LcpCalls(d, Expire(d.lcp), env))

ExpireIpcp ==
  /\ Looping
  /\ d.ipcp.timer > 0
  /\ \E env \in Env : Becomes(IpcpCalls(d, Expire(d.ipcp), env))

\* LcpEchoTimeout, LcpEchoCheck, LcpSendEchoRequest and LcpLinkFailure
ExpireEcho ==
  LET t == [d EXCEPT !.echo_timer = @ - 1, !.echo_running = 0]
      failed == d.echo_fails # 0 /\ d.echos_pending >= d.echo_fails
  IN /\ Looping
     /\ d.echo_timer > 0
     /\ \E env \in Env :
          LET u == IF failed /\ t.lcp.state = "OPENED" THEN lcp_close(t, env) ELSE t
              v == IF failed THEN [u EXCEPT !.echos_pending = 0] ELSE u
          IN Becomes(IF d.echo_running = 0 THEN [d EXCEPT !.echo_timer = @ - 1]
                     ELSE IF v.lcp.state = "OPENED" THEN LcpEchoCheck(v) ELSE v)

\* SIGTERM or SIGHUP; the main loop calls lcp_close.
Signal ==
  /\ Looping
  /\ signals < MaxSignals
  /\ signals' = signals + 1
  /\ \E env \in Env : d' = lcp_close(d, env)
  /\ UNCHANGED << pc, noLower >>

\* get_input reads end of file.
Hangup ==
  /\ Looping
  /\ \E env \in Env : Becomes(link_terminated(LcpCalls(d, LowerDown(d.lcp), env), TRUE))

\* reap_kids
ScriptDone ==
  /\ pc \in {"loop", "wait"}
  /\ d.script_pid = 1
  /\ \E env \in Env : Becomes(ipcp_script_done(d, env))

\* Mutant: the automata are not restored.
LeaveLoopDirty ==
  /\ pc = "loop" /\ d.phase = "DEAD"
  /\ pc' = IF d.script_pid = 1 THEN "wait" ELSE "exited"
  /\ UNCHANGED << d, signals, noLower >>

\* The loop ends in PHASE_DEAD: lcp_close restores the automaton, then main waits for
\* the scripts.
LeaveLoop ==
  /\ pc = "loop" /\ d.phase = "DEAD"
  /\ pc' = IF d.script_pid = 1 THEN "wait" ELSE "exited"
  /\ \E env \in Env : d' = lcp_close(d, env)
  /\ UNCHANGED << signals, noLower >>

\* Every child has ended, or childwait_end after five seconds or on a signal.
StopWaiting ==
  /\ pc = "wait"
  /\ pc' = "exited"
  /\ UNCHANGED << d, signals, noLower >>

Next == \/ Start \/ InputLcp \/ InputIpcp \/ ProtocolReject \/ InputUnknown
        \/ EchoReply \/ ExpireLcp \/ ExpireIpcp \/ ExpireEcho \/ Signal \/ Hangup
        \/ ScriptDone \/ LeaveLoop \/ StopWaiting

Spec == Init /\ [][Next]_vars

\* main runs, and the timers of the callout list run out.
Fairness == /\ WF_vars(Start) /\ WF_vars(LeaveLoop) /\ WF_vars(StopWaiting)
            /\ SF_vars(ExpireLcp) /\ SF_vars(ExpireIpcp) /\ SF_vars(ExpireEcho)
FairSpec == Spec /\ Fairness

----------------------------------------------------------------------------
\* IPCP only negotiates over an open LCP: when LCP leaves OPENED, for whatever reason and
\* from whatever state of IPCP, link_down has taken IPCP down with it.  No network protocol
\* is counted twice or taken back twice, and the phase and the counters of auth.c agree
\* with IPCP's own flag.
IpcpInStep ==
  /\ d.ipcp.state \notin {"INITIAL", "STARTING"} => d.lcp.state = "OPENED"
  /\ d.num_np_open \in {0, 1} /\ d.num_np_up = d.ipcp_is_up
  /\ d.phase = "RUNNING" <=> d.ipcp_is_up = 1

\* One entry for LcpEchoTimeout is on the callout list exactly while LCP is open, and
\* the flag agrees: LcpEchoCheck's "assertion lcp_echo_timer_running==0 failed" is
\* never logged and no echo request goes out on a closed link.
EchoTimerOnce == d.echo_timer = d.echo_running /\ (d.echo_timer = 1 <=> d.lcp.state = "OPENED")

\* ppp0 has its address and is up exactly while IPCP is open: neither a failure halfway
\* through ipcp_up nor a renegotiation or hangup leaves a stale address behind.
InterfaceFollowsIpcp == d.iface = (IF d.ipcp.state = "OPENED" THEN "up" ELSE "down")

\* Whenever no script runs, the last one that ran fits the state of IPCP: an ip-up that
\* outlives the link is followed by ip-down, a link that returns during ip-down by ip-up.
ScriptFitsIpcp == d.script_pid = 0 => (d.script = "s_up" <=> d.ipcp.state = "OPENED")

\* When the main loop is left both automata are back in their original state and no
\* callout of theirs is pending ("restore FSMs to original state").
CleanExit ==
  pc \in {"wait", "exited"} =>
    /\ d.lcp.state = "INITIAL" /\ d.ipcp.state = "INITIAL"
    /\ d.lcp.timer = 0 /\ d.ipcp.timer = 0 /\ d.echo_timer = 0

\* A signal ends pppd, whatever the peer does or leaves undone, if the line could be
\* configured: the Terminate-Requests run out.
SignalEnds == signals > 0 /\ ~noLower ~> pc = "exited"

=============================================================================
