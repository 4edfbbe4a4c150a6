---------------------------- MODULE PppdProofs ----------------------------
(***************************************************************************)
(* The safety of a pppd process for any limits, options, packets, signals  *)
(* and answers of the system.                                              *)
(***************************************************************************)
EXTENDS Pppd, PppFsmProofs

USE ZenonT(30)

Phases == {"INITIALIZE", "ESTABLISH", "NETWORK", "RUNNING", "TERMINATE", "DEAD"}
Daemon ==
  [lcp : Fsm, ipcp : Fsm, phase : Phases, num_np_open : Int, num_np_up : Int,
   ipcp_is_open : {0, 1}, ipcp_is_up : {0, 1}, iface : {"down", "up", "addr"},
   script : {"s_up", "s_down"}, script_pid : {1, 0, -1}, echo_fails : EchoFails,
   echo_running : {0, 1}, echo_timer : Nat, echos_pending : Nat]

\* The interface, auth.c's counter and the scripts are as they are with IPCP open or not.
Net(s, open) ==
  /\ s.iface = (IF open THEN "up" ELSE "down")
  /\ s.ipcp_is_up = (IF open THEN 1 ELSE 0) /\ s.num_np_up = (IF open THEN 1 ELSE 0)
  /\ s.script_pid = 0 => (s.script = "s_up" <=> open)
LcpOpen(s) == s.lcp.state = "OPENED"
IpcpOpen(s) == s.ipcp.state = "OPENED"

\* What holds of the daemon between two calls, also in the middle of closing LCP;
Mid(s) ==
  /\ s \in Daemon /\ Quiet(s.lcp) /\ Quiet(s.ipcp) /\ Net(s, IpcpOpen(s))
  /\ s.phase = "RUNNING" => IpcpOpen(s)
  /\ s.echo_timer = s.echo_running
  /\ ~LcpOpen(s) => s.ipcp.state = "INITIAL" /\ s.num_np_open = 0 /\ s.echo_timer = 0
\* what holds as long as LCP stays open;
Stays(s) ==
  /\ s.num_np_open = 1 /\ s.ipcp_is_open = 1 /\ s.echo_timer = 1
  /\ IpcpOpen(s) => s.phase = "RUNNING"
\* and what holds between two events.
DaemonInv(s) ==
  /\ Mid(s) /\ (LcpOpen(s) => Stays(s))
  /\ s.phase = "DEAD" => s.lcp.state \in {"INITIAL", "STARTING"}

PppdInv ==
  /\ DaemonInv(d)
  /\ pc = "start" => d.lcp.state = "INITIAL"
  /\ pc \in {"wait", "exited"} => d.lcp.state = "INITIAL" /\ d.phase = "DEAD"

----------------------------------------------------------------------------
\* The groups of fields that most functions leave alone.
SameEcho(s, t) ==
  /\ t.echo_running = s.echo_running /\ t.echo_timer = s.echo_timer
SameNet(s, t) ==
  /\ t.iface = s.iface /\ t.ipcp_is_up = s.ipcp_is_up /\ t.num_np_up = s.num_np_up
  /\ t.script = s.script /\ t.script_pid = s.script_pid
SameOpen(s, t) == t.num_np_open = s.num_np_open /\ t.ipcp_is_open = s.ipcp_is_open

\* Consuming packets and callbacks makes an automaton quiet.
LEMMA ClearQuiet ==
  ASSUME NEW f, NEW r, Sound(f, r)
  PROVE  Quiet(Clear(r)) /\ Clear(r).state = r.state /\ Clear(r).timer = r.timer
<1>1. r \in Fsm /\ FsmOK(r) BY DEF Sound
<1>2. ASSUME NEW o \in Seq(Packets), NEW c \in Seq({"up", "down", "finished"})
      PROVE  LET q == [r EXCEPT !.out = o, !.calls = c]
             IN /\ q \in Fsm /\ q.calls = c /\ q.state = r.state /\ q.timer = r.timer
                /\ q.seen_ack = r.seen_ack
  BY <1>1 DEF Fsm
<1>3. << >> \in Seq(Packets) /\ << >> \in Seq({"up", "down", "finished"})
  BY SMTT(30)
<1>4. /\ Clear(r) \in Fsm /\ Clear(r).calls = << >> /\ Clear(r).state = r.state
      /\ Clear(r).timer = r.timer /\ Clear(r).seen_ack = r.seen_ack
  BY <1>2, <1>3 DEF Clear
<1> QED BY <1>1, <1>4 DEF Quiet, FsmOK

\* Assignments to one of the automata.
LEMMA SetFsm ==
  ASSUME NEW s \in Daemon, NEW f \in Fsm
  PROVE  /\ LET t == [s EXCEPT !.lcp = f]
            IN /\ t \in Daemon /\ t.lcp = f /\ t.ipcp = s.ipcp /\ t.phase = s.phase
               /\ SameEcho(s, t) /\ SameNet(s, t) /\ SameOpen(s, t)
         /\ LET t == [s EXCEPT !.ipcp = f]
            IN /\ t \in Daemon /\ t.lcp = s.lcp /\ t.ipcp = f /\ t.phase = s.phase
               /\ SameEcho(s, t) /\ SameNet(s, t) /\ SameOpen(s, t)
BY DEF Daemon, SameEcho, SameNet, SameOpen

\* new_phase.
LEMMA SetPhase ==
  ASSUME NEW s \in Daemon, NEW p \in Phases
  PROVE  LET t == [s EXCEPT !.phase = p]
         IN /\ t \in Daemon /\ t.lcp = s.lcp /\ t.ipcp = s.ipcp /\ t.phase = p
            /\ SameEcho(s, t) /\ SameNet(s, t) /\ SameOpen(s, t)
BY DEF Daemon, SameEcho, SameNet, SameOpen

\* The counter of network protocols that are up, with the phase that goes with it.
WithUp(s, n, p) == [s EXCEPT !.num_np_up = n, !.phase = p]
UpIs(s, n, p, t) ==
  /\ t \in Daemon /\ t.lcp = s.lcp /\ t.ipcp = s.ipcp /\ t.phase = p
  /\ SameEcho(s, t) /\ SameOpen(s, t) /\ t.num_np_up = n /\ t.iface = s.iface
  /\ t.ipcp_is_up = s.ipcp_is_up /\ t.script = s.script /\ t.script_pid = s.script_pid
\* It leaves the rest of the daemon alone.
LEMMA SetUp ==
  ASSUME NEW s \in Daemon, NEW n \in Int, NEW p \in Phases
  PROVE  UpIs(s, n, p, WithUp(s, n, p))
BY DEF UpIs, WithUp, Daemon, SameEcho, SameOpen

\* ipcp_is_up alone.
LEMMA SetUpFlag ==
  ASSUME NEW s \in Daemon, NEW b \in {0, 1}
  PROVE  LET t == [s EXCEPT !.ipcp_is_up = b]
         IN /\ t \in Daemon /\ t.lcp = s.lcp /\ t.ipcp = s.ipcp /\ t.phase = s.phase
            /\ SameEcho(s, t) /\ SameOpen(s, t) /\ t.num_np_up = s.num_np_up /\ t.iface = s.iface
            /\ t.ipcp_is_up = b /\ t.script = s.script /\ t.script_pid = s.script_pid
BY DEF Daemon, SameEcho, SameOpen

\* The interface alone.
LEMMA SetIface ==
  ASSUME NEW s \in Daemon, NEW i \in {"down", "up", "addr"}
  PROVE  LET t == [s EXCEPT !.iface = i]
         IN /\ t \in Daemon /\ t.lcp = s.lcp /\ t.ipcp = s.ipcp /\ t.phase = s.phase
            /\ SameEcho(s, t) /\ SameOpen(s, t) /\ t.num_np_up = s.num_np_up /\ t.iface = i
            /\ t.ipcp_is_up = s.ipcp_is_up /\ t.script = s.script /\ t.script_pid = s.script_pid
BY DEF Daemon, SameEcho, SameOpen

\* ipcp_is_up and the interface.
WithUpIface(s, b, i) == [s EXCEPT !.ipcp_is_up = b, !.iface = i]
\* It leaves the rest of the daemon alone.
LEMMA SetUpIface ==
  ASSUME NEW s \in Daemon, NEW b \in {0, 1}, NEW i \in {"down", "up", "addr"}
  PROVE  LET t == WithUpIface(s, b, i)
         IN /\ t \in Daemon /\ t.lcp = s.lcp /\ t.ipcp = s.ipcp /\ t.phase = s.phase
            /\ SameEcho(s, t) /\ SameOpen(s, t) /\ t.num_np_up = s.num_np_up /\ t.iface = i
            /\ t.ipcp_is_up = b /\ t.script = s.script /\ t.script_pid = s.script_pid
BY DEF WithUpIface, Daemon, SameEcho, SameOpen

\* The interface and the automaton.
WithIpcpIface(s, f, i) == [s EXCEPT !.ipcp = f, !.iface = i]
IpcpIfaceIs(s, f, i, t) ==
  /\ t \in Daemon /\ t.lcp = s.lcp /\ t.ipcp = f /\ t.phase = s.phase
  /\ SameEcho(s, t) /\ SameOpen(s, t) /\ t.num_np_up = s.num_np_up /\ t.iface = i
  /\ t.ipcp_is_up = s.ipcp_is_up
\* It leaves the rest of the daemon alone.
LEMMA SetIpcpIface ==
  ASSUME NEW s \in Daemon, NEW f \in Fsm, NEW i \in {"down", "up", "addr"}
  PROVE  IpcpIfaceIs(s, f, i, WithIpcpIface(s, f, i))
BY DEF IpcpIfaceIs, WithIpcpIface, Daemon, SameEcho, SameOpen

\* ipcp_script.
LEMMA ScriptFacts ==
  ASSUME NEW s \in Daemon, NEW st \in {"s_up", "s_down"}, NEW env \in Env
  PROVE  LET t == IpcpScript(s, st, env)
         IN /\ t \in Daemon /\ t.lcp = s.lcp /\ t.ipcp = s.ipcp /\ t.phase = s.phase
            /\ SameEcho(s, t) /\ SameOpen(s, t) /\ t.num_np_up = s.num_np_up /\ t.iface = s.iface
            /\ t.ipcp_is_up = s.ipcp_is_up /\ t.script = st
<1>1. env.run \in {1, 0, -1} BY DEF Env
<1> QED BY <1>1 DEF IpcpScript, Daemon, SameEcho, SameOpen

\* ipcp_down leaves nothing of the interface, whatever it finds.
LEMMA DownFacts ==
  ASSUME NEW s \in Daemon, NEW env \in Env, s.num_np_up = s.ipcp_is_up
  PROVE  LET t == ipcp_down(s, env)
         IN /\ t \in Daemon /\ t.lcp = s.lcp /\ t.ipcp = s.ipcp
            /\ t.phase = IF s.ipcp_is_up = 1 THEN "NETWORK" ELSE s.phase
            /\ SameEcho(s, t) /\ SameOpen(s, t) /\ Net(t, FALSE)
<1> DEFINE a == [s EXCEPT !.ipcp_is_up = 0]
           b == IF s.ipcp_is_up = 1 THEN np_down(a) ELSE s
           c == [b EXCEPT !.iface = "down"]
           p == IF s.ipcp_is_up = 1 THEN "NETWORK" ELSE s.phase
<1>0. ipcp_down(s, env) = IF c.script = "s_up" /\ c.script_pid = 0 THEN IpcpScript(c, "s_down", env) ELSE c
  BY DEF ipcp_down
<1>1. /\ b \in Daemon /\ b.lcp = s.lcp /\ b.ipcp = s.ipcp /\ b.phase = p
      /\ SameEcho(s, b) /\ SameOpen(s, b) /\ b.num_np_up = 0 /\ b.ipcp_is_up = 0
  <2>1. CASE s.ipcp_is_up = 1
    <3>1. /\ a \in Daemon /\ a.lcp = s.lcp /\ a.ipcp = s.ipcp /\ a.ipcp_is_up = 0
          /\ SameEcho(s, a) /\ SameOpen(s, a) /\ a.num_np_up = s.num_np_up
      BY SetUpFlag
    <3>a. a.num_np_up = 1 BY <2>1, <3>1
    <3>2. 1 - 1 = 0 BY SMTT(30)
    <3>b. 0 \in Int BY SMTT(30)
    <3>d. a \in Daemon BY <3>1
    <3>c. "NETWORK" \in Phases BY DEF Phases
    <3> DEFINE q == WithUp(a, 0, "NETWORK")
    <3>3. np_down(a) = q BY <3>1, <3>a, <3>2 DEF np_down, Daemon, WithUp
    <3> HIDE DEF a
    <3>4. /\ q \in Daemon /\ q.lcp = a.lcp /\ q.ipcp = a.ipcp /\ q.phase = "NETWORK"
          /\ SameEcho(a, q) /\ SameOpen(a, q) /\ q.num_np_up = 0 /\ q.ipcp_is_up = a.ipcp_is_up
      <4>1. UpIs(a, 0, "NETWORK", q) BY <3>d, <3>b, <3>c, SetUp
      <4> HIDE DEF q
      <4> QED BY <4>1 DEF UpIs
    <3> HIDE DEF q
    <3>6. b = q /\ p = "NETWORK" BY <2>1, <3>3
    <3> QED BY <3>6, <3>1, <3>4 DEF SameEcho, SameOpen
  <2>2. CASE s.ipcp_is_up # 1
    <3>1. s.ipcp_is_up = 0 BY <2>2 DEF Daemon
    <3>2. b = s /\ p = s.phase BY <2>2
    <3> QED BY <3>1, <3>2 DEF SameEcho, SameOpen
  <2> QED BY <2>1, <2>2
<1> HIDE DEF b
<1>a. /\ c \in Daemon /\ c.lcp = b.lcp /\ c.ipcp = b.ipcp /\ c.phase = b.phase
      /\ SameEcho(b, c) /\ SameOpen(b, c) /\ c.num_np_up = b.num_np_up
      /\ c.ipcp_is_up = b.ipcp_is_up /\ c.iface = "down"
  BY <1>1, SetIface
<1> HIDE DEF c, p
<1>2. /\ c \in Daemon /\ c.lcp = s.lcp /\ c.ipcp = s.ipcp /\ c.phase = p
      /\ SameEcho(s, c) /\ SameOpen(s, c) /\ c.num_np_up = 0 /\ c.ipcp_is_up = 0 /\ c.iface = "down"
  BY <1>1, <1>a DEF SameEcho, SameOpen
<1>3. CASE c.script = "s_up" /\ c.script_pid = 0
  <2> DEFINE t == IpcpScript(c, "s_down", env)
  <2>1. /\ t \in Daemon /\ t.lcp = c.lcp /\ t.ipcp = c.ipcp /\ t.phase = c.phase
        /\ SameEcho(c, t) /\ SameOpen(c, t) /\ t.num_np_up = c.num_np_up /\ t.iface = c.iface
        /\ t.ipcp_is_up = c.ipcp_is_up /\ t.script = "s_down"
    BY <1>2, ScriptFacts
  <2>2. ipcp_down(s, env) = t BY <1>0, <1>3
  <2> HIDE DEF t
  <2> QED BY <1>2, <2>1, <2>2 DEF SameEcho, SameOpen, Net, p
<1>4. CASE ~(c.script = "s_up" /\ c.script_pid = 0)
  <2>1. ipcp_down(s, env) = c BY <1>0, <1>4
  <2> QED BY <1>2, <1>4, <2>1 DEF Net, p
<1> QED BY <1>3, <1>4

\* LowerDown makes no callback but down; and then Close ends in INITIAL.
LEMMA LowerDownFacts ==
  ASSUME NEW f, Quiet(f)
  PROVE  LET r == LowerDown(f)
         IN /\ Sound(f, r) /\ r.state \in {"INITIAL", "STARTING"}
            /\ r.calls = IF f.state = "OPENED" THEN << "down" >> ELSE << >>
<1> DEFINE r == LowerDown(f)
<1>1. Sound(f, r) BY LowerDownSound
<1>2. r.state \in {"INITIAL", "STARTING"}
  <2>1. ASSUME NEW k \in Fsm, NEW st PROVE [k EXCEPT !.state = st].state = st
    BY DEF Fsm
  <2>2. Untimeout(f) \in Fsm /\ Callback(f, "down") \in Fsm /\ f \in Fsm
    BY TimerFacts, CallbackFacts DEF Quiet
  <2>3. PICK k \in Fsm, st \in {"INITIAL", "STARTING"} : r = [k EXCEPT !.state = st]
    BY <2>2 DEF LowerDown
  <2>4. r.state = st BY <2>1, <2>3
  <2> QED BY <2>4
<1>3. r.state # "OPENED" /\ r.state \notin {"CLOSED", "STOPPED"} BY <1>2
<1>4. Reported(f, r) BY <1>1 DEF Sound
<1>5. r.calls = IF f.state = "OPENED" THEN << "down" >> ELSE << >>
  BY <1>3, <1>4 DEF Reported, CallShapes
<1> QED BY <1>1, <1>2, <1>5

\* Close of an automaton without a lower layer ends in INITIAL without a word; and no
\* automaton is open after Close.
LEMMA CloseFacts ==
  ASSUME NEW f, Quiet(f)
  PROVE  LET r == Close(f)
         IN /\ Sound(f, r) /\ r.state # "OPENED"
            /\ f.state \in {"INITIAL", "STARTING"} => r.state = "INITIAL" /\ Quiet(r)
<1> DEFINE r == Close(f)
<1>0. f \in Fsm BY DEF Quiet
<1>1. Sound(f, r) BY CloseSound
<1>2. CASE f.state \in {"INITIAL", "STARTING"}
  <2>1. f.state \notin Negotiating \cup {"OPENED"} /\ f.state \notin Timed BY <1>2 DEF Negotiating, Timed
  <2>2. f.state = "INITIAL" => r = f BY <2>1 DEF Close
  <2>3. f.state = "STARTING" => r = [f EXCEPT !.state = "INITIAL"] BY <2>1 DEF Close
  <2>4. "INITIAL" \in FsmStates BY DEF FsmStates
  <2> DEFINE q == [f EXCEPT !.state = "INITIAL"]
  <2>5. q.state = "INITIAL" /\ q.calls = f.calls BY <2>4, <1>0, StateFacts
  <2> HIDE DEF q, r
  <2>6. r.state = "INITIAL" /\ r.calls = << >> BY <1>2, <2>2, <2>3, <2>5 DEF Quiet, q
  <2> QED BY <1>1, <2>6 DEF Sound, Quiet, r
<1>3. CASE f.state \in Negotiating \cup {"OPENED"}
  <2>1. r = TerminateLayer(f, "CLOSING") BY <1>3 DEF Close
  <2>2. r.state # "OPENED" BY <2>1, <1>3, TerminateLayerSound
  <2>3. f.state \notin {"INITIAL", "STARTING"} BY <1>3 DEF Negotiating
  <2> QED BY <1>1, <2>2, <2>3
<1>4. CASE f.state \notin Negotiating \cup {"INITIAL", "STARTING", "OPENED"}
  <2>1. "CLOSED" \in FsmStates /\ "CLOSING" \in FsmStates BY DEF FsmStates, Timed
  <2>2. \A st \in FsmStates : [f EXCEPT !.state = st].state = st BY <1>0, StateFacts
  <2>3. r = f \/ r = [f EXCEPT !.state = "CLOSED"] \/ r = [f EXCEPT !.state = "CLOSING"]
    BY <1>4 DEF Close
  <2>4. r.state # "OPENED" BY <1>4, <2>1, <2>2, <2>3
  <2> QED BY <1>1, <1>4, <2>4
<1> QED BY <1>2, <1>3, <1>4

----------------------------------------------------------------------------
\* upper_layers_down: IPCP and everything above it are gone.
WithoutNet(s, f) == [s EXCEPT !.ipcp = f, !.num_np_open = 0, !.num_np_up = 0]
\* It leaves the rest of the daemon alone.
LEMMA SetWithoutNet ==
  ASSUME NEW s \in Daemon, NEW f \in Fsm
  PROVE  LET t == WithoutNet(s, f)
         IN /\ t \in Daemon /\ t.lcp = s.lcp /\ t.ipcp = f /\ t.phase = s.phase
            /\ SameEcho(s, t) /\ t.num_np_open = 0 /\ t.num_np_up = 0 /\ t.iface = s.iface
            /\ t.ipcp_is_up = s.ipcp_is_up /\ t.script = s.script /\ t.script_pid = s.script_pid
<1>1. 0 \in Int BY SMTT(30)
<1> QED BY <1>1 DEF WithoutNet, Daemon, SameEcho

\* In whatever state IPCP was.
LEMMA UpperDown ==
  ASSUME NEW s \in Daemon, Quiet(s.ipcp), Net(s, IpcpOpen(s)), NEW env \in Env
  PROVE  LET t == upper_layers_down(s, env)
         IN /\ t \in Daemon /\ Quiet(t.ipcp) /\ t.ipcp.state = "INITIAL" /\ Net(t, FALSE)
            /\ t.lcp = s.lcp /\ t.num_np_open = 0 /\ SameEcho(s, t)
            /\ t.phase \in {s.phase, "NETWORK"}
<1> DEFINE f == LowerDown(s.ipcp)
           a == [s EXCEPT !.ipcp = Clear(f)]
           u == IF f.calls = << >> THEN a ELSE ipcp_down(a, env)
           t == WithoutNet(u, Close(u.ipcp))
<1>1. /\ Sound(s.ipcp, f) /\ f.state \in {"INITIAL", "STARTING"}
      /\ f.calls = IF IpcpOpen(s) THEN << "down" >> ELSE << >>
  BY LowerDownFacts DEF IpcpOpen
<1>2. Quiet(Clear(f)) /\ Clear(f).state = f.state BY <1>1, ClearQuiet
<1>3. upper_layers_down(s, env) = t
  <2>1. upper_layers_down(s, env) = [u EXCEPT !.ipcp = Close(@), !.num_np_open = 0, !.num_np_up = 0]
    BY DEF upper_layers_down
  <2> QED BY <2>1 DEF WithoutNet
<1> HIDE DEF f
<1>4. /\ a \in Daemon /\ a.lcp = s.lcp /\ a.ipcp = Clear(f) /\ a.phase = s.phase
      /\ SameEcho(s, a) /\ SameNet(s, a)
  <2>1. Clear(f) \in Fsm BY <1>2 DEF Quiet
  <2> QED BY <2>1, SetFsm
<1> HIDE DEF a
<1>5. /\ u \in Daemon /\ u.lcp = s.lcp /\ u.ipcp = Clear(f) /\ u.phase \in {s.phase, "NETWORK"}
      /\ SameEcho(s, u) /\ Net(u, FALSE)
  <2>1. CASE IpcpOpen(s)
    <3>1. u = ipcp_down(a, env) BY <1>1, <2>1, CallLists
    <3>2. a.num_np_up = a.ipcp_is_up BY <1>4 DEF SameNet, Net
    <3> HIDE DEF u
    <3>3. /\ u \in Daemon /\ u.lcp = a.lcp /\ u.ipcp = a.ipcp /\ SameEcho(a, u) /\ Net(u, FALSE)
          /\ u.phase = IF a.ipcp_is_up = 1 THEN "NETWORK" ELSE a.phase
      BY <1>4, <3>1, <3>2, DownFacts
    <3> QED BY <1>4, <3>3 DEF SameEcho
  <2>2. CASE ~IpcpOpen(s)
    <3>1. u = a BY <1>1, <2>2
    <3>2. Net(s, FALSE) BY <2>2 DEF Net
    <3>3. Net(a, FALSE) BY <1>4, <3>2 DEF Net, SameNet
    <3> QED BY <1>4, <3>1, <3>3
  <2> QED BY <2>1, <2>2
<1> HIDE DEF u
<1>6. Quiet(Close(u.ipcp)) /\ Close(u.ipcp).state = "INITIAL" /\ Close(u.ipcp) \in Fsm
  <2>1. Quiet(u.ipcp) /\ u.ipcp.state \in {"INITIAL", "STARTING"} BY <1>1, <1>2, <1>5
  <2>2. Close(u.ipcp).state = "INITIAL" /\ Quiet(Close(u.ipcp)) BY <2>1, CloseFacts
  <2> QED BY <2>2 DEF Quiet
<1>7. /\ t \in Daemon /\ t.lcp = u.lcp /\ t.ipcp = Close(u.ipcp) /\ t.phase = u.phase
      /\ SameEcho(u, t) /\ t.num_np_open = 0 /\ t.num_np_up = 0 /\ t.iface = u.iface
      /\ t.ipcp_is_up = u.ipcp_is_up /\ t.script = u.script /\ t.script_pid = u.script_pid
  BY <1>5, <1>6, SetWithoutNet
<1> HIDE DEF t
<1>8. Net(t, FALSE) BY <1>5, <1>7 DEF Net
<1>9. SameEcho(s, t) BY <1>5, <1>7 DEF SameEcho
<1> QED BY <1>3, <1>5, <1>6, <1>7, <1>8, <1>9

\* link_down.
LEMMA LinkDown ==
  ASSUME NEW s \in Daemon, Quiet(s.ipcp), Net(s, IpcpOpen(s)), s.phase # "DEAD", NEW env \in Env
  PROVE  LET t == link_down(s, env)
         IN /\ t \in Daemon /\ Quiet(t.ipcp) /\ t.ipcp.state = "INITIAL" /\ Net(t, FALSE)
            /\ t.lcp = s.lcp /\ t.num_np_open = 0 /\ SameEcho(s, t) /\ t.phase = "ESTABLISH"
<1> DEFINE a == upper_layers_down(s, env)
           t == [a EXCEPT !.phase = "ESTABLISH"]
<1>1. /\ a \in Daemon /\ Quiet(a.ipcp) /\ a.ipcp.state = "INITIAL" /\ Net(a, FALSE)
      /\ a.lcp = s.lcp /\ a.num_np_open = 0 /\ SameEcho(s, a) /\ a.phase \in {s.phase, "NETWORK"}
  BY UpperDown
<1>2. link_down(s, env) = [a EXCEPT !.phase = IF @ = "DEAD" THEN @ ELSE "ESTABLISH"] BY DEF link_down
<1> HIDE DEF a
<1>3. a.phase # "DEAD" BY <1>1
<1>4. link_down(s, env) = t BY <1>2, <1>3
<1>5. "ESTABLISH" \in Phases BY DEF Phases
<1>6. /\ t \in Daemon /\ t.lcp = a.lcp /\ t.ipcp = a.ipcp /\ t.phase = "ESTABLISH"
      /\ SameEcho(a, t) /\ SameNet(a, t) /\ SameOpen(a, t)
  BY <1>1, <1>5, SetPhase
<1> HIDE DEF t
<1>7. Net(t, FALSE) BY <1>1, <1>6 DEF Net, SameNet
<1>8. t.num_np_open = 0 /\ SameEcho(s, t) BY <1>1, <1>6 DEF SameEcho, SameOpen
<1> QED BY <1>1, <1>4, <1>6, <1>7, <1>8

\* link_terminated without a hangup, before PHASE_DEAD.
WithDead(s, f) == [s EXCEPT !.lcp = f, !.phase = "DEAD"]
\* The lower layer goes down, and nothing above it changes.
LEMMA LinkTerminated ==
  ASSUME NEW s \in Daemon, Quiet(s.lcp), ~LcpOpen(s), s.phase # "DEAD"
  PROVE  LET t == link_terminated(s, FALSE)
         IN /\ t \in Daemon /\ Quiet(t.lcp) /\ t.lcp.state \in {"INITIAL", "STARTING"}
            /\ t.ipcp = s.ipcp /\ t.phase = "DEAD" /\ SameEcho(s, t) /\ SameNet(s, t) /\ SameOpen(s, t)
<1> DEFINE f == LowerDown(s.lcp)
           t == WithDead(s, f)
<1>1. Sound(s.lcp, f) /\ f.state \in {"INITIAL", "STARTING"} /\ f.calls = << >>
  BY LowerDownFacts DEF LcpOpen
<1>2. Quiet(f) /\ f \in Fsm BY <1>1 DEF Sound, Quiet
<1>3. link_terminated(s, FALSE) = t BY DEF link_terminated, WithDead
<1> HIDE DEF f
<1>4. "DEAD" \in Phases BY DEF Phases
<1>5. /\ t \in Daemon /\ t.lcp = f /\ t.ipcp = s.ipcp /\ t.phase = "DEAD"
      /\ SameEcho(s, t) /\ SameNet(s, t) /\ SameOpen(s, t)
  BY <1>2, <1>4 DEF WithDead, Daemon, SameEcho, SameNet, SameOpen
<1> HIDE DEF t
<1> QED BY <1>1, <1>2, <1>3, <1>5

\* The echo timer is stopped when LCP goes down ...
LEMMA EchoDown ==
  ASSUME NEW s \in Daemon, s.echo_timer = s.echo_running
  PROVE  LET t == lcp_echo_lowerdown(s)
         IN /\ t \in Daemon /\ t.lcp = s.lcp /\ t.ipcp = s.ipcp /\ t.phase = s.phase
            /\ SameNet(s, t) /\ SameOpen(s, t) /\ t.echo_timer = 0 /\ t.echo_running = 0
<1> DEFINE q == [s EXCEPT !.echo_timer = 0, !.echo_running = 0]
<1>0. s.echo_running \in {0, 1} BY DEF Daemon
<1>1. CASE s.echo_running = 0
  BY <1>1 DEF lcp_echo_lowerdown, SameNet, SameOpen
<1>2. CASE s.echo_running = 1
  <2>1. (IF s.echo_timer > 0 THEN s.echo_timer - 1 ELSE 0) = 0 /\ 1 # 0 /\ 0 \in Nat
    <3>1. s.echo_timer = 1 BY <1>2
    <3> QED BY <3>1, SMTT(30)
  <2>2. lcp_echo_lowerdown(s) = q BY <1>2, <2>1 DEF lcp_echo_lowerdown
  <2>3. /\ q \in Daemon /\ q.lcp = s.lcp /\ q.ipcp = s.ipcp /\ q.phase = s.phase
        /\ SameNet(s, q) /\ SameOpen(s, q) /\ q.echo_timer = 0 /\ q.echo_running = 0
    BY <2>1 DEF Daemon, SameNet, SameOpen
  <2> HIDE DEF q
  <2> QED BY <2>2, <2>3
<1> QED BY <1>0, <1>1, <1>2
\* LcpEchoCheck puts the callout on an empty list.
EchoSet(s, t) ==
  /\ t \in Daemon /\ t.lcp = s.lcp /\ t.ipcp = s.ipcp /\ t.phase = s.phase
  /\ SameNet(s, t) /\ SameOpen(s, t) /\ t.echo_timer = 1 /\ t.echo_running = 1
\* One entry, and the flag agrees.
LEMMA EchoCheck ==
  ASSUME NEW a \in Daemon, a.echo_timer = 0 PROVE EchoSet(a, LcpEchoCheck(a))
<1> DEFINE n == IF a.echos_pending < a.echo_fails THEN a.echos_pending + 1 ELSE a.echos_pending
           t == [a EXCEPT !.echos_pending = n, !.echo_timer = 1, !.echo_running = 1]
<1>1. a.echos_pending \in Nat BY DEF Daemon
<1>2. n \in Nat /\ 0 + 1 = 1 /\ 1 \in Nat BY <1>1, SMTT(30)
<1>3. LcpEchoCheck(a) = t BY <1>1, <1>2 DEF LcpEchoCheck
<1> HIDE DEF n
<1>a. t \in Daemon BY <1>2, ZenonT(90) DEF Daemon
<1>b. /\ t.lcp = a.lcp /\ t.ipcp = a.ipcp /\ t.phase = a.phase
      /\ t.echo_timer = 1 /\ t.echo_running = 1
  BY DEF Daemon
<1>c. SameNet(a, t) /\ SameOpen(a, t) BY DEF Daemon, SameNet, SameOpen
<1> HIDE DEF t
<1> QED BY <1>3, <1>a, <1>b, <1>c DEF EchoSet

\* The echo timer starts with LCP.
LEMMA EchoUp ==
  ASSUME NEW s \in Daemon, s.echo_timer = 0
  PROVE  EchoSet(s, lcp_echo_lowerup(s))
<1> DEFINE a == [s EXCEPT !.echos_pending = 0, !.echo_running = 0]
<1>0. 0 \in Nat BY SMTT(30)
<1>1. /\ a \in Daemon /\ a.lcp = s.lcp /\ a.ipcp = s.ipcp /\ a.phase = s.phase
      /\ SameNet(s, a) /\ SameOpen(s, a) /\ a.echo_timer = 0
  <2>1. a \in Daemon BY <1>0, ZenonT(90) DEF Daemon
  <2>2. a.lcp = s.lcp /\ a.ipcp = s.ipcp /\ a.phase = s.phase BY DEF Daemon
  <2>3. SameNet(s, a) /\ SameOpen(s, a) BY DEF Daemon, SameNet, SameOpen
  <2>4. a.echo_timer = 0 BY DEF Daemon
  <2> QED BY <2>1, <2>2, <2>3, <2>4
<1> DEFINE t == LcpEchoCheck(a)
<1>2. lcp_echo_lowerup(s) = t BY DEF lcp_echo_lowerup
<1> HIDE DEF a
<1>3. EchoSet(a, t) BY <1>1, EchoCheck
<1> HIDE DEF t
<1> QED BY <1>1, <1>2, <1>3 DEF EchoSet, SameNet, SameOpen

\* IPCP starts to negotiate, over an LCP that has just opened.
LEMMA IpcpStarts ==
  ASSUME NEW f, Quiet(f), f.state = "INITIAL"
  PROVE  Quiet(Clear(Open(LowerUp(f)))) /\ Clear(Open(LowerUp(f))).state # "OPENED"
<1> DEFINE g == LowerUp(f)
           h == Open(g)
<1>0. f \in Fsm BY DEF Quiet
<1>1. g = [f EXCEPT !.state = "CLOSED"] BY DEF LowerUp
<1>2. "CLOSED" \in FsmStates /\ "STOPPED" \in FsmStates BY DEF FsmStates
<1>a. \A k \in Fsm : \A st \in FsmStates :
        [k EXCEPT !.state = st].state = st /\ [k EXCEPT !.state = st].calls = k.calls
  BY StateFacts
<1>4. Sound(f, g) BY LowerUpSound
<1> HIDE DEF g
<1>b. [f EXCEPT !.state = "CLOSED"].state = "CLOSED" /\ [f EXCEPT !.state = "CLOSED"].calls = f.calls
  BY <1>0, <1>2, <1>a
<1>3. g.state = "CLOSED" /\ g.calls = f.calls BY <1>1, <1>b
<1>5. Quiet(g) /\ g \in Fsm BY <1>3, <1>4 DEF Sound, Quiet
<1>6. Sound(g, h) BY <1>5, OpenSound
<1>7. h = [g EXCEPT !.state = "STOPPED"] \/ h = Renegotiate(g) BY <1>3 DEF Open
<1> HIDE DEF h
<1>8. h = [g EXCEPT !.state = "STOPPED"] => h.state = "STOPPED"
  <2>1. [g EXCEPT !.state = "STOPPED"].state = "STOPPED" BY <1>2, <1>5, <1>a
  <2> QED BY <2>1
<1>9. h = Renegotiate(g) => h.state = "REQSENT" BY <1>5, RenegotiateFacts
<1>10. Quiet(Clear(h)) /\ Clear(h).state = h.state BY <1>6, ClearQuiet
<1> QED BY <1>7, <1>8, <1>9, <1>10 DEF g, h

\* link_established.
WithIpcp(s, f) == [s EXCEPT !.ipcp = f, !.phase = "NETWORK", !.num_np_open = 1, !.ipcp_is_open = 1]
\* IPCP negotiates and counts as open.
LEMMA LinkEstablished ==
  ASSUME NEW s \in Daemon, Quiet(s.ipcp), s.ipcp.state = "INITIAL", s.num_np_open = 0
  PROVE  LET t == link_established(s)
         IN /\ t \in Daemon /\ Quiet(t.ipcp) /\ ~IpcpOpen(t) /\ t.lcp = s.lcp /\ t.phase = "NETWORK"
            /\ t.num_np_open = 1 /\ t.ipcp_is_open = 1 /\ SameEcho(s, t) /\ SameNet(s, t)
<1> DEFINE f == Clear(Open(LowerUp(s.ipcp)))
           t == WithIpcp(s, f)
<1>1. Quiet(f) /\ f.state # "OPENED" BY IpcpStarts
<1>2. f \in Fsm BY <1>1 DEF Quiet
<1>3. 0 + 1 = 1 /\ 1 \in Int BY SMTT(30)
<1>4. link_established(s) = t BY <1>3 DEF link_established, WithIpcp
<1> HIDE DEF f
<1>5. "NETWORK" \in Phases BY DEF Phases
<1>6. t \in Daemon BY <1>2, <1>3, <1>5, ZenonT(90) DEF WithIpcp, Daemon
<1>7. /\ t.ipcp = f /\ t.lcp = s.lcp /\ t.phase = "NETWORK"
      /\ t.num_np_open = 1 /\ t.ipcp_is_open = 1
  BY DEF WithIpcp, Daemon
<1>8. SameEcho(s, t) /\ SameNet(s, t) BY DEF WithIpcp, Daemon, SameEcho, SameNet
<1> HIDE DEF t
<1> QED BY <1>1, <1>4, <1>6, <1>7, <1>8 DEF IpcpOpen

----------------------------------------------------------------------------
\* The elements of the lists of callbacks.
LEMMA CallItems ==
  /\ Len(<< >>) < 2 /\ \A c : << c >> # << >> /\ << c >>[1] = c /\ Len(<< c >>) < 2
  /\ \A b, c : << b, c >> # << >> /\ << b, c >>[1] = b /\ << b, c >>[2] = c /\ ~(Len(<< b, c >>) < 2)
BY SMTT(30)

\* What LcpCalls does for each of them.
AfterLcp(s, f) == [s EXCEPT !.lcp = Clear(f)]
\* One case per list that a call into the automaton can make.
LEMMA LcpShapes ==
  ASSUME NEW s, NEW f, NEW env
  PROVE  LET a == AfterLcp(s, f)
             r == LcpCalls(s, f, env)
             down == link_down(lcp_echo_lowerdown(a), env)
         IN /\ f.calls = << >> => r = a
            /\ f.calls = << "up" >> => r = link_established(lcp_echo_lowerup(a))
            /\ f.calls = << "down" >> => r = down
            /\ f.calls = << "finished" >> => r = link_terminated(a, FALSE)
            /\ f.calls = << "down", "finished" >> => r = link_terminated(down, FALSE)
<1> DEFINE a == AfterLcp(s, f)
           r == LcpCalls(s, f, env)
           u == IF f.calls = << >> THEN a ELSE LcpCall(a, f.calls[1], env)
<1>1. r = IF Len(f.calls) < 2 THEN u ELSE LcpCall(u, f.calls[2], env) BY DEF LcpCalls, AfterLcp
<1>2. \A c : f.calls = << c >> => r = LcpCall(a, c, env) BY <1>1, CallItems
<1>3. f.calls = << >> => r = a BY <1>1, CallItems
<1>4. f.calls = << "down", "finished" >> => r = LcpCall(LcpCall(a, "down", env), "finished", env)
  <2> SUFFICES ASSUME f.calls = << "down", "finished" >>
               PROVE  r = LcpCall(LcpCall(a, "down", env), "finished", env)
    OBVIOUS
  <2>1. f.calls # << >> /\ f.calls[1] = "down" /\ f.calls[2] = "finished" /\ ~(Len(f.calls) < 2)
    BY SMTT(30)
  <2>2. u = LcpCall(a, "down", env) BY <2>1
  <2> HIDE DEF u, a, r
  <2> QED BY <1>1, <2>1, <2>2
<1> HIDE DEF a, r
<1>5. /\ LcpCall(a, "up", env) = link_established(lcp_echo_lowerup(a))
      /\ LcpCall(a, "down", env) = link_down(lcp_echo_lowerdown(a), env)
      /\ \A x : LcpCall(x, "finished", env) = link_terminated(x, FALSE)
  BY DEF LcpCall
<1>6. f.calls = << "up" >> => r = link_established(lcp_echo_lowerup(a)) BY <1>2, <1>5
<1>7. f.calls = << "down" >> => r = link_down(lcp_echo_lowerdown(a), env) BY <1>2, <1>5
<1>8. f.calls = << "finished" >> => r = link_terminated(a, FALSE) BY <1>2, <1>5
<1>9. f.calls = << "down", "finished" >> =>
        r = link_terminated(link_down(lcp_echo_lowerdown(a), env), FALSE) BY <1>4, <1>5
<1> QED BY <1>3, <1>6, <1>7, <1>8, <1>9 DEF a, r

\* A call into the LCP automaton with its callbacks leads from Mid to DaemonInv, if LCP
\* stays open only where it may and the main loop is not over.
MayTurn(s, f) ==
  /\ LcpOpen(s) /\ f.state = "OPENED" => Stays(s)
  /\ s.phase = "DEAD" => f.state \in {"INITIAL", "STARTING"} /\ ~LcpOpen(s)
Turned(s, f, r) ==
  /\ DaemonInv(r) /\ (s.phase = "DEAD" => r.phase = "DEAD" /\ r.lcp.state = f.state)
  /\ f.state # "OPENED" => ~LcpOpen(r)
  /\ f.state \in {"INITIAL", "STARTING"} => r.lcp.state \in {"INITIAL", "STARTING"}
\* One case per list of callbacks.
LEMMA LcpCallsInv ==
  ASSUME NEW s, Mid(s), NEW f, Sound(s.lcp, f), MayTurn(s, f), NEW env \in Env
  PROVE  Turned(s, f, LcpCalls(s, f, env))
<1> DEFINE a == AfterLcp(s, f)
           b == lcp_echo_lowerdown(a)
           r == LcpCalls(s, f, env)
<1>0. /\ s \in Daemon /\ Quiet(s.lcp) /\ Quiet(s.ipcp) /\ Net(s, IpcpOpen(s))
      /\ s.phase = "RUNNING" => IpcpOpen(s)
      /\ s.echo_timer = s.echo_running
      /\ ~LcpOpen(s) => s.ipcp.state = "INITIAL" /\ s.num_np_open = 0 /\ s.echo_timer = 0
  BY DEF Mid
<1>c. /\ LcpOpen(s) /\ f.state = "OPENED" => Stays(s)
      /\ s.phase = "DEAD" => f.state \in {"INITIAL", "STARTING"} /\ ~LcpOpen(s)
  BY DEF MayTurn
<1>1. Quiet(Clear(f)) /\ Clear(f).state = f.state BY ClearQuiet
<1>2. /\ a \in Daemon /\ a.lcp = Clear(f) /\ a.ipcp = s.ipcp /\ a.phase = s.phase
      /\ SameEcho(s, a) /\ SameNet(s, a) /\ SameOpen(s, a)
  <2>1. Clear(f) \in Fsm BY <1>1 DEF Quiet
  <2> QED BY <1>0, <2>1, SetFsm DEF AfterLcp
<1>3. /\ f.calls = << >> => r = a
      /\ f.calls = << "up" >> => r = link_established(lcp_echo_lowerup(a))
      /\ f.calls = << "down" >> => r = link_down(b, env)
      /\ f.calls = << "finished" >> => r = link_terminated(a, FALSE)
      /\ f.calls = << "down", "finished" >> => r = link_terminated(link_down(b, env), FALSE)
  BY LcpShapes
<1> HIDE DEF a, b, r
<1>4. Quiet(a.lcp) /\ a.lcp.state = f.state /\ Quiet(a.ipcp) /\ Net(a, IpcpOpen(a)) /\ a.echo_timer = a.echo_running
  <2>1. IpcpOpen(a) <=> IpcpOpen(s) BY <1>2 DEF IpcpOpen
  <2>2. Net(a, IpcpOpen(a)) BY <1>0, <1>2, <2>1 DEF Net, SameNet
  <2> QED BY <1>0, <1>1, <1>2, <2>2 DEF SameEcho
<1>5. Reported(s.lcp, f) BY DEF Sound
<1>a. IpcpOpen(a) <=> IpcpOpen(s) BY <1>2 DEF IpcpOpen
<1>b. LcpOpen(a) <=> f.state = "OPENED" BY <1>4 DEF LcpOpen
<1>6. CASE f.calls = << >>
  <2>1. LcpOpen(s) <=> f.state = "OPENED" BY <1>5, <1>6 DEF Reported, LcpOpen
  <2>2. Mid(a)
    <3>1. ~LcpOpen(a) => a.ipcp.state = "INITIAL" /\ a.num_np_open = 0 /\ a.echo_timer = 0
      BY <1>0, <1>2, <1>b, <2>1 DEF SameOpen, SameEcho
    <3> QED BY <1>0, <1>2, <1>4, <1>a, <3>1 DEF Mid
  <2>3. LcpOpen(a) => Stays(a)
    BY <1>c, <1>2, <1>a, <1>b, <2>1 DEF Stays, SameOpen, SameEcho
  <2>4. DaemonInv(a) BY <1>c, <1>2, <1>4, <2>2, <2>3 DEF DaemonInv
  <2> QED BY <1>2, <1>3, <1>4, <1>6, <1>b, <2>4 DEF r, Turned
<1>7. CASE f.calls = << "up" >>
  <2>1. ~LcpOpen(s) /\ f.state = "OPENED" BY <1>5, <1>7 DEF Reported, LcpOpen
  <2>2. s.ipcp.state = "INITIAL" /\ s.num_np_open = 0 /\ s.echo_timer = 0 /\ s.phase # "DEAD"
    BY <1>0, <1>c, <2>1
  <2> DEFINE c == lcp_echo_lowerup(a)
  <2>3. a.echo_timer = 0 /\ a.num_np_open = 0 BY <1>2, <2>2 DEF SameEcho, SameOpen
  <2>4. /\ c \in Daemon /\ c.lcp = a.lcp /\ c.ipcp = a.ipcp
        /\ SameNet(a, c) /\ SameOpen(a, c) /\ c.echo_timer = 1 /\ c.echo_running = 1
    BY <1>2, <2>3, EchoUp DEF EchoSet
  <2>5. r = link_established(c) BY <1>3, <1>7
  <2> HIDE DEF c
  <2>6. c.num_np_open = 0 /\ Quiet(c.ipcp) /\ c.ipcp.state = "INITIAL"
    BY <1>2, <1>4, <2>2, <2>3, <2>4 DEF SameOpen
  <2>7. /\ r \in Daemon /\ Quiet(r.ipcp) /\ ~IpcpOpen(r) /\ r.lcp = c.lcp /\ r.phase = "NETWORK"
        /\ r.num_np_open = 1 /\ r.ipcp_is_open = 1 /\ SameEcho(c, r) /\ SameNet(c, r)
    BY <2>4, <2>5, <2>6, LinkEstablished
  <2>8. Net(a, FALSE) BY <1>0, <1>2, <1>4, <2>2 DEF Net, IpcpOpen
  <2>9. Net(r, IpcpOpen(r))
    <3>1. Net(r, FALSE) BY <2>4, <2>7, <2>8 DEF Net, SameNet
    <3> QED BY <2>7, <3>1 DEF Net
  <2>10. LcpOpen(r) /\ Quiet(r.lcp) BY <1>4, <2>1, <2>4, <2>7 DEF LcpOpen
  <2>11. r.echo_timer = 1 /\ r.echo_running = 1 BY <2>4, <2>7 DEF SameEcho
  <2>12. Mid(r) BY <2>7, <2>9, <2>10, <2>11 DEF Mid
  <2>13. Stays(r) BY <2>7, <2>11 DEF Stays
  <2>14. DaemonInv(r) BY <2>7, <2>12, <2>13 DEF DaemonInv
  <2> QED BY <2>1, <2>2, <2>14 DEF r, Turned
<1>8. CASE f.calls \in {<< "down" >>, << "down", "finished" >>}
  <2>1. LcpOpen(s) /\ f.state # "OPENED" BY <1>5, <1>8 DEF Reported, LcpOpen
  <2>2. s.phase # "DEAD" BY <1>c, <2>1
  <2>3. /\ b \in Daemon /\ b.lcp = a.lcp /\ b.ipcp = a.ipcp /\ b.phase = a.phase
        /\ SameNet(a, b) /\ SameOpen(a, b) /\ b.echo_timer = 0 /\ b.echo_running = 0
    BY <1>2, <1>4, EchoDown DEF b
  <2> DEFINE c == link_down(b, env)
  <2>4. Net(b, IpcpOpen(b))
    <3>1. IpcpOpen(b) <=> IpcpOpen(a) BY <2>3 DEF IpcpOpen
    <3> QED BY <1>4, <2>3, <3>1 DEF Net, SameNet
  <2>5. b.phase # "DEAD" /\ Quiet(b.ipcp) BY <1>2, <1>4, <2>2, <2>3
  <2>6. /\ c \in Daemon /\ Quiet(c.ipcp) /\ c.ipcp.state = "INITIAL" /\ Net(c, FALSE)
        /\ c.lcp = b.lcp /\ c.num_np_open = 0 /\ SameEcho(b, c) /\ c.phase = "ESTABLISH"
    BY <2>3, <2>4, <2>5, LinkDown
  <2> HIDE DEF c
  <2>7. Quiet(c.lcp) /\ ~LcpOpen(c) BY <1>4, <2>1, <2>3, <2>6 DEF LcpOpen
  <2>8. ~IpcpOpen(c) /\ Net(c, IpcpOpen(c)) BY <2>6 DEF IpcpOpen, Net
  <2>9. c.echo_timer = 0 /\ c.echo_running = 0 BY <2>3, <2>6 DEF SameEcho
  <2>10. Mid(c) BY <2>6, <2>7, <2>8, <2>9 DEF Mid
  <2>11. CASE f.calls = << "down" >>
    <3>1. r = c BY <1>3, <2>11 DEF c
    <3>2. DaemonInv(c) BY <2>6, <2>7, <2>10 DEF DaemonInv
    <3>3. c.lcp.state = f.state BY <1>4, <2>3, <2>6
    <3> QED BY <2>2, <2>7, <3>1, <3>2, <3>3 DEF r, Turned
  <2>12. CASE f.calls = << "down", "finished" >>
    <3>1. r = link_terminated(c, FALSE) BY <1>3, <2>12 DEF c
    <3>2. /\ r \in Daemon /\ Quiet(r.lcp) /\ r.lcp.state \in {"INITIAL", "STARTING"}
          /\ r.ipcp = c.ipcp /\ r.phase = "DEAD" /\ SameEcho(c, r) /\ SameNet(c, r) /\ SameOpen(c, r)
      BY <2>6, <2>7, <3>1, LinkTerminated
    <3>3. ~IpcpOpen(r) /\ ~LcpOpen(r) BY <2>6, <3>2 DEF IpcpOpen, LcpOpen
    <3>4. Net(r, IpcpOpen(r)) BY <2>6, <3>2, <3>3 DEF Net, SameNet
    <3>5. r.num_np_open = 0 /\ r.echo_timer = 0 /\ r.echo_running = 0
      BY <2>6, <2>9, <3>2 DEF SameEcho, SameOpen
    <3>6. Mid(r) BY <2>6, <3>2, <3>4, <3>5 DEF Mid
    <3>7. DaemonInv(r) BY <3>2, <3>3, <3>6 DEF DaemonInv
    <3> QED BY <2>2, <3>2, <3>3, <3>7 DEF r, Turned
  <2> QED BY <1>8, <2>11, <2>12
<1>9. CASE f.calls = << "finished" >>
  <2>1. ~LcpOpen(s) /\ f.state # "OPENED" /\ f.state \notin {"INITIAL", "STARTING"}
    BY <1>5, <1>9 DEF Reported, LcpOpen
  <2>2. s.phase # "DEAD" /\ a.phase # "DEAD" /\ ~LcpOpen(a) BY <1>c, <1>2, <1>b, <2>1
  <2>3. r = link_terminated(a, FALSE) BY <1>3, <1>9
  <2>4. /\ r \in Daemon /\ Quiet(r.lcp) /\ r.lcp.state \in {"INITIAL", "STARTING"}
        /\ r.ipcp = a.ipcp /\ r.phase = "DEAD" /\ SameEcho(a, r) /\ SameNet(a, r) /\ SameOpen(a, r)
    BY <1>2, <1>4, <2>2, <2>3, LinkTerminated
  <2>5. ~LcpOpen(r) BY <2>4 DEF LcpOpen
  <2>6. IpcpOpen(r) <=> IpcpOpen(a) BY <2>4 DEF IpcpOpen
  <2>7. Net(r, IpcpOpen(r)) BY <1>4, <2>4, <2>6 DEF Net, SameNet
  <2>8. /\ r.num_np_open = 0 /\ r.echo_timer = 0 /\ r.echo_running = 0 /\ r.ipcp.state = "INITIAL"
        /\ Quiet(r.ipcp)
    BY <1>0, <1>2, <1>4, <2>1, <2>4 DEF SameEcho, SameOpen
  <2>9. Mid(r) BY <2>4, <2>7, <2>8 DEF Mid
  <2>10. DaemonInv(r) BY <2>4, <2>5, <2>9 DEF DaemonInv
  <2> QED BY <2>2, <2>4, <2>5, <2>10 DEF r, Turned
<1> QED BY <1>5, <1>6, <1>7, <1>8, <1>9 DEF Reported, CallShapes

\* lcp_close.
LEMMA LcpCloseInv ==
  ASSUME NEW s, Mid(s), s.phase = "DEAD" => s.lcp.state \in {"INITIAL", "STARTING"}, NEW env \in Env
  PROVE  /\ DaemonInv(lcp_close(s, env)) /\ ~LcpOpen(lcp_close(s, env))
         /\ s.phase = "DEAD" => lcp_close(s, env).phase = "DEAD" /\ lcp_close(s, env).lcp.state = "INITIAL"
<1> DEFINE p == IF s.phase = "DEAD" THEN "DEAD" ELSE "TERMINATE"
           t == [s EXCEPT !.phase = p]
<1>0. s \in Daemon /\ Quiet(s.lcp) BY DEF Mid
<1>1. lcp_close(s, env) = LcpCalls(t, Close(t.lcp), env) BY DEF lcp_close
<1>2. p \in Phases /\ p # "RUNNING" BY DEF Phases
<1> HIDE DEF p
<1>3. /\ t \in Daemon /\ t.lcp = s.lcp /\ t.ipcp = s.ipcp /\ t.phase = p
      /\ SameEcho(s, t) /\ SameNet(s, t) /\ SameOpen(s, t)
  BY <1>0, <1>2, SetPhase
<1> HIDE DEF t
<1>4. Mid(t)
  <2>1. (IpcpOpen(t) <=> IpcpOpen(s)) /\ (LcpOpen(t) <=> LcpOpen(s)) BY <1>3 DEF IpcpOpen, LcpOpen
  <2>2. Net(t, IpcpOpen(t)) BY <1>3, <2>1 DEF Net, SameNet, Mid
  <2>3. t.echo_timer = t.echo_running BY <1>3 DEF Mid, SameEcho
  <2>4. ~LcpOpen(t) => t.ipcp.state = "INITIAL" /\ t.num_np_open = 0 /\ t.echo_timer = 0
    BY <1>3, <2>1 DEF Mid, SameEcho, SameOpen
  <2> QED BY <1>2, <1>3, <2>2, <2>3, <2>4 DEF Mid
<1>5. /\ Sound(t.lcp, Close(t.lcp)) /\ Close(t.lcp).state # "OPENED"
      /\ t.lcp.state \in {"INITIAL", "STARTING"} => Close(t.lcp).state = "INITIAL"
  BY <1>0, <1>3, CloseFacts
<1>6. t.phase = "DEAD" <=> s.phase = "DEAD" BY <1>3 DEF p
<1>7. t.phase = "DEAD" => Close(t.lcp).state = "INITIAL" /\ ~LcpOpen(t)
  BY <1>3, <1>5, <1>6 DEF LcpOpen
<1> DEFINE g == Close(t.lcp)
           u == LcpCalls(t, g, env)
<1> HIDE DEF g
<1>8. Turned(t, g, u)
  <2>1. Sound(t.lcp, g) /\ g.state # "OPENED" BY <1>5 DEF g
  <2>2. MayTurn(t, g) BY <1>7, <2>1 DEF g, MayTurn
  <2> QED BY <1>4, <2>1, <2>2, LcpCallsInv
<1>9. g.state # "OPENED" BY <1>5 DEF g
<1> QED BY <1>1, <1>6, <1>7, <1>8, <1>9 DEF g, Turned

----------------------------------------------------------------------------
\* The end of IPCP ends LCP.
LEMMA FinishedInv ==
  ASSUME NEW s, Mid(s), s.num_np_open = 1, s.ipcp_is_open = 1, s.phase # "DEAD", LcpOpen(s), NEW env \in Env
  PROVE  DaemonInv(ipcp_finished(s, env))
<1> DEFINE a == [s EXCEPT !.ipcp_is_open = 0]
           b == [a EXCEPT !.num_np_open = 0]
<1>0. s \in Daemon BY DEF Mid
<1>1. /\ a \in Daemon /\ a.lcp = s.lcp /\ a.ipcp = s.ipcp /\ a.phase = s.phase
      /\ SameEcho(s, a) /\ SameNet(s, a) /\ a.num_np_open = 1
  BY <1>0 DEF Daemon, SameEcho, SameNet
<1>2. ipcp_finished(s, env) = np_finished(a, env) BY DEF ipcp_finished
<1> HIDE DEF a
<1>3. 1 - 1 = 0 /\ 0 <= 0 /\ 0 \in Int BY SMTT(30)
<1>4. /\ b \in Daemon /\ b.lcp = a.lcp /\ b.ipcp = a.ipcp /\ b.phase = a.phase
      /\ SameEcho(a, b) /\ SameNet(a, b) /\ b.num_np_open = 0
  BY <1>1, <1>3 DEF Daemon, SameEcho, SameNet
<1>5. np_finished(a, env) = lcp_close(b, env)
  <2>1. b = [a EXCEPT !.num_np_open = @ - 1] BY <1>1, <1>3
  <2> HIDE DEF b
  <2>2. b.num_np_open <= 0 BY <1>3, <1>4
  <2> QED BY <2>1, <2>2 DEF np_finished
<1> HIDE DEF b
<1>6. Mid(b)
  <2>1. LcpOpen(b) BY <1>1, <1>4 DEF LcpOpen
  <2>2. IpcpOpen(b) <=> IpcpOpen(s) BY <1>1, <1>4 DEF IpcpOpen
  <2>3. Net(b, IpcpOpen(b)) BY <1>1, <1>4, <2>2 DEF Net, SameNet, Mid
  <2>4. b.echo_timer = b.echo_running BY <1>1, <1>4 DEF SameEcho, Mid
  <2>5. Quiet(b.lcp) /\ Quiet(b.ipcp) /\ (b.phase = "RUNNING" => IpcpOpen(b)) BY <1>1, <1>4, <2>2 DEF Mid
  <2> QED BY <1>4, <2>1, <2>3, <2>4, <2>5 DEF Mid
<1>7. b.phase # "DEAD" BY <1>1, <1>4
<1>8. DaemonInv(lcp_close(b, env)) BY <1>6, <1>7, LcpCloseInv
<1> QED BY <1>2, <1>5, <1>8

\* ipcp_down while LCP stays open.
LEMMA DownInv ==
  ASSUME NEW s, s \in Daemon, Quiet(s.lcp), Quiet(s.ipcp), ~IpcpOpen(s), s.num_np_up = s.ipcp_is_up,
         LcpOpen(s), s.phase # "DEAD", s.echo_timer = s.echo_running, s.echo_timer = 1,
         s.num_np_open = 1, s.ipcp_is_open = 1, s.phase = "RUNNING" => s.ipcp_is_up = 1, NEW env \in Env
  PROVE  LET t == ipcp_down(s, env)
         IN /\ DaemonInv(t) /\ LcpOpen(t) /\ t.phase # "DEAD" /\ t.num_np_open = 1
            /\ t.ipcp_is_open = 1
<1> DEFINE t == ipcp_down(s, env)
<1>1. /\ t \in Daemon /\ t.lcp = s.lcp /\ t.ipcp = s.ipcp
      /\ t.phase = IF s.ipcp_is_up = 1 THEN "NETWORK" ELSE s.phase
      /\ SameEcho(s, t) /\ SameOpen(s, t) /\ Net(t, FALSE)
  BY DownFacts
<1> HIDE DEF t
<1>2. LcpOpen(t) /\ ~IpcpOpen(t) BY <1>1 DEF LcpOpen, IpcpOpen
<1>3. Net(t, IpcpOpen(t)) BY <1>1, <1>2 DEF Net
<1>4. t.phase # "RUNNING" /\ t.phase # "DEAD" BY <1>1
<1>5. /\ t.echo_timer = t.echo_running /\ t.echo_timer = 1 /\ t.num_np_open = 1 /\ t.ipcp_is_open = 1
  BY <1>1 DEF SameEcho, SameOpen
<1>6. Mid(t) BY <1>1, <1>2, <1>3, <1>4, <1>5 DEF Mid
<1>7. Stays(t) BY <1>2, <1>5 DEF Stays
<1>8. DaemonInv(t) BY <1>4, <1>6, <1>7 DEF DaemonInv
<1> QED BY <1>2, <1>4, <1>5, <1>8 DEF t

\* ipcp_up: the interface comes up, or IPCP is closed again.
LEMMA UpInv ==
  ASSUME NEW s, s \in Daemon, Quiet(s.lcp), Quiet(s.ipcp), IpcpOpen(s), Net(s, FALSE),
         LcpOpen(s), s.phase \notin {"DEAD", "RUNNING"}, s.echo_timer = s.echo_running, s.echo_timer = 1,
         s.num_np_open = 1, s.ipcp_is_open = 1, NEW env \in Env
  PROVE  DaemonInv(ipcp_up(s, env))
<1> DEFINE u == WithUp(s, 1, "RUNNING")
           t == WithUpIface(u, 1, "up")
           c == Close(s.ipcp)
           i == IF env.ifup = "addr" THEN "addr" ELSE s.iface
           b == WithIpcpIface(s, Clear(c), i)
           e == ipcp_down(b, env)
           up == IF t.script = "s_down" /\ t.script_pid = 0 THEN IpcpScript(t, "s_up", env) ELSE t
           refused == IF Len(c.calls) < 2 THEN e ELSE ipcp_finished(e, env)
<1>0. s.num_np_up = 0 /\ s.ipcp_is_up = 0 /\ s.iface = "down" BY DEF Net
<1>1. ipcp_up(s, env) = IF env.ifup # "up" THEN refused ELSE up
  <2>1. 0 + 1 = 1 BY SMTT(30)
  <2>2. np_up(s) = u BY <1>0, <2>1 DEF np_up, WithUp
  <2> QED BY <2>2 DEF ipcp_up, WithUpIface, WithIpcpIface
<1>2. CASE env.ifup = "up"
  <2>1. 1 \in Int BY SMTT(30)
  <2>2. "RUNNING" \in Phases BY DEF Phases
  <2>3. /\ u \in Daemon /\ u.lcp = s.lcp /\ u.ipcp = s.ipcp /\ u.phase = "RUNNING"
        /\ SameEcho(s, u) /\ SameOpen(s, u) /\ u.num_np_up = 1
        /\ u.script = s.script /\ u.script_pid = s.script_pid
    <3>1. UpIs(s, 1, "RUNNING", u) BY <2>1, <2>2, SetUp
    <3> HIDE DEF u
    <3> QED BY <3>1 DEF UpIs
  <2> HIDE DEF u
  <2>4. /\ t \in Daemon /\ t.lcp = u.lcp /\ t.ipcp = u.ipcp /\ t.phase = u.phase
        /\ SameEcho(u, t) /\ SameOpen(u, t) /\ t.num_np_up = u.num_np_up /\ t.iface = "up"
        /\ t.ipcp_is_up = 1
    BY <2>3, SetUpIface
  <2> HIDE DEF t
  <2>5. /\ up \in Daemon /\ up.lcp = t.lcp /\ up.ipcp = t.ipcp /\ up.phase = t.phase
        /\ SameEcho(t, up) /\ SameOpen(t, up) /\ up.num_np_up = t.num_np_up /\ up.iface = t.iface
        /\ up.ipcp_is_up = t.ipcp_is_up /\ (up.script_pid = 0 => up.script = "s_up")
    <3>1. CASE t.script = "s_down" /\ t.script_pid = 0
      <4> DEFINE w == IpcpScript(t, "s_up", env)
      <4>1. /\ w \in Daemon /\ w.lcp = t.lcp /\ w.ipcp = t.ipcp /\ w.phase = t.phase
            /\ SameEcho(t, w) /\ SameOpen(t, w) /\ w.num_np_up = t.num_np_up /\ w.iface = t.iface
            /\ w.ipcp_is_up = t.ipcp_is_up /\ w.script = "s_up"
        BY <2>4, ScriptFacts
      <4>2. up = w BY <3>1
      <4> HIDE DEF w, up
      <4> QED BY <4>1, <4>2
    <3>2. CASE ~(t.script = "s_down" /\ t.script_pid = 0)
      <4>1. up = t BY <3>2
      <4>2. t.script \in {"s_up", "s_down"} BY <2>4 DEF Daemon
      <4> HIDE DEF up
      <4> QED BY <2>4, <3>2, <4>1, <4>2 DEF SameEcho, SameOpen
    <3> QED BY <3>1, <3>2
  <2> HIDE DEF up
  <2>6. LcpOpen(up) /\ IpcpOpen(up) /\ Quiet(up.lcp) /\ Quiet(up.ipcp) /\ up.phase = "RUNNING"
    BY <2>3, <2>4, <2>5 DEF LcpOpen, IpcpOpen
  <2>7. Net(up, IpcpOpen(up)) BY <2>3, <2>4, <2>5, <2>6 DEF Net
  <2>8. /\ up.echo_timer = up.echo_running /\ up.echo_timer = 1 /\ up.num_np_open = 1
        /\ up.ipcp_is_open = 1
    BY <2>3, <2>4, <2>5 DEF SameEcho, SameOpen
  <2>9. Mid(up) BY <2>5, <2>6, <2>7, <2>8 DEF Mid
  <2>10. Stays(up) BY <2>6, <2>8 DEF Stays
  <2>11. DaemonInv(up) BY <2>6, <2>9, <2>10 DEF DaemonInv
  <2> QED BY <1>1, <1>2, <2>11
<1>3. CASE env.ifup # "up"
  <2>1. Sound(s.ipcp, c) /\ c.state # "OPENED" BY CloseFacts
  <2>2. Quiet(Clear(c)) /\ Clear(c).state = c.state BY <2>1, ClearQuiet
  <2>3. Clear(c) \in Fsm BY <2>2 DEF Quiet
  <2>4. i \in {"down", "up", "addr"} BY <1>0
  <2> HIDE DEF c, i
  <2>5. /\ b \in Daemon /\ b.lcp = s.lcp /\ b.ipcp = Clear(c) /\ b.phase = s.phase
        /\ SameEcho(s, b) /\ SameOpen(s, b) /\ b.num_np_up = s.num_np_up
        /\ b.ipcp_is_up = s.ipcp_is_up
    <3>1. IpcpIfaceIs(s, Clear(c), i, b) BY <2>3, <2>4, SetIpcpIface
    <3> HIDE DEF b
    <3> QED BY <3>1 DEF IpcpIfaceIs
  <2> HIDE DEF b
  <2>6. /\ Quiet(b.lcp) /\ Quiet(b.ipcp) /\ ~IpcpOpen(b) /\ b.num_np_up = b.ipcp_is_up
        /\ LcpOpen(b) /\ b.phase # "DEAD" /\ b.phase # "RUNNING"
    BY <1>0, <2>1, <2>2, <2>5 DEF IpcpOpen, LcpOpen
  <2>7. /\ b.echo_timer = b.echo_running /\ b.echo_timer = 1 /\ b.num_np_open = 1 /\ b.ipcp_is_open = 1
    BY <2>5 DEF SameEcho, SameOpen
  <2>8. DaemonInv(e) /\ LcpOpen(e) /\ e.phase # "DEAD" /\ e.num_np_open = 1 /\ e.ipcp_is_open = 1
    BY <2>5, <2>6, <2>7, DownInv
  <2> HIDE DEF e
  <2>9. Mid(e) BY <2>8 DEF DaemonInv
  <2>10. DaemonInv(ipcp_finished(e, env)) BY <2>8, <2>9, FinishedInv
  <2> QED BY <1>1, <1>3, <2>8, <2>10
<1> QED BY <1>2, <1>3

\* What IpcpCalls does for each list of callbacks.
AfterIpcp(s, f) == [s EXCEPT !.ipcp = Clear(f)]
\* One case per list that a call into the automaton can make.
LEMMA IpcpShapes ==
  ASSUME NEW s, NEW f, NEW env
  PROVE  LET a == AfterIpcp(s, f)
             r == IpcpCalls(s, f, env)
         IN /\ f.calls = << >> => r = a
            /\ f.calls = << "up" >> => r = ipcp_up(a, env)
            /\ f.calls = << "down" >> => r = ipcp_down(a, env)
            /\ f.calls = << "finished" >> => r = ipcp_finished(a, env)
            /\ f.calls = << "down", "finished" >> => r = ipcp_finished(ipcp_down(a, env), env)
<1> DEFINE a == AfterIpcp(s, f)
           r == IpcpCalls(s, f, env)
           u == IF f.calls = << >> THEN a ELSE IpcpCall(a, f.calls[1], env)
<1>1. r = IF Len(f.calls) < 2 THEN u ELSE IpcpCall(u, f.calls[2], env) BY DEF IpcpCalls, AfterIpcp
<1>2. \A c : f.calls = << c >> => r = IpcpCall(a, c, env) BY <1>1, CallItems
<1>3. f.calls = << >> => r = a BY <1>1, CallItems
<1>4. f.calls = << "down", "finished" >> => r = IpcpCall(IpcpCall(a, "down", env), "finished", env)
  <2> SUFFICES ASSUME f.calls = << "down", "finished" >>
               PROVE  r = IpcpCall(IpcpCall(a, "down", env), "finished", env)
    OBVIOUS
  <2>1. f.calls # << >> /\ f.calls[1] = "down" /\ f.calls[2] = "finished" /\ ~(Len(f.calls) < 2)
    BY SMTT(30)
  <2>2. u = IpcpCall(a, "down", env) BY <2>1
  <2> HIDE DEF u, a, r
  <2> QED BY <1>1, <2>1, <2>2
<1> HIDE DEF a, r
<1>5. /\ IpcpCall(a, "up", env) = ipcp_up(a, env)
      /\ IpcpCall(a, "down", env) = ipcp_down(a, env)
      /\ \A x : IpcpCall(x, "finished", env) = ipcp_finished(x, env)
  BY DEF IpcpCall
<1>6. f.calls = << "up" >> => r = ipcp_up(a, env) BY <1>2, <1>5
<1>7. f.calls = << "down" >> => r = ipcp_down(a, env) BY <1>2, <1>5
<1>8. f.calls = << "finished" >> => r = ipcp_finished(a, env) BY <1>2, <1>5
<1>9. f.calls = << "down", "finished" >> => r = ipcp_finished(ipcp_down(a, env), env) BY <1>4, <1>5
<1> QED BY <1>3, <1>6, <1>7, <1>8, <1>9 DEF a, r

\* A call into the IPCP automaton with its callbacks, over an open LCP.
LEMMA IpcpCallsInv ==
  ASSUME NEW s, DaemonInv(s), LcpOpen(s), NEW f, Sound(s.ipcp, f), NEW env \in Env
  PROVE  DaemonInv(IpcpCalls(s, f, env))
<1> DEFINE a == AfterIpcp(s, f)
           e == ipcp_down(a, env)
           r == IpcpCalls(s, f, env)
<1>0. /\ s \in Daemon /\ Quiet(s.lcp) /\ Quiet(s.ipcp) /\ Net(s, IpcpOpen(s))
      /\ s.phase = "RUNNING" <=> IpcpOpen(s)
      /\ s.echo_timer = s.echo_running /\ s.echo_timer = 1
      /\ s.num_np_open = 1 /\ s.ipcp_is_open = 1 /\ s.phase # "DEAD"
  BY DEF DaemonInv, Mid, Stays, LcpOpen
<1>1. Quiet(Clear(f)) /\ Clear(f).state = f.state BY ClearQuiet
<1>2. /\ a \in Daemon /\ a.lcp = s.lcp /\ a.ipcp = Clear(f) /\ a.phase = s.phase
      /\ SameEcho(s, a) /\ SameNet(s, a) /\ SameOpen(s, a)
  <2>1. Clear(f) \in Fsm BY <1>1 DEF Quiet
  <2> QED BY <1>0, <2>1, SetFsm DEF AfterIpcp
<1>3. /\ f.calls = << >> => r = a
      /\ f.calls = << "up" >> => r = ipcp_up(a, env)
      /\ f.calls = << "down" >> => r = ipcp_down(a, env)
      /\ f.calls = << "finished" >> => r = ipcp_finished(a, env)
      /\ f.calls = << "down", "finished" >> => r = ipcp_finished(ipcp_down(a, env), env)
  BY IpcpShapes
<1> HIDE DEF a, r
<1>4. /\ LcpOpen(a) /\ (IpcpOpen(a) <=> f.state = "OPENED") /\ Quiet(a.lcp) /\ Quiet(a.ipcp)
      /\ a.phase = s.phase /\ a.phase # "DEAD"
  BY <1>0, <1>1, <1>2 DEF LcpOpen, IpcpOpen
<1>5. /\ a.echo_timer = a.echo_running /\ a.echo_timer = 1 /\ a.num_np_open = 1 /\ a.ipcp_is_open = 1
  BY <1>0, <1>2 DEF SameEcho, SameOpen
<1>6. Reported(s.ipcp, f) BY DEF Sound
<1>7. ASSUME f.calls \in {<< >>, << "finished" >>} PROVE DaemonInv(a)
  <2>1. IpcpOpen(a) <=> IpcpOpen(s) BY <1>4, <1>6, <1>7 DEF Reported, IpcpOpen
  <2>2. Net(a, IpcpOpen(a)) BY <1>0, <1>2, <2>1 DEF Net, SameNet
  <2>3. Mid(a) BY <1>0, <1>2, <1>4, <1>5, <2>1, <2>2 DEF Mid
  <2>4. Stays(a) BY <1>0, <1>2, <1>5, <2>1 DEF Stays
  <2> QED BY <1>4, <2>3, <2>4 DEF DaemonInv
<1>8. CASE f.calls = << >> BY <1>3, <1>7, <1>8 DEF r
<1>9. CASE f.calls = << "finished" >>
  <2>1. Mid(a) BY <1>7, <1>9 DEF DaemonInv
  <2>2. DaemonInv(ipcp_finished(a, env)) BY <1>4, <1>5, <2>1, FinishedInv
  <2> QED BY <1>3, <1>9, <2>2 DEF r
<1>10. CASE f.calls = << "up" >>
  <2>1. ~IpcpOpen(s) /\ IpcpOpen(a) BY <1>4, <1>6, <1>10 DEF Reported, IpcpOpen
  <2>2. Net(a, FALSE) BY <1>0, <1>2, <2>1 DEF Net, SameNet
  <2>3. a.phase \notin {"DEAD", "RUNNING"} BY <1>0, <1>4, <2>1
  <2>4. DaemonInv(ipcp_up(a, env)) BY <1>2, <1>4, <1>5, <2>1, <2>2, <2>3, UpInv
  <2> QED BY <1>3, <1>10, <2>4 DEF r
<1>11. CASE f.calls \in {<< "down" >>, << "down", "finished" >>}
  <2>1. IpcpOpen(s) /\ ~IpcpOpen(a) BY <1>4, <1>6, <1>11 DEF Reported, IpcpOpen
  <2>2. a.num_np_up = a.ipcp_is_up /\ a.ipcp_is_up = 1 BY <1>0, <1>2, <2>1 DEF Net, SameNet
  <2>3. DaemonInv(e) /\ LcpOpen(e) /\ e.phase # "DEAD" /\ e.num_np_open = 1 /\ e.ipcp_is_open = 1
    BY <1>2, <1>4, <1>5, <2>1, <2>2, DownInv
  <2>4. Mid(e) BY <2>3 DEF DaemonInv
  <2>5. DaemonInv(ipcp_finished(e, env)) BY <2>3, <2>4, FinishedInv
  <2> QED BY <1>3, <1>11, <2>3, <2>5 DEF r
<1> QED BY <1>6, <1>8, <1>9, <1>10, <1>11 DEF Reported, CallShapes

----------------------------------------------------------------------------
\* The first state.
LEMMA PppdInit == Init => PppdInv
<1> SUFFICES ASSUME Init PROVE PppdInv OBVIOUS
<1>1. PICK fails \in EchoFails, v \in Vals :
        d = [lcp |-> FsmInit(v, {v}, {}), ipcp |-> FsmInit(v, {v}, {}),
             phase |-> "INITIALIZE", num_np_open |-> 0, num_np_up |-> 0,
             ipcp_is_open |-> 0, ipcp_is_up |-> 0, iface |-> "down",
             script |-> "s_down", script_pid |-> 0,
             echo_fails |-> fails, echo_running |-> 0, echo_timer |-> 0, echos_pending |-> 0]
  BY DEF Init
<1> DEFINE f == FsmInit(v, {v}, {})
<1>2. f \in Fsm
  <2>1. 0 \in 0..IdMod-1 /\ << >> \in Seq(Packets) /\ << >> \in Seq({"up", "down", "finished"})
    BY FsmAssumption, SMTT(30)
  <2>2. 0 \in Int /\ 0 \in Nat BY SMTT(30)
  <2>3. "INITIAL" \in FsmStates BY DEF FsmStates
  <2> QED BY <2>1, <2>2, <2>3 DEF FsmInit, Fsm
<1>3. Quiet(f) /\ f.state = "INITIAL"
  <2>1. f.state = "INITIAL" /\ f.timer = 0 /\ f.calls = << >> BY DEF FsmInit
  <2> HIDE DEF f
  <2>2. f.state \notin Timed BY <2>1 DEF Timed, Negotiating
  <2> QED BY <1>2, <2>1, <2>2 DEF Quiet, FsmOK
<1> HIDE DEF f
<1>4. d \in Daemon
  <2>1. 0 \in Int /\ 0 \in Nat BY SMTT(30)
  <2> QED BY <1>1, <1>2, <2>1 DEF f, Daemon, Phases
<1>5. /\ d.lcp = f /\ d.ipcp = f /\ d.phase = "INITIALIZE" /\ d.num_np_open = 0 /\ d.num_np_up = 0
      /\ d.ipcp_is_up = 0 /\ d.iface = "down" /\ d.script = "s_down" /\ d.echo_running = 0
      /\ d.echo_timer = 0
  BY <1>1 DEF f
<1>6. ~LcpOpen(d) /\ ~IpcpOpen(d) BY <1>3, <1>5 DEF LcpOpen, IpcpOpen
<1>7. Net(d, IpcpOpen(d)) BY <1>5, <1>6 DEF Net
<1>8. Mid(d) BY <1>3, <1>4, <1>5, <1>7 DEF Mid
<1>9. DaemonInv(d) BY <1>5, <1>6, <1>8 DEF DaemonInv
<1>10. pc = "start" BY DEF Init
<1> QED BY <1>3, <1>5, <1>9, <1>10 DEF PppdInv

\* What the main loop starts from.
LEMMA Loop ==
  ASSUME DaemonInv(d)
  PROVE  /\ Mid(d) /\ Quiet(d.lcp) /\ Quiet(d.ipcp) /\ d \in Daemon
         /\ d.phase # "DEAD" => \A f : Sound(d.lcp, f) => MayTurn(d, f)
         /\ LcpOpen(d) => Stays(d) /\ d.phase # "DEAD"
         /\ d.ipcp.timer > 0 => LcpOpen(d)
<1>1. Mid(d) /\ Quiet(d.lcp) /\ Quiet(d.ipcp) /\ d \in Daemon BY DEF DaemonInv, Mid
<1>2. d.phase # "DEAD" => \A f : Sound(d.lcp, f) => MayTurn(d, f) BY DEF DaemonInv, MayTurn
<1>3. LcpOpen(d) => Stays(d) /\ d.phase # "DEAD" BY DEF DaemonInv, LcpOpen
<1>4. d.ipcp.timer > 0 => LcpOpen(d)
  <2> SUFFICES ASSUME d.ipcp.timer > 0, ~LcpOpen(d) PROVE FALSE OBVIOUS
  <2>1. d.ipcp.state = "INITIAL" BY <1>1 DEF Mid
  <2>2. d.ipcp.timer = 0 BY <1>1, <2>1 DEF Quiet, FsmOK, Timed, Negotiating
  <2>3. ~(0 > 0) BY SMTT(30)
  <2> QED BY <2>2, <2>3
<1> QED BY <1>1, <1>2, <1>3, <1>4

\* main starts the link.
LEMMA StartInv == ASSUME PppdInv, Start PROVE PppdInv'
<1> DEFINE o == Open(d.lcp)
           g == Clear(LowerUp(o))
<1>0. Mid(d) /\ Quiet(d.lcp) /\ d \in Daemon BY Loop DEF PppdInv
<1>1. d.lcp.state = "INITIAL" /\ d.lcp \in Fsm BY <1>0 DEF Start, PppdInv, Quiet
<1>2. "STARTING" \in FsmStates /\ "STOPPED" \in FsmStates BY DEF FsmStates
<1>3. \A k \in Fsm : \A st \in FsmStates :
        [k EXCEPT !.state = st].state = st /\ [k EXCEPT !.state = st].calls = k.calls
  BY StateFacts
<1>4. Sound(d.lcp, o) BY <1>0, OpenSound
<1>5. o = [d.lcp EXCEPT !.state = "STARTING"] BY <1>1 DEF Open
<1> HIDE DEF o
<1>6. o.state = "STARTING" /\ o.calls = << >>
  <2>1. /\ [d.lcp EXCEPT !.state = "STARTING"].state = "STARTING"
        /\ [d.lcp EXCEPT !.state = "STARTING"].calls = d.lcp.calls
    BY <1>1, <1>2, <1>3
  <2> QED BY <1>0, <1>5, <2>1 DEF Quiet
<1>7. Quiet(o) /\ o \in Fsm BY <1>4, <1>6 DEF Sound, Quiet
<1>8. Quiet(g) /\ g.state # "OPENED" /\ g \in Fsm
  <2> DEFINE h == LowerUp(o)
  <2>1. Sound(o, h) BY <1>7, LowerUpSound
  <2>2. h = [o EXCEPT !.state = "STOPPED"] \/ h = Renegotiate(o) BY <1>6 DEF LowerUp
  <2> HIDE DEF h
  <2>3. h = [o EXCEPT !.state = "STOPPED"] => h.state = "STOPPED"
    <3>1. [o EXCEPT !.state = "STOPPED"].state = "STOPPED" BY <1>2, <1>3, <1>7
    <3> QED BY <3>1
  <2>4. h = Renegotiate(o) => h.state = "REQSENT" BY <1>7, RenegotiateFacts
  <2>5. Quiet(Clear(h)) /\ Clear(h).state = h.state BY <2>1, ClearQuiet
  <2>6. Quiet(Clear(h)) /\ Clear(h).state # "OPENED" BY <2>2, <2>3, <2>4, <2>5
  <2> QED BY <2>6 DEF h, Quiet
<1> HIDE DEF g
<1>9. PICK f \in {o, g}, p \in {"DEAD", "ESTABLISH"} :
        /\ d' = [d EXCEPT !.lcp = f, !.phase = p] /\ (p = "DEAD" => f = o) /\ pc' = "loop"
  BY DEF Start, o, g
<1>10. /\ f \in Fsm /\ Quiet(f) /\ f.state # "OPENED" /\ p \in Phases /\ p # "RUNNING"
       /\ p = "DEAD" => f.state = "STARTING"
  BY <1>6, <1>7, <1>8, <1>9 DEF Phases
<1>11. /\ d' \in Daemon /\ d'.lcp = f /\ d'.ipcp = d.ipcp /\ d'.phase = p
       /\ SameEcho(d, d') /\ SameNet(d, d') /\ SameOpen(d, d')
  BY <1>0, <1>9, <1>10 DEF Daemon, SameEcho, SameNet, SameOpen
<1>12. ~LcpOpen(d) /\ d.ipcp.state = "INITIAL" /\ ~IpcpOpen(d)
  BY <1>0, <1>1 DEF Mid, LcpOpen, IpcpOpen
<1>13. ~LcpOpen(d') /\ ~IpcpOpen(d') BY <1>10, <1>11, <1>12 DEF LcpOpen, IpcpOpen
<1>14. Net(d', IpcpOpen(d')) BY <1>0, <1>11, <1>12, <1>13 DEF Mid, Net, SameNet
<1>15. d'.num_np_open = 0 /\ d'.echo_timer = 0 /\ d'.echo_running = 0
  BY <1>0, <1>11, <1>12 DEF Mid, SameEcho, SameOpen
<1>16. Mid(d') BY <1>0, <1>10, <1>11, <1>12, <1>14, <1>15 DEF Mid
<1>17. DaemonInv(d') BY <1>10, <1>11, <1>13, <1>16 DEF DaemonInv
<1> QED BY <1>9, <1>17 DEF PppdInv

\* A step of the main loop keeps pc.
LEMMA LoopStep ==
  ASSUME Looping, PppdInv, pc' = pc, DaemonInv(d') PROVE PppdInv'
<1>1. pc' = "loop" BY DEF Looping
<1> QED BY <1>1 DEF PppdInv

\* The packets, timers and calls that go to one of the two automata.
LEMMA LcpEvent ==
  ASSUME PppdInv, Looping, NEW f, Sound(d.lcp, f), NEW env \in Env, Becomes(LcpCalls(d, f, env))
  PROVE  PppdInv'
<1>1. DaemonInv(d) /\ d.phase # "DEAD" BY DEF PppdInv, Looping
<1>2. Mid(d) /\ MayTurn(d, f) BY <1>1, Loop
<1> DEFINE u == LcpCalls(d, f, env)
<1>3. Turned(d, f, u) BY <1>2, LcpCallsInv
<1>4. d' = u /\ pc' = pc BY DEF Becomes
<1> HIDE DEF u
<1>5. DaemonInv(d') BY <1>3, <1>4 DEF Turned
<1> QED BY <1>4, <1>5, LoopStep

\* The same for IPCP, over an open LCP.
LEMMA IpcpEvent ==
  ASSUME PppdInv, Looping, LcpOpen(d), NEW f, Sound(d.ipcp, f), NEW env \in Env,
         Becomes(IpcpCalls(d, f, env))
  PROVE  PppdInv'
<1>1. DaemonInv(d) BY DEF PppdInv
<1> DEFINE u == IpcpCalls(d, f, env)
<1>3. DaemonInv(u) BY <1>1, IpcpCallsInv
<1>4. d' = u /\ pc' = pc BY DEF Becomes
<1> HIDE DEF u
<1>5. DaemonInv(d') BY <1>3, <1>4
<1> QED BY <1>4, <1>5, LoopStep

\* A packet for LCP.
LEMMA InputLcpInv == ASSUME PppdInv, InputLcp PROVE PppdInv'
<1>1. PICK p \in Packets, env \in Env : Becomes(LcpCalls(d, Input(d.lcp, p), env)) BY DEF InputLcp
<1>2. Looping BY DEF InputLcp
<1>3. Quiet(d.lcp) BY Loop DEF PppdInv
<1>4. Sound(d.lcp, Input(d.lcp, p)) BY <1>3, InputSound
<1> QED BY <1>1, <1>2, <1>4, LcpEvent

\* A packet for IPCP.
LEMMA InputIpcpInv == ASSUME PppdInv, InputIpcp PROVE PppdInv'
<1>1. PICK p \in Packets, env \in Env : Becomes(IpcpCalls(d, Input(d.ipcp, p), env)) BY DEF InputIpcp
<1>2. Looping /\ LcpOpen(d) BY DEF InputIpcp, LcpOpen
<1>3. Quiet(d.ipcp) BY Loop DEF PppdInv
<1>4. Sound(d.ipcp, Input(d.ipcp, p)) BY <1>3, InputSound
<1> QED BY <1>1, <1>2, <1>4, IpcpEvent

\* The far end rejects LCP or IPCP.
LEMMA ProtocolRejectInv == ASSUME PppdInv, ProtocolReject PROVE PppdInv'
<1>1. PICK env \in Env : \/ Becomes(LcpCalls(d, ProtReject(d.lcp), env))
                         \/ Becomes(IpcpCalls(d, LowerDown(d.ipcp), env))
  BY DEF ProtocolReject
<1>2. Looping /\ LcpOpen(d) BY DEF ProtocolReject, LcpOpen
<1>3. Quiet(d.lcp) /\ Quiet(d.ipcp) BY Loop DEF PppdInv
<1>4. Sound(d.lcp, ProtReject(d.lcp)) BY <1>3, ProtRejectSound
<1>5. Sound(d.ipcp, LowerDown(d.ipcp)) BY <1>3, LowerDownSound
<1>6. CASE Becomes(LcpCalls(d, ProtReject(d.lcp), env)) BY <1>2, <1>4, <1>6, LcpEvent
<1>7. CASE Becomes(IpcpCalls(d, LowerDown(d.ipcp), env)) BY <1>2, <1>5, <1>7, IpcpEvent
<1> QED BY <1>1, <1>6, <1>7

\* LCP's restart timer.
LEMMA ExpireLcpInv == ASSUME PppdInv, ExpireLcp PROVE PppdInv'
<1>1. PICK env \in Env : Becomes(LcpCalls(d, Expire(d.lcp), env)) BY DEF ExpireLcp
<1>2. Looping /\ d.lcp.timer > 0 BY DEF ExpireLcp
<1>3. Quiet(d.lcp) BY Loop DEF PppdInv
<1>4. Sound(d.lcp, Expire(d.lcp)) BY <1>2, <1>3, ExpireSound
<1> QED BY <1>1, <1>2, <1>4, LcpEvent

\* IPCP's restart timer, which runs only over an open LCP.
LEMMA ExpireIpcpInv == ASSUME PppdInv, ExpireIpcp PROVE PppdInv'
<1>1. PICK env \in Env : Becomes(IpcpCalls(d, Expire(d.ipcp), env)) BY DEF ExpireIpcp
<1>2. Looping /\ d.ipcp.timer > 0 BY DEF ExpireIpcp
<1>3. Quiet(d.ipcp) /\ LcpOpen(d) BY <1>2, Loop DEF PppdInv
<1>4. Sound(d.ipcp, Expire(d.ipcp)) BY <1>2, <1>3, ExpireSound
<1> QED BY <1>1, <1>2, <1>3, <1>4, IpcpEvent

\* A daemon that differs only in what DaemonInv does not mention.
Alike(s, t) ==
  /\ t \in Daemon /\ Quiet(t.lcp) /\ t.lcp.state = s.lcp.state /\ t.ipcp = s.ipcp
  /\ t.phase = s.phase /\ SameEcho(s, t) /\ SameNet(s, t) /\ SameOpen(s, t)
\* Such a daemon is in order as well.
LEMMA AlikeInv == ASSUME NEW s, NEW t, DaemonInv(s), Alike(s, t) PROVE DaemonInv(t)
<1>1. (IpcpOpen(t) <=> IpcpOpen(s)) /\ (LcpOpen(t) <=> LcpOpen(s)) BY DEF IpcpOpen, LcpOpen, Alike
<1>2. Mid(s) BY DEF DaemonInv
<1>3. Net(t, IpcpOpen(t)) BY <1>1, <1>2 DEF Net, SameNet, Mid, Alike
<1>4. t.echo_timer = t.echo_running BY <1>2 DEF Mid, SameEcho, Alike
<1>5. ~LcpOpen(t) => t.ipcp.state = "INITIAL" /\ t.num_np_open = 0 /\ t.echo_timer = 0
  BY <1>1, <1>2 DEF Mid, SameEcho, SameOpen, Alike
<1>6. Quiet(t.ipcp) /\ (t.phase = "RUNNING" => IpcpOpen(t)) BY <1>1, <1>2 DEF Mid, Alike
<1>7. Mid(t) BY <1>3, <1>4, <1>5, <1>6 DEF Mid, Alike
<1>8. LcpOpen(t) => Stays(t) BY <1>1 DEF DaemonInv, Stays, SameEcho, SameOpen, Alike
<1>9. t.phase = "DEAD" => t.lcp.state \in {"INITIAL", "STARTING"} BY DEF DaemonInv, Alike
<1> QED BY <1>7, <1>8, <1>9 DEF DaemonInv

\* lcp_sprotrej takes an identifier, and nothing else.
LEMMA InputUnknownInv == ASSUME PppdInv, InputUnknown PROVE PppdInv'
<1> DEFINE k == NextId(d.lcp)
           f == [d.lcp EXCEPT !.id = k]
           t == [d EXCEPT !.lcp = f]
<1>1. Looping /\ pc' = pc BY DEF InputUnknown, Becomes
<1>2. Quiet(d.lcp) /\ d \in Daemon /\ DaemonInv(d) BY Loop DEF PppdInv
<1>3. d' = t BY DEF InputUnknown, Becomes
<1>4. k \in 0..IdMod-1 BY <1>2, NextIdType DEF Quiet
<1> HIDE DEF k
<1>5. d.lcp \in Fsm BY <1>2 DEF Quiet
<1>6. f \in Fsm BY <1>4, <1>5 DEF Fsm
<1>7. /\ f.state = d.lcp.state /\ f.timer = d.lcp.timer /\ f.calls = d.lcp.calls
      /\ f.seen_ack = d.lcp.seen_ack
  BY <1>5 DEF Fsm
<1> HIDE DEF f
<1>8. Quiet(f) BY <1>2, <1>6, <1>7 DEF Quiet, FsmOK
<1>9. /\ t \in Daemon /\ t.lcp = f /\ t.ipcp = d.ipcp /\ t.phase = d.phase
      /\ SameEcho(d, t) /\ SameNet(d, t) /\ SameOpen(d, t)
  BY <1>2, <1>6, SetFsm
<1> HIDE DEF t
<1>10. Alike(d, t) BY <1>7, <1>8, <1>9 DEF Alike
<1>11. DaemonInv(d') BY <1>2, <1>3, <1>10, AlikeInv
<1> QED BY <1>1, <1>11, LoopStep

\* The count of unanswered echo requests.
LEMMA SetPending ==
  ASSUME NEW s \in Daemon, NEW n \in Nat, Quiet(s.lcp)
  PROVE  Alike(s, [s EXCEPT !.echos_pending = n])
<1> DEFINE t == [s EXCEPT !.echos_pending = n]
<1>1. t \in Daemon BY DEF Daemon
<1>2. t.lcp = s.lcp /\ t.ipcp = s.ipcp /\ t.phase = s.phase BY DEF Daemon
<1>3. SameEcho(s, t) /\ SameNet(s, t) /\ SameOpen(s, t) BY DEF Daemon, SameEcho, SameNet, SameOpen
<1> HIDE DEF t
<1>4. Alike(s, t) BY <1>1, <1>2, <1>3 DEF Alike
<1> QED BY <1>4 DEF t

\* An echo reply.
LEMMA EchoReplyInv == ASSUME PppdInv, EchoReply PROVE PppdInv'
<1> DEFINE t == [d EXCEPT !.echos_pending = 0]
<1>1. Looping /\ pc' = pc /\ d' = t BY DEF EchoReply, Becomes
<1>2. Quiet(d.lcp) /\ d \in Daemon /\ DaemonInv(d) BY Loop DEF PppdInv
<1>3. 0 \in Nat BY SMTT(30)
<1>4. Alike(d, t) BY <1>2, <1>3, SetPending
<1> HIDE DEF t
<1>5. DaemonInv(d') BY <1>1, <1>2, <1>4, AlikeInv
<1> QED BY <1>1, <1>5, LoopStep

\* SIGTERM and SIGHUP.
LEMMA SignalInv == ASSUME PppdInv, Signal PROVE PppdInv'
<1>1. PICK env \in Env : d' = lcp_close(d, env) BY DEF Signal
<1>2. Looping /\ pc' = pc BY DEF Signal
<1>3. Mid(d) /\ d.phase # "DEAD" BY <1>2, Loop DEF PppdInv, Looping
<1>4. DaemonInv(lcp_close(d, env)) BY <1>3, LcpCloseInv
<1>5. DaemonInv(d') BY <1>1, <1>4
<1> QED BY <1>2, <1>5, LoopStep

\* The lcp_close after the main loop restores the automata.
LEMMA LeaveLoopInv == ASSUME PppdInv, LeaveLoop PROVE PppdInv'
<1>1. PICK env \in Env : d' = lcp_close(d, env) BY DEF LeaveLoop
<1>2. d.phase = "DEAD" /\ pc' \in {"wait", "exited"} BY DEF LeaveLoop
<1>3. Mid(d) /\ d.lcp.state \in {"INITIAL", "STARTING"} BY <1>2, Loop DEF PppdInv, DaemonInv
<1> DEFINE u == lcp_close(d, env)
<1>4. DaemonInv(u) /\ u.phase = "DEAD" /\ u.lcp.state = "INITIAL" BY <1>2, <1>3, LcpCloseInv
<1> HIDE DEF u
<1>5. d' = u BY <1>1 DEF u
<1>6. DaemonInv(d') /\ d'.phase = "DEAD" /\ d'.lcp.state = "INITIAL" BY <1>4, <1>5
<1> QED BY <1>6 DEF PppdInv

\* End of file on the line, from any state of LCP.
LEMMA HangupInv == ASSUME PppdInv, Hangup PROVE PppdInv'
<1>1. PICK env \in Env : Becomes(link_terminated(LcpCalls(d, LowerDown(d.lcp), env), TRUE)) BY DEF Hangup
<1>2. Looping BY DEF Hangup
<1>3. DaemonInv(d) /\ d.phase # "DEAD" BY <1>2 DEF PppdInv, Looping
<1> DEFINE f == LowerDown(d.lcp)
           u == LcpCalls(d, f, env)
           t == WithDead(u, u.lcp)
<1>4. Sound(d.lcp, f) /\ f.state \in {"INITIAL", "STARTING"} BY <1>3, Loop, LowerDownFacts
<1>5. d' = link_terminated(u, TRUE) /\ pc' = pc BY <1>1 DEF Becomes
<1> HIDE DEF f
<1>6. Mid(d) /\ MayTurn(d, f) BY <1>3, <1>4, Loop
<1>7. Turned(d, f, u) BY <1>4, <1>6, LcpCallsInv
<1> HIDE DEF u
<1>8. DaemonInv(u) /\ u.lcp.state \in {"INITIAL", "STARTING"} BY <1>4, <1>7 DEF Turned
<1>9. Mid(u) /\ u \in Daemon BY <1>8 DEF DaemonInv, Mid
<1>10. d' = u \/ d' = t BY <1>5 DEF link_terminated, WithDead
<1>11. /\ t \in Daemon /\ t.lcp = u.lcp /\ t.ipcp = u.ipcp /\ t.phase = "DEAD"
       /\ SameEcho(u, t) /\ SameNet(u, t) /\ SameOpen(u, t)
  <2>1. t \in Daemon BY <1>9 DEF WithDead, Daemon, Phases
  <2>2. t.lcp = u.lcp /\ t.ipcp = u.ipcp /\ t.phase = "DEAD" BY <1>9 DEF WithDead, Daemon
  <2>3. SameEcho(u, t) /\ SameNet(u, t) /\ SameOpen(u, t)
    BY <1>9 DEF WithDead, Daemon, SameEcho, SameNet, SameOpen
  <2> QED BY <2>1, <2>2, <2>3
<1> HIDE DEF t
<1>12. DaemonInv(t)
  <2>1. (IpcpOpen(t) <=> IpcpOpen(u)) /\ ~LcpOpen(t) /\ ~LcpOpen(u) BY <1>8, <1>11 DEF IpcpOpen, LcpOpen
  <2>2. Net(t, IpcpOpen(t)) BY <1>9, <1>11, <2>1 DEF Net, SameNet, Mid
  <2>3. /\ t.ipcp.state = "INITIAL" /\ t.num_np_open = 0 /\ t.echo_timer = 0
        /\ t.echo_timer = t.echo_running
    BY <1>9, <1>11, <2>1 DEF Mid, SameEcho, SameOpen
  <2>4. Quiet(t.lcp) /\ Quiet(t.ipcp) BY <1>9, <1>11 DEF Mid
  <2>5. Mid(t) BY <1>11, <2>2, <2>3, <2>4 DEF Mid
  <2> QED BY <1>8, <1>11, <2>1, <2>5 DEF DaemonInv
<1>13. DaemonInv(d') BY <1>8, <1>10, <1>12
<1> QED BY <1>2, <1>5, <1>13, LoopStep

\* A script has ended, in the loop or while main waits.
LEMMA ScriptDoneInv == ASSUME PppdInv, ScriptDone PROVE PppdInv'
<1>1. PICK env \in Env : Becomes(ipcp_script_done(d, env)) BY DEF ScriptDone
<1>2. DaemonInv(d) /\ Mid(d) /\ d \in Daemon BY Loop DEF PppdInv
<1> DEFINE a == [d EXCEPT !.script_pid = 0]
           u == ipcp_script_done(d, env)
<1>3. /\ a \in Daemon /\ a.lcp = d.lcp /\ a.ipcp = d.ipcp /\ a.phase = d.phase
      /\ SameEcho(d, a) /\ SameOpen(d, a) /\ a.num_np_up = d.num_np_up /\ a.iface = d.iface
      /\ a.ipcp_is_up = d.ipcp_is_up /\ a.script = d.script
  <2>1. a \in Daemon BY <1>2 DEF Daemon
  <2>2. a.lcp = d.lcp /\ a.ipcp = d.ipcp /\ a.phase = d.phase BY <1>2 DEF Daemon
  <2>3. SameEcho(d, a) /\ SameOpen(d, a) BY <1>2 DEF Daemon, SameEcho, SameOpen
  <2>4. a.num_np_up = d.num_np_up /\ a.iface = d.iface BY <1>2 DEF Daemon
  <2>5. a.ipcp_is_up = d.ipcp_is_up /\ a.script = d.script BY <1>2 DEF Daemon
  <2> QED BY <2>1, <2>2, <2>3, <2>4, <2>5
<1>4. \/ u = IpcpScript(a, "s_down", env) /\ ~IpcpOpen(a)
      \/ u = IpcpScript(a, "s_up", env) /\ IpcpOpen(a)
      \/ u = a /\ (a.script = "s_up" => IpcpOpen(a)) /\ (a.script = "s_down" => ~IpcpOpen(a))
  BY DEF ipcp_script_done, IpcpOpen
<1>5. d' = u /\ pc' = pc BY <1>1 DEF Becomes
<1> HIDE DEF a, u
<1>6. a.script \in {"s_up", "s_down"} BY <1>3 DEF Daemon
<1>7. /\ u \in Daemon /\ u.lcp = a.lcp /\ u.ipcp = a.ipcp /\ u.phase = a.phase
      /\ SameEcho(a, u) /\ SameOpen(a, u) /\ u.num_np_up = a.num_np_up /\ u.iface = a.iface
      /\ u.ipcp_is_up = a.ipcp_is_up /\ (u.script = "s_up" <=> IpcpOpen(a))
  <2>1. CASE u = IpcpScript(a, "s_down", env) /\ ~IpcpOpen(a) BY <1>3, <2>1, ScriptFacts
  <2>2. CASE u = IpcpScript(a, "s_up", env) /\ IpcpOpen(a) BY <1>3, <2>2, ScriptFacts
  <2>3. CASE u = a /\ (a.script = "s_up" => IpcpOpen(a)) /\ (a.script = "s_down" => ~IpcpOpen(a))
    BY <1>3, <1>6, <2>3 DEF SameEcho, SameOpen
  <2> QED BY <1>4, <2>1, <2>2, <2>3
<1>8. DaemonInv(u)
  <2>1. (IpcpOpen(u) <=> IpcpOpen(d)) /\ (LcpOpen(u) <=> LcpOpen(d)) /\ (IpcpOpen(a) <=> IpcpOpen(d))
    BY <1>3, <1>7 DEF IpcpOpen, LcpOpen
  <2>2. Net(u, IpcpOpen(u)) BY <1>2, <1>3, <1>7, <2>1 DEF Net, Mid
  <2>3. u.echo_timer = u.echo_running BY <1>2, <1>3, <1>7 DEF Mid, SameEcho
  <2>4. ~LcpOpen(u) => u.ipcp.state = "INITIAL" /\ u.num_np_open = 0 /\ u.echo_timer = 0
    BY <1>2, <1>3, <1>7, <2>1 DEF Mid, SameEcho, SameOpen
  <2>5. Quiet(u.lcp) /\ Quiet(u.ipcp) /\ (u.phase = "RUNNING" => IpcpOpen(u))
    BY <1>2, <1>3, <1>7, <2>1 DEF Mid
  <2>6. Mid(u) BY <1>7, <2>2, <2>3, <2>4, <2>5 DEF Mid
  <2>7. LcpOpen(u) => Stays(u) BY <1>2, <1>3, <1>7, <2>1 DEF DaemonInv, Stays, SameEcho, SameOpen
  <2> QED BY <1>2, <1>3, <1>7, <2>6, <2>7 DEF DaemonInv
<1>9. d'.lcp = d.lcp /\ d'.phase = d.phase /\ pc' = pc /\ DaemonInv(d') BY <1>3, <1>5, <1>7, <1>8
<1> QED BY <1>9 DEF PppdInv

\* The echo timer: the link has failed, or the next request goes out.
LEMMA ExpireEchoInv == ASSUME PppdInv, ExpireEcho PROVE PppdInv'
<1> DEFINE t == [d EXCEPT !.echo_timer = @ - 1, !.echo_running = 0]
           q == [d EXCEPT !.echo_timer = 0, !.echo_running = 0]
           failed == d.echo_fails # 0 /\ d.echos_pending >= d.echo_fails
           u(env) == IF failed /\ t.lcp.state = "OPENED" THEN lcp_close(t, env) ELSE t
           v(env) == IF failed THEN [u(env) EXCEPT !.echos_pending = 0] ELSE u(env)
           w(env) == IF v(env).lcp.state = "OPENED" THEN LcpEchoCheck(v(env)) ELSE v(env)
<1>1. DaemonInv(d) /\ Mid(d) /\ d \in Daemon BY Loop DEF PppdInv
<1>2. Looping /\ d.echo_timer > 0 BY DEF ExpireEcho
<1>3. LcpOpen(d)
  <2>1. ~(0 > 0) BY SMTT(30)
  <2> QED BY <1>1, <1>2, <2>1 DEF Mid
<1>4. Stays(d) /\ d.phase # "DEAD" /\ d.echo_timer = 1 /\ d.echo_running = 1
  BY <1>1, <1>3, Loop DEF Mid, Stays
<1>5. 0 # 1 /\ 1 - 1 = 0 /\ 0 \in Nat BY SMTT(30)
<1>6. PICK env \in Env : d' = w(env) /\ pc' = pc
  <2>1. PICK env \in Env : Becomes(IF d.echo_running = 0 THEN [d EXCEPT !.echo_timer = @ - 1] ELSE w(env))
    BY DEF ExpireEcho
  <2> HIDE DEF w
  <2> QED BY <1>4, <1>5, <2>1 DEF Becomes
<1>7. t = q BY <1>4, <1>5
<1>8. /\ q \in Daemon /\ q.lcp = d.lcp /\ q.ipcp = d.ipcp /\ q.phase = d.phase
      /\ SameNet(d, q) /\ SameOpen(d, q) /\ q.echo_timer = 0 /\ q.echo_running = 0
  <2>1. q \in Daemon BY <1>1, <1>5 DEF Daemon
  <2>2. q.lcp = d.lcp /\ q.ipcp = d.ipcp /\ q.phase = d.phase BY <1>1 DEF Daemon
  <2>3. SameNet(d, q) /\ SameOpen(d, q) BY <1>1 DEF Daemon, SameNet, SameOpen
  <2>4. q.echo_timer = 0 /\ q.echo_running = 0 BY <1>1 DEF Daemon
  <2> QED BY <2>1, <2>2, <2>3, <2>4
<1> HIDE DEF t, q, failed
<1>9. LcpOpen(q) /\ (IpcpOpen(q) <=> IpcpOpen(d)) BY <1>3, <1>8 DEF LcpOpen, IpcpOpen
<1>10. Net(q, IpcpOpen(q)) BY <1>1, <1>8, <1>9 DEF Net, SameNet, Mid
<1>11. Mid(q) BY <1>1, <1>8, <1>9, <1>10 DEF Mid
<1>12. CASE failed
  <2> DEFINE c == lcp_close(q, env)
             e == [c EXCEPT !.echos_pending = 0]
  <2>1. u(env) = c BY <1>7, <1>9, <1>12 DEF LcpOpen
  <2>2. v(env) = e BY <1>12, <2>1
  <2>3. DaemonInv(c) /\ ~LcpOpen(c)
    <3>1. q.phase # "DEAD" BY <1>4, <1>8
    <3> QED BY <1>11, <3>1, LcpCloseInv
  <2> HIDE DEF c
  <2>4. c \in Daemon /\ Quiet(c.lcp) BY <2>3 DEF DaemonInv, Mid
  <2>5. Alike(c, e) BY <1>5, <2>4, SetPending
  <2> HIDE DEF e, v
  <2>6. DaemonInv(e) BY <2>3, <2>5, AlikeInv
  <2>7. e.lcp.state # "OPENED" BY <2>3, <2>5 DEF Alike, LcpOpen
  <2>8. w(env) = e BY <2>2, <2>7
  <2> HIDE DEF w
  <2>9. DaemonInv(d') BY <1>6, <2>6, <2>8
  <2> QED BY <1>2, <1>6, <2>9, LoopStep
<1>13. CASE ~failed
  <2> DEFINE c == LcpEchoCheck(q)
  <2>1. u(env) = q BY <1>7, <1>13
  <2>2. v(env) = q BY <1>13, <2>1
  <2> HIDE DEF v
  <2>3. w(env) = c BY <1>9, <2>2 DEF LcpOpen
  <2> HIDE DEF w
  <2>4. EchoSet(q, c) BY <1>8, EchoCheck
  <2> HIDE DEF c
  <2>5. /\ c \in Daemon /\ c.lcp = q.lcp /\ c.ipcp = q.ipcp /\ c.phase = q.phase
        /\ SameNet(q, c) /\ SameOpen(q, c) /\ c.echo_timer = 1 /\ c.echo_running = 1
    BY <2>4 DEF EchoSet
  <2>6. Quiet(c.lcp) /\ c.lcp.state = d.lcp.state /\ c.ipcp = d.ipcp /\ c.phase = d.phase
    BY <1>1, <1>8, <2>5 DEF Mid
  <2>7. SameEcho(d, c) BY <1>4, <2>5 DEF SameEcho
  <2>8. SameNet(d, c) /\ SameOpen(d, c) BY <1>8, <2>5 DEF SameNet, SameOpen
  <2>9. Alike(d, c) BY <2>5, <2>6, <2>7, <2>8 DEF Alike
  <2>10. DaemonInv(d') BY <1>1, <1>6, <2>3, <2>9, AlikeInv
  <2> QED BY <1>2, <1>6, <2>10, LoopStep
<1> QED BY <1>12, <1>13

----------------------------------------------------------------------------
\* Every event of the main loop keeps the invariant.
LEMMA PppdNext == ASSUME PppdInv, [Next]_vars PROVE PppdInv'
<1>1. CASE StopWaiting BY <1>1 DEF StopWaiting, PppdInv
<1>2. CASE UNCHANGED vars BY <1>2 DEF vars, PppdInv
<1>3. CASE InputLcp \/ InputIpcp \/ ProtocolReject \/ InputUnknown
  BY <1>3, InputLcpInv, InputIpcpInv, ProtocolRejectInv, InputUnknownInv
<1>4. CASE EchoReply \/ ExpireLcp \/ ExpireIpcp \/ ExpireEcho
  BY <1>4, EchoReplyInv, ExpireLcpInv, ExpireIpcpInv, ExpireEchoInv
<1>5. CASE Start \/ Signal \/ Hangup \/ ScriptDone \/ LeaveLoop
  BY <1>5, StartInv, SignalInv, HangupInv, ScriptDoneInv, LeaveLoopInv
<1> QED BY <1>1, <1>2, <1>3, <1>4, <1>5 DEF Next

\* The invariant holds throughout.
LEMMA PppdInvAlways == Spec => []PppdInv
<1>1. PppdInv /\ [Next]_vars => PppdInv' BY PppdNext
<1> QED BY PppdInit, <1>1, PTL DEF Spec

\* IPCP never outlives LCP: whichever of a packet, a timer, a signal, a hangup or the far
\* end's protocol-reject takes LCP out of OPENED, link_down has taken IPCP down and auth.c's
\* counters and phase agree with it.
THEOREM IpcpStaysInStep == Spec => []IpcpInStep
<1>1. PppdInv => IpcpInStep
  <2> SUFFICES ASSUME PppdInv PROVE IpcpInStep OBVIOUS
  <2>1. DaemonInv(d) /\ Mid(d) BY DEF PppdInv, DaemonInv
  <2>2. 0 # 1 BY SMTT(30)
  <2>3. d.num_np_up = d.ipcp_is_up /\ (d.ipcp_is_up = 1 <=> IpcpOpen(d)) BY <2>1, <2>2 DEF Mid, Net
  <2>4. d.num_np_open \in {0, 1} /\ (~LcpOpen(d) => d.ipcp.state = "INITIAL")
    BY <2>1 DEF DaemonInv, Mid, Stays
  <2>5. d.phase = "RUNNING" <=> IpcpOpen(d) BY <2>1, <2>4 DEF DaemonInv, Mid, Stays, IpcpOpen
  <2> QED BY <2>3, <2>4, <2>5 DEF IpcpInStep, LcpOpen
<1> QED BY <1>1, PppdInvAlways, PTL

\* lcp_echo_lowerup, lcp_echo_lowerdown and LcpEchoTimeout keep one entry on the callout
\* list while LCP is open and none otherwise, and lcp_echo_timer_running says which.
THEOREM EchoTimerIsOne == Spec => []EchoTimerOnce
<1>1. PppdInv => EchoTimerOnce
  <2> SUFFICES ASSUME PppdInv PROVE EchoTimerOnce OBVIOUS
  <2>1. DaemonInv(d) /\ Mid(d) BY DEF PppdInv, DaemonInv
  <2>2. 0 # 1 BY SMTT(30)
  <2> QED BY <2>1, <2>2 DEF EchoTimerOnce, DaemonInv, Mid, Stays, LcpOpen
<1> QED BY <1>1, PppdInvAlways, PTL

\* ipcp_up and ipcp_down, wherever they stop and whoever calls them, leave the interface
\* configured exactly while IPCP is open.
THEOREM InterfaceInStep == Spec => []InterfaceFollowsIpcp
<1>1. PppdInv => InterfaceFollowsIpcp
  BY DEF PppdInv, DaemonInv, Mid, Net, IpcpOpen, InterfaceFollowsIpcp
<1> QED BY <1>1, PppdInvAlways, PTL

\* ipcp_script_done catches up with what happened to IPCP while a script was running.
THEOREM ScriptsInStep == Spec => []ScriptFitsIpcp
<1>1. PppdInv => ScriptFitsIpcp
  BY DEF PppdInv, DaemonInv, Mid, Net, IpcpOpen, ScriptFitsIpcp
<1> QED BY <1>1, PppdInvAlways, PTL

\* main's last lcp_close brings both automata back to their original state, with nothing of
\* theirs left on the callout list.
THEOREM ExitIsClean == Spec => []CleanExit
<1>1. PppdInv => CleanExit
  <2> SUFFICES ASSUME PppdInv, pc \in {"wait", "exited"}
               PROVE  /\ d.lcp.state = "INITIAL" /\ d.ipcp.state = "INITIAL"
                      /\ d.lcp.timer = 0 /\ d.ipcp.timer = 0 /\ d.echo_timer = 0
    BY DEF CleanExit
  <2>1. Mid(d) /\ d.lcp.state = "INITIAL" BY DEF PppdInv, DaemonInv
  <2>2. d.ipcp.state = "INITIAL" /\ d.echo_timer = 0 BY <2>1 DEF Mid, LcpOpen
  <2>3. Quiet(d.lcp) /\ Quiet(d.ipcp) BY <2>1 DEF Mid
  <2>4. \A f : Quiet(f) /\ f.state = "INITIAL" => f.timer = 0
    BY DEF Quiet, FsmOK, Timed, Negotiating
  <2> QED BY <2>1, <2>2, <2>3, <2>4
<1> QED BY <1>1, PppdInvAlways, PTL

=============================================================================
