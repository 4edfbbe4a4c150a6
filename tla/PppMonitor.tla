----------------------------- MODULE PppMonitor -----------------------------
(***************************************************************************)
(* The cellular connection as the FTM-50S keeps it up: the shell daemon    *)
(* new_mmon_0624 (a state machine polled once a second), nwcause_dmon      *)
(* (which forbids dialling for good once the network has rejected the      *)
(* subscription), the pppd processes the monitor starts, and whoever else  *)
(* runs "killall pppd" (the SMS daemon; the APN and QoS pages' "set").     *)
(*                                                                         *)
(* The daemons share nothing but files and the process table: the monitor  *)
(* reads /tmp/nwcause in one command and starts pppd in a later one.       *)
(***************************************************************************)
EXTENDS Naturals

CONSTANTS
    MAX_RETRY,        \* redials before a long rest (3 in the code)
    RSSI_MAX_RETRY,   \* weak readings tolerated before a long rest (3)
    MaxFresh          \* bound: pppd processes started and not yet at the lock

ASSUME RetryAssumption ==
    /\ MAX_RETRY \in Nat
    /\ RSSI_MAX_RETRY \in Nat

ASSUME FreshAssumption == MaxFresh \in Nat \ {0}

VARIABLES
    STAT,        \* the monitor's state (STAT and NEXT_STAT agree between polls)
    RETRY,       \* redials since the connection was first attempted
    RSSI_RETRY,  \* weak readings since the last rest they caused
    monPc,       \* "poll"; "dial" once it has read "sending", before pppd starts
    nwcause,     \* contents of /tmp/nwcause
    nwPc,        \* nwcause_dmon: "start", "poll", "kill" or "exit"
    messages,    \* "rejected" while the modem log has a #NWCAUSE: "SM",0,8 line
    line,        \* the pppd that holds the lock on /dev/ttyUSB0
    fresh,       \* number of pppd processes started and not yet at the lock
    network,     \* "calm" once modem and network work for good (see Settle)
    dials,       \* history: dials since the link was last seen up or rested
    lateDials    \* history: dials made after nwcause_dmon's killall

monVars == <<STAT, RETRY, RSSI_RETRY, monPc>>
nwVars == <<nwcause, nwPc>>
pppdVars == <<line, fresh>>
envVars == <<messages, network>>
dialHistory == <<dials, lateDials>>
allVars == <<STAT, RETRY, RSSI_RETRY, monPc, nwcause, nwPc, messages, line,
             fresh, network, dials, lateDials>>

Stats == {"UNINITIALIZED", "RSSI_CHECK", "INITIALIZED", "SIM_READY",
          "REGISTERED", "WAITING_FOR_PPP_CONNECTION_COMPLETED",
          "LONGTERM_WAITING", "CHECK_PPPD", "PPP_CONNECTION_COMPLETED",
          "PPP_IS_DISCONNECTED"}

\* "dialing": chat and negotiation; "up": ppp0 exists; after a SIGTERM or a
\* hang-up pppd first takes ppp0 down ("closingUp") and then exits ("closing").
Lines == {"none", "dialing", "up", "closingUp", "closing"}

MonInit ==
    /\ STAT = "UNINITIALIZED"
    /\ RETRY = 0
    /\ RSSI_RETRY = 0
    /\ monPc = "poll"
    /\ nwcause = "absent"
    /\ nwPc = "start"
    /\ messages = "clean"
    /\ line = "none"
    /\ fresh = 0
    /\ network = "rough"
    /\ dials = 0
    /\ lateDials = 0

-----------------------------------------------------------------------------
(***************************************************************************)
(* What the daemons see of pppd, and what a SIGTERM does to it.            *)
(***************************************************************************)

\* is_ppp_connected: /proc/net/dev lists ppp0.
is_ppp_connected == line \in {"up", "closingUp"}

\* Mutant: looks for the interface instead of the process.
PppdRunsByInterface == is_ppp_connected

\* pidof pppd prints something.
PppdRuns == line # "none" \/ fresh > 0

\* kill -15 / killall pppd: a pppd still starting dies at once, the holder of
\* the line hangs up and exits in its own time.
KillAllPppd ==
    /\ fresh' = 0
    /\ line' = IF line = "up" THEN "closingUp"
               ELSE IF line = "dialing" THEN "closing" ELSE line

-----------------------------------------------------------------------------
(***************************************************************************)
(* new_mmon_0624: one action per state (two where it dials).               *)
(***************************************************************************)

\* change_stat $NEXT_STAT, at the end of every poll.
change_stat(next) == STAT' = next

\* A poll that only moves the state machine.
MoveTo(next) ==
    /\ change_stat(next)
    /\ UNCHANGED <<RETRY, RSSI_RETRY, monPc, nwVars, pppdVars, envVars,
                   dialHistory>>

\* The answer to an AT query is whatever the log shows; once calm, the modem
\* answers, the SIM is ready and the network is registered.
QueryAnswers == IF network = "calm" THEN {TRUE} ELSE BOOLEAN

Uninitialized ==
    /\ STAT = "UNINITIALIZED"
    /\ \E is_modem_exist \in QueryAnswers :
          MoveTo(IF is_modem_exist THEN "RSSI_CHECK" ELSE "UNINITIALIZED")

Initialized ==
    /\ STAT = "INITIALIZED"
    /\ \E is_ready \in QueryAnswers :
          MoveTo(IF is_ready THEN "SIM_READY" ELSE "INITIALIZED")

SimReady ==
    /\ STAT = "SIM_READY"
    /\ \E is_registered \in QueryAnswers :
          MoveTo(IF is_registered THEN "REGISTERED" ELSE "SIM_READY")

\* The link is seen up: the dialling history starts again.
SeenUp ==
    /\ change_stat("PPP_CONNECTION_COMPLETED")
    /\ dials' = 0
    /\ UNCHANGED <<RETRY, RSSI_RETRY, monPc, nwVars, pppdVars, envVars,
                   lateDials>>

\* AT#RFSTS gives no number (stay), a strong signal, or -90 dBm and below.
\* Below -90 the link is hung up; the fourth such reading rests.
RssiCheck ==
    /\ STAT = "RSSI_CHECK"
    /\ \E rssi \in IF network = "calm" THEN {"good"} ELSE {"none", "good", "weak"} :
          \/ rssi = "none" /\ MoveTo("RSSI_CHECK")
          \/ rssi = "good" /\ is_ppp_connected /\ SeenUp
          \/ rssi = "good" /\ ~is_ppp_connected /\ MoveTo("INITIALIZED")
          \/ /\ rssi = "weak"
             /\ RSSI_RETRY < RSSI_MAX_RETRY
             /\ RSSI_RETRY' = RSSI_RETRY + 1
             /\ change_stat("INITIALIZED")
             /\ IF is_ppp_connected THEN KillAllPppd ELSE UNCHANGED pppdVars
             /\ UNCHANGED <<RETRY, monPc, nwVars, envVars, dialHistory>>
          \/ /\ rssi = "weak"
             /\ RSSI_RETRY >= RSSI_MAX_RETRY
             /\ RSSI_RETRY' = 0
             /\ change_stat("LONGTERM_WAITING")
             /\ KillAllPppd
             /\ UNCHANGED <<RETRY, monPc, nwVars, envVars, dialHistory>>

\* Mutant: any content of the file will do.
MayDialOnAnyContent == nwcause # "absent"

\* res=`cat /tmp/nwcause`; [ "$res" = "sending" ]
MayDial == nwcause = "sending"

\* Dialling allowed: go on to start pppd. Forbidden: rest.
ReadNwcause ==
    \/ /\ MayDial
       /\ monPc' = "dial"
       /\ UNCHANGED <<STAT, RETRY, RSSI_RETRY, nwVars, pppdVars, envVars,
                      dialHistory>>
    \/ ~MayDial /\ MoveTo("LONGTERM_WAITING")

Registered ==
    /\ STAT = "REGISTERED"
    /\ monPc = "poll"
    /\ \/ is_ppp_connected /\ SeenUp
       \/ ~is_ppp_connected /\ ReadNwcause

\* pppd file /etc/ppp/scripts/uc864-e &
StartPppd(retry) ==
    /\ fresh < MaxFresh
    /\ fresh' = fresh + 1
    /\ RETRY' = retry
    /\ monPc' = "poll"
    /\ change_stat("WAITING_FOR_PPP_CONNECTION_COMPLETED")
    /\ dials' = dials + 1
    /\ lateDials' = lateDials + (IF nwPc = "exit" THEN 1 ELSE 0)
    /\ UNCHANGED <<RSSI_RETRY, line, nwVars, envVars>>

RegisteredDial == STAT = "REGISTERED" /\ monPc = "dial" /\ StartPppd(0)

Waiting ==
    /\ STAT = "WAITING_FOR_PPP_CONNECTION_COMPLETED"
    /\ MoveTo("CHECK_PPPD")

\* [ $RETRY -lt $MAX_RETRY ]
RetriesLeft == RETRY < MAX_RETRY

CheckPppd ==
    /\ STAT = "CHECK_PPPD"
    /\ monPc = "poll"
    /\ \/ ~PppdRuns /\ RetriesLeft /\ ReadNwcause
       \/ /\ ~PppdRuns
          /\ ~RetriesLeft
          /\ RETRY' = 0
          /\ change_stat("LONGTERM_WAITING")
          /\ UNCHANGED <<RSSI_RETRY, monPc, nwVars, pppdVars, envVars,
                         dialHistory>>
       \/ PppdRuns /\ is_ppp_connected /\ SeenUp
       \/ PppdRuns /\ ~is_ppp_connected /\ MoveTo("CHECK_PPPD")

\* Mutant: the redial is not counted.
CheckPppdDialUncounted == STAT = "CHECK_PPPD" /\ monPc = "dial" /\ StartPppd(RETRY)

CheckPppdDial == STAT = "CHECK_PPPD" /\ monPc = "dial" /\ StartPppd(RETRY + 1)

\* sleep 60; the history of dials starts again after the rest.
LongtermWaiting ==
    /\ STAT = "LONGTERM_WAITING"
    /\ change_stat("REGISTERED")
    /\ dials' = 0
    /\ UNCHANGED <<RETRY, RSSI_RETRY, monPc, nwVars, pppdVars, envVars,
                   lateDials>>

\* Mutant: a pppd that has exited leaves NEXT_STAT as it was.
CompletedForever ==
    /\ STAT = "PPP_CONNECTION_COMPLETED"
    /\ MoveTo(IF PppdRuns THEN "RSSI_CHECK" ELSE STAT)

Completed ==
    /\ STAT = "PPP_CONNECTION_COMPLETED"
    /\ MoveTo(IF PppdRuns THEN "RSSI_CHECK" ELSE "PPP_IS_DISCONNECTED")

Disconnected ==
    /\ STAT = "PPP_IS_DISCONNECTED"
    /\ MoveTo("REGISTERED")

Monitor ==
    \/ Uninitialized \/ RssiCheck \/ Initialized \/ SimReady
    \/ Registered \/ RegisteredDial \/ Waiting \/ CheckPppd \/ CheckPppdDial
    \/ LongtermWaiting \/ Completed \/ Disconnected

-----------------------------------------------------------------------------
(***************************************************************************)
(* nwcause_dmon.                                                           *)
(***************************************************************************)

\* echo sending > /tmp/nwcause
NwStart ==
    /\ nwPc = "start"
    /\ nwcause' = "sending"
    /\ nwPc' = "poll"
    /\ UNCHANGED <<monVars, pppdVars, envVars, dialHistory>>

\* A poll that finds the rejection in the log writes "seding stop".
NwPoll ==
    /\ nwPc = "poll"
    /\ nwcause = "sending"
    /\ messages = "rejected"
    /\ nwcause' = "seding_stop"
    /\ nwPc' = "kill"
    /\ UNCHANGED <<monVars, pppdVars, envVars, dialHistory>>

\* Mutant: nwcause_dmon leaves the running pppd alone.
NwKillNobody ==
    /\ nwPc = "kill"
    /\ nwPc' = "exit"
    /\ UNCHANGED <<monVars, nwcause, pppdVars, envVars, dialHistory>>

\* killall pppd; the next poll no longer reads "sending" and leaves the loop.
NwKill ==
    /\ nwPc = "kill"
    /\ nwPc' = "exit"
    /\ KillAllPppd
    /\ UNCHANGED <<monVars, nwcause, envVars, dialHistory>>

NwDaemon == NwStart \/ NwPoll \/ NwKill

-----------------------------------------------------------------------------
(***************************************************************************)
(* pppd (external): the first process to reach the lock on the line dials, *)
(* another one exits. There is no "persist", so a pppd whose dial fails or *)
(* whose link drops exits. chat gives up after its default 45 seconds.     *)
(***************************************************************************)

Pppd(newLine, newFresh) ==
    /\ line' = newLine
    /\ fresh' = newFresh
    /\ UNCHANGED <<monVars, nwVars, envVars, dialHistory>>

PppdLock == fresh > 0 /\ line = "none" /\ Pppd("dialing", fresh - 1)

PppdLockBusy == fresh > 0 /\ line # "none" /\ Pppd(line, fresh - 1)

PppdUp == line = "dialing" /\ Pppd("up", fresh)

PppdDialFails == line = "dialing" /\ network = "rough" /\ Pppd("none", fresh)

PppdLinkLost == line = "up" /\ network = "rough" /\ Pppd("closing", fresh)

PppdHangUp == line = "closingUp" /\ Pppd("closing", fresh)

PppdExit == line = "closing" /\ Pppd("none", fresh)

-----------------------------------------------------------------------------
(***************************************************************************)
(* The rest of the box and the network.                                    *)
(***************************************************************************)

\* sms_dmon_0624 after setting a QoS, killpppd.sh from the web page.
OtherKill ==
    /\ network = "rough"
    /\ PppdRuns
    /\ KillAllPppd
    /\ UNCHANGED <<monVars, nwVars, envVars, dialHistory>>

\* The network answers a dial with #NWCAUSE: "SM",0,8 in the modem log.
NetReject ==
    /\ network = "rough"
    /\ line = "dialing"
    /\ messages = "clean"
    /\ messages' = "rejected"
    /\ UNCHANGED <<monVars, nwVars, pppdVars, network, dialHistory>>

\* init_modem_log truncates the log at 150 lines: the answer is gone.
LogRotate ==
    /\ messages = "rejected"
    /\ messages' = "clean"
    /\ UNCHANGED <<monVars, nwVars, pppdVars, network, dialHistory>>

\* From some moment on nothing goes wrong any more: the modem answers, the
\* SIM is ready, the signal is good, dials succeed, nobody kills pppd.
Settle ==
    /\ network = "rough"
    /\ network' = "calm"
    /\ UNCHANGED <<monVars, nwVars, pppdVars, messages, dialHistory>>

PppdProgress ==
    PppdLock \/ PppdLockBusy \/ PppdUp \/ PppdDialFails \/ PppdHangUp
    \/ PppdExit

Environment == PppdProgress \/ PppdLinkLost \/ OtherKill \/ NetReject
               \/ LogRotate \/ Settle

MonNext == Monitor \/ NwDaemon \/ Environment

MonSpec == MonInit /\ [][MonNext]_allVars

\* The daemons' loops consist of sleeps and of commands that return; a pppd
\* reaches the lock, its chat script times out and a hang-up completes.
MonFairness ==
    /\ WF_allVars(Monitor)
    /\ WF_allVars(NwDaemon)
    /\ WF_allVars(PppdProgress)

MonFairSpec == MonSpec /\ MonFairness

-----------------------------------------------------------------------------
\* Types of the monitor's, the daemon's and pppd's state; RETRY and
\* RSSI_RETRY never pass the limits they are compared with.
MonTypeOK ==
    /\ STAT \in Stats
    /\ RETRY \in 0..MAX_RETRY
    /\ RSSI_RETRY \in 0..RSSI_MAX_RETRY
    /\ monPc \in {"poll", "dial"}
    /\ nwcause \in {"absent", "sending", "seding_stop"}
    /\ nwPc \in {"start", "poll", "kill", "exit"}
    /\ messages \in {"clean", "rejected"}
    /\ line \in Lines
    /\ fresh \in 0..MaxFresh
    /\ network \in {"rough", "calm"}
    /\ dials \in Nat
    /\ lateDials \in Nat

\* The monitor dials at most 1 + MAX_RETRY times without either seeing ppp0
\* or resting 60 seconds, whichever way links drop, get killed or are
\* refused in between (REGISTERED's first dial and CHECK_PPPD's redials).
DialBudget == dials <= MAX_RETRY + 1

\* A redial from CHECK_PPPD always finds the serial line free: between its
\* pidof and the start of pppd no other pppd can have appeared, although
\* /tmp/nwcause is read in between (REGISTERED gives no such guarantee).
RedialFindsFreeLine == (STAT = "CHECK_PPPD" /\ monPc = "dial") => ~PppdRuns

\* Once nwcause_dmon has seen the rejection and killed pppd, the monitor
\* starts pppd at most once more: the dial it had already decided on when
\* it read "sending".
AtMostOneLateDial == lateDials <= 1

\* If no such dial was under way the rejection is final: every pppd exits
\* and none ever runs again.
RejectIsFinal ==
    (nwPc = "exit" /\ monPc = "poll" /\ lateDials = 0) ~> [](~PppdRuns)

\* Whatever state the disturbances left the monitor in, once they cease the
\* link comes up and stays up, unless the network has rejected the box.
SettledLinkStaysUp ==
    network = "calm" ~> [](line = "up" \/ nwcause = "seding_stop")

=============================================================================
