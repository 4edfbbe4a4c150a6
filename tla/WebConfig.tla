----------------------------- MODULE WebConfig -----------------------------
(***************************************************************************)
(* The pages that change a configuration file: "dhcp" (dhcp.c), "firewall" *)
(* (netfilter.c), "network" (network.c) and "profile" (system.c,           *)
(* profile.c). Each request is a process of its own. It writes the new     *)
(* file under a fixed name in /tmp, copies it over the one in /etc, and    *)
(* the first two pages then restart the service that reads it. Nothing     *)
(* keeps two requests apart, and power may be lost between any two steps.  *)
(* The pages share no file, so a behaviour is about one of them.           *)
(***************************************************************************)
EXTENDS FiniteSets, Integers

CONSTANTS
    CgiProcs,      \* CGI processes
    Values,        \* what an administrator may enter
    Initial,       \* what the shipped files hold
    Blank,         \* nothing
    Accept,        \* the rules of /etc/iptables.accept
    MaxPowerCuts   \* bound: restarts and power cuts

ASSUME WebAssumption ==
    /\ Blank \notin Values \cup {Initial}
    /\ MaxPowerCuts \in Nat

VARIABLES
    page,      \* the page this behaviour is about
    tmp, etc,  \* the file in /tmp and the one in /etc
    stateFile, \* /etc/service/iptables
    script,    \* /etc/init.d/udhcpd: "none", "empty" or "present"
    run,       \* what is in force: the files the running udhcpds have read,
               \* the rules in the kernel, the addresses set at boot
    cgiPc, req, \* each process: its next step and its parameters
    powerCuts,
    goal,      \* history: what /etc must hold after each request, if the
               \* request is never overlapped, else NoGoal
    settled,   \* history: the request whose settings are the current ones
    torn       \* history: a power cut or an overlap hit the file in /etc

files == <<tmp, etc, stateFile, script>>
webHistory == <<goal, settled, torn>>
webVars == <<page, files, run, cgiPc, req, powerCuts, webHistory>>

CgiPages == {"dhcp", "firewall", "network", "profile"}

\* A file has a beginning and an end: location and password of the profile,
\* the first and the later lines of the others. The profile ends with its
\* timeout, which is shipped as 60; the other files have none (0).
Text(h, t, n) == [head |-> h, tail |-> t, timeout |-> n]
Nothing == Text(Blank, Blank, 0)
Shipped == Text(Initial, Initial, IF page = "profile" THEN 60 ELSE 0)

\* write() at offset 0: what the new text does not reach stays.
Overlay(file, text) ==
    Text(IF text.head = Blank THEN file.head ELSE text.head,
             IF text.tail = Blank THEN file.tail ELSE text.tail,
             IF text = Nothing THEN file.timeout ELSE text.timeout)

\* The parameters of a request: the new text (of the profile, one of the two
\* fields) and "enable" or "state".
Fields == {Text(v, Blank, 0) : v \in Values} \cup {Text(Blank, v, 0) : v \in Values}
Switches(pg) ==
    IF pg = "dhcp" THEN {"on", "off", "missing"}
    ELSE IF pg = "firewall" THEN {"on", "off"} ELSE {"none"}
Long(v) == Text(v, v, 0)
Short(v) == Text(v, Blank, 0)
Requests(pg) ==
    [text : IF pg = "profile" THEN Fields
            ELSE UNION {{Long(v), Short(v)} : v \in Values},
     switch : Switches(pg)]
NoReq == [text |-> Nothing, switch |-> "none"]
NoGoal == [etc |-> Nothing, switch |-> "unknown"]

Idle(p) == cgiPc[p] = "idle"
GoOn(p, label) == cgiPc' = [cgiPc EXCEPT ![p] = label]

\* What the services do with the files at boot: rc.sysinit starts everything
\* in /etc/init.d.
Boots(conf, st, scr) ==
    IF page = "dhcp" THEN IF scr = "present" THEN {conf} ELSE {}
    ELSE IF page = "firewall"
         THEN IF st # "on" THEN {Accept}
              ELSE IF conf = Nothing THEN {} ELSE {conf}
    ELSE IF page = "network" THEN {conf} ELSE {}

\* The shipped device: DHCP on; the firewall off, as /etc/service/iptables
\* holds neither "enabled" nor "disabled".
WebInit ==
    /\ page \in CgiPages
    /\ tmp = Nothing
    /\ etc = Shipped
    /\ stateFile = "off"
    /\ script = "present"
    /\ run = Boots(etc, stateFile, script)
    /\ cgiPc = [p \in CgiProcs |-> "idle"]
    /\ req = [p \in CgiProcs |-> NoReq]
    /\ powerCuts = 0
    /\ goal = [p \in CgiProcs |-> NoGoal]
    /\ settled = NoGoal
    /\ torn = "no"

------------------------------------------------------------------------------
(* A request.                                                              *)

\* A daemon is running whose script is gone: only two overlapping requests
\* leave one behind.
Stray == page = "dhcp" /\ script # "present" /\ run # {}

\* The profile with one field replaced, as it must be saved: the timeout, which
\* no request sets, is not kept but 0.
Edited(file, field) == [Overlay(file, field) EXCEPT !.timeout = 0]

\* The page is called. Alone, and complete, it must have its effect.
Begin(p) ==
    /\ Idle(p)
    /\ \E r \in Requests(page) :
          /\ req' = [req EXCEPT ![p] = r]
          /\ goal' =
               IF /\ \A q \in CgiProcs : Idle(q)
                  /\ r.switch # "missing"
                  /\ ~(Stray /\ r.switch = "off")
               THEN [goal EXCEPT ![p] =
                       [etc |-> IF page = "profile" THEN Edited(etc, r.text)
                                ELSE r.text,
                        switch |-> r.switch]]
               ELSE [q \in CgiProcs |-> NoGoal]
    /\ GoOn(p, IF page = "profile" THEN "load" ELSE "open")
    /\ torn' = IF \E q \in CgiProcs : ~Idle(q) THEN "yes" ELSE torn
    /\ UNCHANGED <<page, files, run, powerCuts, settled>>

\* The request is over; p keeps nothing.
Finish(p) ==
    /\ GoOn(p, "idle")
    /\ req' = [req EXCEPT ![p] = NoReq]
    /\ goal' = [goal EXCEPT ![p] = NoGoal]
    /\ settled' = goal[p]
    /\ torn' = IF goal[p] # NoGoal /\ page # "profile" THEN "no" ELSE torn

\* Mutant: only the new field is saved.
LoadNot(p) ==
    /\ cgiPc[p] = "load"
    /\ GoOn(p, "open")
    /\ UNCHANGED <<page, files, run, req, powerCuts, webHistory>>

\* FTMC_LoadProfileConfig, with one field replaced by the caller. Of the
\* timeout only a negative one is stored in the cleared structure.
Loaded(file, field) ==
    [Overlay(file, field) EXCEPT !.timeout = IF file.timeout < 0 THEN file.timeout ELSE 0]

\* The request becomes a complete file.
Load(p) ==
    /\ cgiPc[p] = "load"
    /\ req' = [req EXCEPT ![p].text = Loaded(etc, @)]
    /\ GoOn(p, "open")
    /\ UNCHANGED <<page, files, run, powerCuts, webHistory>>

\* chg_passwd: the old password does not match the file, which the request
\* leaves as it is.
Refuse(p) ==
    /\ cgiPc[p] = "load"
    /\ req[p].text.head = Blank
    /\ GoOn(p, "idle")
    /\ req' = [req EXCEPT ![p] = NoReq]
    /\ goal' = [goal EXCEPT ![p] = NoGoal]
    /\ UNCHANGED <<page, files, run, powerCuts, settled, torn>>

\* fopen("/tmp/...", "w")
Open(p) ==
    /\ cgiPc[p] = "open"
    /\ tmp' = Nothing
    /\ GoOn(p, "write")
    /\ UNCHANGED <<page, etc, stateFile, script, run, req, powerCuts, webHistory>>

\* fprintf and fclose: the text is smaller than the buffer of the stream and
\* is written when the file is closed.
WriteTmp(p) ==
    /\ cgiPc[p] = "write"
    /\ tmp' = Overlay(tmp, req[p].text)
    /\ GoOn(p, IF page = "firewall" THEN "state" ELSE "cp")
    /\ UNCHANGED <<page, etc, stateFile, script, run, req, powerCuts, webHistory>>

\* fopen("/etc/service/iptables", "w")
OpenState(p) ==
    /\ cgiPc[p] = "state"
    /\ stateFile' = "empty"
    /\ GoOn(p, "writestate")
    /\ UNCHANGED <<page, tmp, etc, script, run, req, powerCuts, webHistory>>

WriteState(p) ==
    /\ cgiPc[p] = "writestate"
    /\ stateFile' = req[p].switch
    /\ GoOn(p, "cp")
    /\ UNCHANGED <<page, tmp, etc, script, run, req, powerCuts, webHistory>>

\* cp -f: the file in /etc is truncated ...
CpOpen(p) ==
    /\ cgiPc[p] = "cp"
    /\ etc' = Nothing
    /\ GoOn(p, "copy")
    /\ UNCHANGED <<page, tmp, stateFile, script, run, req, powerCuts, webHistory>>

\* ... and written. Without "enable" the DHCP page ends here, with a null
\* pointer.
CpCopy(p) ==
    /\ cgiPc[p] = "copy"
    /\ etc' = Overlay(etc, tmp)
    /\ LET label == IF page = "firewall" THEN "service"
                    ELSE IF page = "dhcp" /\ req[p].switch = "on" THEN "install"
                    ELSE IF page = "dhcp" /\ req[p].switch = "off" THEN "stop"
                    ELSE "idle"
       IN  IF label = "idle" THEN Finish(p)
           ELSE GoOn(p, label) /\ UNCHANGED <<req, webHistory>>
    /\ UNCHANGED <<page, tmp, stateFile, script, run, powerCuts>>

\* cp /etc/init.d/save/udhcpd /etc/init.d/
InstallOpen(p) ==
    /\ cgiPc[p] = "install"
    /\ script' = "empty"
    /\ GoOn(p, "installcopy")
    /\ UNCHANGED <<page, tmp, etc, stateFile, run, req, powerCuts, webHistory>>

InstallCopy(p) ==
    /\ cgiPc[p] = "installcopy"
    /\ script' = "present"
    /\ GoOn(p, "start")
    /\ UNCHANGED <<page, tmp, etc, stateFile, run, req, powerCuts, webHistory>>

\* pidof udhcpd finds the daemons, and the script of that name when another
\* request is in it.
Pidof(p) == run # {} \/ \E q \in CgiProcs \ {p} : cgiPc[q] \in {"launch", "relaunch"}

\* service udhcpd start. An unknown service is an error nobody sees.
StartDaemon(p) ==
    /\ cgiPc[p] = "start"
    /\ GoOn(p, IF script = "present" /\ ~Pidof(p) THEN "launch" ELSE "restart")
    /\ UNCHANGED <<page, files, run, req, powerCuts, webHistory>>

\* udhcpd reads its file before it detaches.
Launch(p) ==
    /\ cgiPc[p] = "launch"
    /\ run' = run \cup {etc}
    /\ GoOn(p, "restart")
    /\ UNCHANGED <<page, files, req, powerCuts, webHistory>>

\* Mutant: the page relies on "start".
RestartKillNot(p) ==
    /\ cgiPc[p] = "restart"
    /\ Finish(p)
    /\ UNCHANGED <<page, files, run, powerCuts>>

\* service udhcpd restart: pkill ...
RestartKill(p) ==
    /\ cgiPc[p] = "restart"
    /\ IF script = "present"
       THEN /\ run' = {}
            /\ GoOn(p, "relaunch")
            /\ UNCHANGED <<req, webHistory>>
       ELSE Finish(p) /\ UNCHANGED run
    /\ UNCHANGED <<page, files, powerCuts>>

\* ... and udhcpd, whether or not one is running.
Relaunch(p) ==
    /\ cgiPc[p] = "relaunch"
    /\ run' = run \cup {etc}
    /\ Finish(p)
    /\ UNCHANGED <<page, files, powerCuts>>

\* service udhcpd stop: pkill, if the script is there.
Stop(p) ==
    /\ cgiPc[p] = "stop"
    /\ run' = IF script = "present" THEN {} ELSE run
    /\ GoOn(p, "remove")
    /\ UNCHANGED <<page, files, req, powerCuts, webHistory>>

\* rm /etc/init.d/udhcpd
Remove(p) ==
    /\ cgiPc[p] = "remove"
    /\ script' = "none"
    /\ Finish(p)
    /\ UNCHANGED <<page, tmp, etc, stateFile, run, powerCuts>>

\* service iptables restart: cat /etc/service/iptables ...
ReadState(p) ==
    /\ cgiPc[p] = "service"
    /\ GoOn(p, IF stateFile = "on" THEN "restore" ELSE "accept")
    /\ UNCHANGED <<page, files, run, req, powerCuts, webHistory>>

\* ... and iptables-restore, for which an empty file is no change.
Restore(p) ==
    /\ cgiPc[p] \in {"restore", "accept"}
    /\ run' = IF cgiPc[p] = "accept" THEN {Accept}
              ELSE IF etc = Nothing THEN run ELSE {etc}
    /\ Finish(p)
    /\ UNCHANGED <<page, files, powerCuts>>

------------------------------------------------------------------------------
\* The power fails, or reboot.sh is called, and the device boots again. What
\* was written before is in flash; /tmp is lost.
PowerCycle ==
    /\ powerCuts < MaxPowerCuts
    /\ powerCuts' = powerCuts + 1
    /\ tmp' = Nothing
    /\ run' = Boots(etc, stateFile, script)
    /\ cgiPc' = [p \in CgiProcs |-> "idle"]
    /\ req' = [p \in CgiProcs |-> NoReq]
    /\ goal' = [p \in CgiProcs |-> NoGoal]
    /\ settled' = IF \A p \in CgiProcs : Idle(p) THEN settled ELSE NoGoal
    /\ torn' = IF \E p \in CgiProcs : cgiPc[p] = "copy" THEN "yes" ELSE torn
    /\ UNCHANGED <<page, etc, stateFile, script>>

Step(p) ==
    \/ Begin(p) \/ Load(p) \/ Refuse(p) \/ Open(p) \/ WriteTmp(p)
    \/ OpenState(p) \/ WriteState(p) \/ CpOpen(p) \/ CpCopy(p)
    \/ InstallOpen(p) \/ InstallCopy(p) \/ StartDaemon(p) \/ Launch(p)
    \/ RestartKill(p) \/ Relaunch(p) \/ Stop(p) \/ Remove(p)
    \/ ReadState(p) \/ Restore(p)

WebNext == PowerCycle \/ \E p \in CgiProcs : Step(p)

WebSpec == WebInit /\ [][WebNext]_webVars

------------------------------------------------------------------------------
AllIdle == \A p \in CgiProcs : Idle(p)

\* What must be in force once a request is through.
Wanted(g) ==
    IF page = "dhcp" THEN IF g.switch = "on" THEN {g.etc} ELSE {}
    ELSE IF page = "firewall" THEN IF g.switch = "on" THEN {g.etc} ELSE {Accept}
    ELSE run

\* A request that no other one overlapped has its full effect, whatever
\* overlapping requests, incomplete requests and power cuts left behind
\* before: the file in /etc is the one asked for, the running udhcpd has that
\* file, or none runs, and the kernel has the rules asked for. Of the profile
\* the field that was not asked for is as it was, but not so the timeout: the
\* shipped 60 is lost with the first change, because FTMC_LoadProfileConfig
\* keeps only a negative one. A restart, and a password change that is
\* refused, change nothing of it. (dhcp.c "set", netfilter.c "set",
\* FTMC_SaveProfileConfig. The one exception: the DHCP page cannot switch off
\* a daemon whose script overlapping requests removed, see Stray.)
SettledApplies ==
    AllIdle /\ settled # NoGoal =>
        /\ etc = settled.etc
        /\ run = Wanted(settled)
        /\ page \in {"dhcp", "firewall"} => Boots(etc, stateFile, script) = run

\* The text of one request.
WholeFile(c) ==
    /\ c.head # Blank
    /\ IF page = "profile" THEN c.tail # Blank ELSE c.tail \in {c.head, Blank}

\* Between requests the file in /etc is never empty and never a mixture of
\* two requests, unless requests overlapped or the power failed between the
\* truncation by cp and its write; and the next complete request repairs it,
\* except for the profile, whose lost field no request brings back.
WholeUnlessTorn == AllIdle /\ torn = "no" => WholeFile(etc)
=============================================================================
