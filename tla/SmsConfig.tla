------------------------------ MODULE SmsConfig ------------------------------
(***************************************************************************)
(* Remote configuration by short message: sms_dmon_0624 looks at the       *)
(* message in slot 1 of the modem, sends the access point and quality of   *)
(* service of a configuration message ("smsapn:...") back to the modem,    *)
(* restarts pppd and deletes the message.                                  *)
(*                                                                         *)
(* It does not read the modem's answers: it writes commands to /dev/ttyS1, *)
(* sleeps, and looks in /var/log/modem, which a background "cat" fills     *)
(* with all that the modem says to anyone. init_modem_log starts the log   *)
(* over when it has 150 rows, and dm_dmon kills every cat when a debugging *)
(* cable is unplugged.                                                     *)
(***************************************************************************)
EXTENDS Naturals, Sequences

CONSTANTS
    Msgs,      \* messages that may be sent to the device, each once
    Config,    \* those with smsapn in the text
    NoMsg,     \* an empty slot, or no text
    MaxNoise,  \* bound: rows of other users of the modem
    MaxQueue   \* bound: commands that may wait for the modem

\* The rows that are not the text of a message; "AT" is the echo of AT+CMGR.
Words == {"AT", "CMGR", "OK", "CME", "other", "nothing", "pending"}

ASSUME MsgAssumption ==
    /\ Config \subseteq Msgs
    /\ NoMsg \notin Msgs
    /\ Msgs \cap Words = {} /\ NoMsg \notin Words
    /\ MaxNoise \in Nat
    /\ MaxQueue \in Nat

VARIABLES
    state,     \* state of the daemon; "asked" and "header" inside get_new_sms
    got,       \* get_new_sms.sh: the row it is about to print
    text,      \* apn_text and qos_text: the message they were cut from
    slot1,     \* the modem's message store: slot 1 ...
    rest,      \* ... and the messages in the other slots
    queue,     \* commands written to /dev/ttyS1 and not yet executed
    out,       \* rows of the modem's answer not yet received
    row,       \* the log has a row AT+CMGR (1) or not (0)
    rows,      \* the first two rows after the last such row
    reader,    \* "alive", "dead", or "restarting": the cat behind the log
    apn,       \* message the modem's settings came from
    qos,
    noise,     \* bound: rows of other users so far
    sent,      \* history: messages that have been sent
    behind,    \* history: those that found slot 1 taken
    applied,   \* history: times m has been applied (2: twice or more)
    deleted,   \* history: messages the modem has deleted
    accidents  \* history: what the design assumes not to happen, and did

daemon == <<state, text>>
store == <<slot1, rest>>
log == <<row, rows, got>>
settings == <<apn, qos>>
history == <<sent, behind, applied, deleted, accidents>>
vars == <<state, got, text, slot1, rest, queue, out, row, rows, reader, apn, qos,
          noise, sent, behind, applied, deleted, accidents>>

Init ==
    /\ state = "uninitialize"
    /\ got = NoMsg
    /\ text = NoMsg
    /\ slot1 = NoMsg
    /\ rest = {}
    /\ queue = <<>>
    /\ out = <<>>
    /\ row = 0
    /\ rows = <<>>
    /\ reader = "alive"
    /\ apn = NoMsg
    /\ qos = NoMsg
    /\ noise = 0
    /\ sent = {}
    /\ behind = {}
    /\ applied = [m \in Msgs |-> 0]
    /\ deleted = {}
    /\ accidents = {}

-----------------------------------------------------------------------------
(***************************************************************************)
(* The modem: it stores messages, executes commands in order and answers.  *)
(***************************************************************************)
Receive(m) ==
    /\ m \notin sent
    /\ sent' = sent \cup {m}
    /\ \/ /\ slot1 = NoMsg
          /\ slot1' = m
          /\ UNCHANGED <<rest, behind>>
       \/ /\ slot1 # NoMsg
          /\ rest' = rest \cup {m}
          /\ behind' = behind \cup {m}
          /\ UNCHANGED slot1
    /\ UNCHANGED <<daemon, queue, out, log, reader, settings, noise, applied, deleted,
                   accidents>>

Cmd(op, m) == [op |-> op, msg |-> m]

\* The rows of an answer; "AT" is the echo of AT+CMGR.
Answer(c) ==
    CASE c.op = "CMGR" /\ slot1 # NoMsg -> <<"AT", "CMGR", slot1, "OK">>
      [] c.op = "CMGR" /\ slot1 = NoMsg -> <<"AT", "OK">>
      [] OTHER -> <<"other">>

\* +CME ERROR, or any other error, in place of the message.
Errors == {<<"AT", "CME">>, <<"AT", "other">>}

Execute ==
    /\ queue # <<>>
    /\ out = <<>>
    /\ LET c == Head(queue)
           gone == CASE c.op = "CMGD1" -> {slot1}
                     [] c.op = "CMGDALL" -> {slot1} \cup rest
                     [] OTHER -> {}
       IN  /\ queue' = Tail(queue)
           /\ out' \in {Answer(c)} \cup (IF c.op = "CMGR" THEN Errors ELSE {})
           /\ slot1' = IF c.op \in {"CMGD1", "CMGDALL"} THEN NoMsg ELSE slot1
           /\ rest' = rest \ gone
           /\ deleted' = deleted \cup (gone \ {NoMsg})
           /\ apn' = IF c.op = "CGDCONT" THEN c.msg ELSE apn
           /\ qos' = IF c.op = "CGEQREQ" THEN c.msg ELSE qos
           /\ applied' = [m \in Msgs |-> IF c = Cmd("CGEQREQ", m) /\ applied[m] < 2
                                         THEN applied[m] + 1 ELSE applied[m]]
           /\ accidents' = accidents \cup (IF out' \in Errors THEN {"error"} ELSE {})
    /\ UNCHANGED <<daemon, log, reader, noise, sent, behind>>

\* A row reaches the log; without a reader it is lost. The script has counted
\* rows: what it will print is the row in that place, whatever it is.
Log(r) ==
    IF reader # "alive" THEN UNCHANGED log
    ELSE /\ got' = IF got = "pending" THEN r ELSE got
         /\ row' = IF r = "AT" THEN 1 ELSE row
         /\ rows' = IF r = "AT" THEN <<>>
                    ELSE IF row = 1 /\ Len(rows) < 2 THEN Append(rows, r)
                    ELSE rows

Deliver ==
    /\ out # <<>>
    /\ Log(Head(out))
    /\ out' = Tail(out)
    /\ UNCHANGED <<daemon, store, queue, reader, settings, noise, history>>

\* A row caused by another user of the modem, or unsolicited: it matters when
\* it comes between the header of a message and its text.
Noise ==
    /\ noise < MaxNoise
    /\ noise' = noise + 1
    /\ Log("other")
    /\ accidents' = accidents \cup (IF rows = <<"CMGR">> THEN {"noise"} ELSE {})
    /\ UNCHANGED <<daemon, store, queue, out, reader, settings, sent, behind, applied,
                   deleted>>

-----------------------------------------------------------------------------
(***************************************************************************)
(* init_modem_log: kill -9 the cat, and 0.1 s later start it on a new log. *)
(***************************************************************************)
Checking == state \in {"asked", "header"}

RotateKill ==
    /\ reader \in {"alive", "dead"}
    /\ reader' = "restarting"
    /\ accidents' = accidents \cup (IF Checking THEN {"rotation"} ELSE {})
    /\ UNCHANGED <<daemon, store, queue, out, log, settings, noise, sent, behind,
                   applied, deleted>>

RotateRestart ==
    /\ reader = "restarting"
    /\ reader' = "alive"
    /\ row' = 0
    /\ rows' = <<>>
    /\ got' = NoMsg
    /\ UNCHANGED <<daemon, store, queue, out, settings, noise, history>>

\* dm_dmon: ps -ef | grep cat | ... | xargs kill -9
KillCats ==
    /\ reader = "alive"
    /\ reader' = "dead"
    /\ accidents' = accidents \cup {"cats"}
    /\ UNCHANGED <<daemon, store, queue, out, log, settings, noise, sent, behind,
                   applied, deleted>>

-----------------------------------------------------------------------------
(***************************************************************************)
(* sms_dmon_0624                                                           *)
(***************************************************************************)
Write(op, m) == queue' = Append(queue, Cmd(op, m))

\* is_modem_exist: AT, and the row after the last AT command is OK.
Uninitialize ==
    /\ state = "uninitialize"
    /\ state' \in {"uninitialize", "set_text_mode"}
    /\ UNCHANGED <<text, store, queue, out, log, reader, settings, noise, history>>

\* AT+CMGF=1 (its answer is a row like any other).
SetTextMode ==
    /\ state = "set_text_mode"
    /\ state' = "check_sms"
    /\ UNCHANGED <<text, store, queue, out, log, reader, settings, noise, history>>

\* get_new_sms: AT+CMGR=1, then 0.6 s of sleep. A log that is being started
\* over at this moment may not get the answer.
CheckSms ==
    /\ state = "check_sms"
    /\ Len(queue) < MaxQueue
    /\ state' = "asked"
    /\ Write("CMGR", NoMsg)
    /\ accidents' = accidents \cup (IF reader = "restarting" THEN {"rotation"} ELSE {})
    /\ UNCHANGED <<text, store, out, log, reader, settings, noise, sent, behind, applied,
                   deleted>>

\* The answer is not complete when the daemon looks.
Late == queue # <<>> \/ out # <<>>

\* get_new_sms.sh: the row after the last AT+CMGR. Without such a row it
\* prints nothing, which the daemon takes for the text of a message, as it
\* does with "+CME ERROR...": it deletes all messages (AT+CMGD=1,4).
ReadHeaderDeleting(firsts) ==
    /\ state = "asked"
    /\ accidents' = accidents \cup (IF Late THEN {"late"} ELSE {})
    /\ LET first == IF rows = <<>> THEN "nothing" ELSE rows[1]
       IN  \/ /\ first = "CMGR"
              /\ state' = "header"
              /\ got' = IF Len(rows) = 2 THEN rows[2] ELSE "pending"
              /\ UNCHANGED queue
           \/ /\ row = 0 \/ first \in firsts
              /\ state' = "wait"
              /\ Write("CMGDALL", NoMsg)
              /\ UNCHANGED got
           \/ /\ row = 1 /\ first \notin {"CMGR"} \cup firsts
              /\ state' = "wait"
              /\ UNCHANGED <<queue, got>>
    /\ UNCHANGED <<text, store, out, row, rows, reader, settings, noise, sent, behind,
                   applied, deleted>>

\* Mutant: "none" is taken for a text, too.
ReadHeaderNoneIsText == ReadHeaderDeleting({"CME", "OK"})

ReadHeader == ReadHeaderDeleting({"CME"})

\* The row after that, read again from the file: a text with smsapn is a
\* configuration, and any other text, even an empty one, is a reason to
\* delete all messages.
ReadTextOf(configs, others) ==
    /\ state = "header"
    /\ accidents' = accidents \cup (IF Late THEN {"late"} ELSE {})
    /\ got' = NoMsg
    /\ \/ /\ got \in configs
          /\ text' = got
          /\ state' = "setting_apn"
          /\ UNCHANGED queue
       \/ /\ got \notin configs
          /\ state' = "wait"
          /\ queue' = queue \o others
          /\ UNCHANGED text
    /\ UNCHANGED <<store, out, row, rows, reader, settings, noise, sent, behind, applied,
                   deleted>>

\* Mutant: a message that is not for the daemon stays where it is.
ReadTextKeepsOthers == ReadTextOf(Config, <<>>)

ReadText == ReadTextOf(Config, <<Cmd("CMGDALL", NoMsg)>>)

SettingApn ==
    /\ state = "setting_apn"
    /\ state' = "setting_qos"
    /\ Write("CGDCONT", text)
    /\ UNCHANGED <<text, store, out, log, reader, settings, noise, history>>

\* Mutant: pppd is killed at once.
SettingQosHasty ==
    /\ state = "setting_qos"
    /\ state' = "delete_sms"
    /\ Write("CGEQREQ", text)
    /\ UNCHANGED <<text, store, out, log, reader, settings, noise, history>>

SettingQos ==
    /\ state = "setting_qos"
    /\ state' = "kill"
    /\ Write("CGEQREQ", text)
    /\ UNCHANGED <<text, store, out, log, reader, settings, noise, history>>

\* sleep 1; killall pppd
KillPppd ==
    /\ state = "kill"
    /\ state' = "delete_sms"
    /\ accidents' = accidents \cup (IF Late THEN {"late"} ELSE {})
    /\ UNCHANGED <<text, store, queue, out, log, reader, settings, noise, sent, behind,
                   applied, deleted>>

\* Mutant: the message is not deleted.
DeleteSmsForgets ==
    /\ state = "delete_sms"
    /\ state' = "wait"
    /\ text' = NoMsg
    /\ UNCHANGED <<store, queue, out, log, reader, settings, noise, history>>

\* AT+CMGD=1
DeleteSms ==
    /\ state = "delete_sms"
    /\ state' = "wait"
    /\ Write("CMGD1", NoMsg)
    /\ text' = NoMsg
    /\ UNCHANGED <<store, out, log, reader, settings, noise, history>>

\* sleep 5
Wait ==
    /\ state = "wait"
    /\ state' = "set_text_mode"
    /\ UNCHANGED <<text, store, queue, out, log, reader, settings, noise, history>>

DaemonStep ==
    \/ Uninitialize \/ SetTextMode \/ CheckSms \/ ReadHeader \/ ReadText
    \/ SettingApn \/ SettingQos \/ KillPppd \/ DeleteSms \/ Wait

ModemStep == Execute \/ Deliver

Next ==
    \/ DaemonStep \/ ModemStep \/ Noise
    \/ RotateKill \/ RotateRestart \/ KillCats
    \/ \E m \in Msgs : Receive(m)

Spec == Init /\ [][Next]_vars

\* The daemon goes on, the modem is there in the end, executes what it is told
\* and its answer arrives; a log being started over gets its new reader.
Fairness ==
    /\ WF_vars(DaemonStep)
    /\ WF_vars(Uninitialize /\ state' = "set_text_mode")
    /\ WF_vars(ModemStep)
    /\ WF_vars(RotateRestart)

FairSpec == Spec /\ Fairness

-----------------------------------------------------------------------------
\* A configuration message is never deleted before it has been applied, as
\* long as the modem answers in time, no row gets into its answer and the log
\* is not touched while the daemon looks at it (sms_dmon_0624, get_new_sms).
\* The exception without any such accident: a message that came while slot 1
\* was taken goes with the ordinary message in front of it (AT+CMGD=1,4).
NoConfigLost ==
    accidents = {} =>
        \A m \in Config \cap deleted : applied[m] > 0 \/ m \in behind

\* A configuration message is applied at most once: the daemon does not find
\* it in the log again after AT+CMGD=1. Only a late, lost or misplaced answer
\* leaves the old exchange as the last one of the log.
AppliedOnce ==
    accidents \cap {"late", "rotation", "cats"} = {} => \A m \in Msgs : applied[m] <= 1

\* When pppd is killed, to dial again with the new settings, the modem has the
\* access point and the quality of service of one and the same message.
RestartsWithSettings ==
    state = "delete_sms" /\ "late" \notin accidents => apn = text /\ qos = text

\* A configuration message in slot 1 is applied and deleted in the end, unless
\* one of the accidents happens.
ConfigHandled ==
    \A m \in Config :
        (slot1 = m) ~> ((m \in deleted /\ applied[m] > 0) \/ accidents # {})

\* No message blocks slot 1, the only one that is ever looked at, for good.
SlotFreed ==
    (slot1 # NoMsg) ~> (slot1 = NoMsg \/ accidents # {})

=============================================================================
