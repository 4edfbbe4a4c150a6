------------------------------- MODULE PppFsm -------------------------------
(***************************************************************************)
(* The option-negotiation automaton of pppd (fsm.c), which LCP and IPCP    *)
(* share.  One automaton is a record f; every entry point of fsm.c is an   *)
(* operator that returns the record after the call.  The packets a call    *)
(* sends are appended to f.out and the callbacks it makes to f.calls, both *)
(* in the order of the code; the module that owns the automaton consumes   *)
(* them.  The callbacks never read what the rest of the call still         *)
(* changes, so running them after the call is the same as running them     *)
(* inside it.                                                              *)
(*                                                                         *)
(* The options of a protocol are abstracted to one option: its value is    *)
(* NoVal when it is not negotiated.  f.want is the value asked for at      *)
(* first, f.allow the values this end agrees to, f.got and f.his what was  *)
(* negotiated for this end and for the peer.                               *)
(***************************************************************************)
EXTENDS Integers, Sequences

CONSTANTS MaxConfReqs,   \* DEFMAXCONFREQS
          MaxTermReqs,   \* DEFMAXTERMREQS
          MaxNakLoops,   \* DEFMAXNAKLOOPS
          IdMod,         \* identifiers are u_char: 256
          Vals, NoVal    \* the values of the option, and its absence

ASSUME FsmAssumption ==
  /\ MaxConfReqs \in Nat \ {0} /\ MaxTermReqs \in Nat /\ MaxNakLoops \in Nat
  /\ IdMod \in Nat \ {0} /\ NoVal \notin Vals

Negotiating == {"REQSENT", "ACKRCVD", "ACKSENT"}
Timed == Negotiating \cup {"CLOSING", "STOPPING"}
FsmStates == Timed \cup {"INITIAL", "STARTING", "CLOSED", "STOPPED", "OPENED"}

Codes == {"CONFREQ", "CONFACK", "CONFNAK", "CONFREJ", "TERMREQ", "TERMACK",
          "CODEREJ", "OTHER"}
Packets == [code : Codes, id : 0..IdMod-1, val : Vals \cup {NoVal}]

Fsm == [state : FsmStates, id : 0..IdMod-1, reqid : 0..IdMod-1, seen_ack : {0, 1},
        retransmits : Int, nakloops : Nat, rnakloops : Nat, timer : Nat,
        flags : SUBSET {"PASSIVE", "SILENT"},
        want : Vals \cup {NoVal}, allow : SUBSET Vals,
        got : Vals \cup {NoVal}, his : Vals \cup {NoVal},
        out : Seq(Packets), calls : Seq({"up", "down", "finished"})]

FsmInit(want, allow, flags) ==
  [state |-> "INITIAL", id |-> 0, reqid |-> 0, seen_ack |-> 0, retransmits |-> 0,
   nakloops |-> 0, rnakloops |-> 0, timer |-> 0, flags |-> flags,
   want |-> want, allow |-> allow, got |-> NoVal, his |-> NoVal,
   out |-> << >>, calls |-> << >>]

NextId(f) == (f.id + 1) % IdMod
SData(f, code, id, val) ==
  [f EXCEPT !.out = Append(@, [code |-> code, id |-> id, val |-> val])]
Callback(f, c) == [f EXCEPT !.calls = Append(@, c)]

\* TIMEOUT adds an entry for fsm_timeout to the callout list; UNTIMEOUT removes
\* the first one, if there is one.
TimeoutOn(f) == [f EXCEPT !.timer = @ + 1]
Untimeout(f) == [f EXCEPT !.timer = IF @ > 0 THEN @ - 1 ELSE 0]

----------------------------------------------------------------------------
\* The option callbacks of the protocols.

ResetCI(f) == [f EXCEPT !.got = f.want]
AckCI(f, val) == val = f.got
\* A suggestion is taken when it is one this end agrees to; when the peer has
\* sent too many Naks the option is given up instead.
NakCI(f, val, treatAsReject) ==
  [f EXCEPT !.got = IF treatAsReject THEN NoVal ELSE IF val \in f.allow THEN val ELSE @]
\* Mutant: a rejected option is asked for again.
RejCIKeeps(f) == f

RejCI(f) == [f EXCEPT !.got = NoVal]
\* The verdict on the peer's request and the value that goes back with it.
ReqCI(f, val, rejectIfDisagree) ==
  IF val = NoVal \/ val \in f.allow THEN [code |-> "CONFACK", val |-> val]
  ELSE IF rejectIfDisagree \/ f.allow = {} THEN [code |-> "CONFREJ", val |-> val]
  ELSE [code |-> "CONFNAK", val |-> CHOOSE v \in f.allow : TRUE]

----------------------------------------------------------------------------
SConfReq(f, retransmit) ==
  LET g == IF f.state \in Negotiating THEN f
           ELSE [ResetCI(f) EXCEPT !.nakloops = 0, !.rnakloops = 0]
      h == IF retransmit THEN g
           ELSE [g EXCEPT !.retransmits = MaxConfReqs, !.id = NextId(g), !.reqid = NextId(g)]
  IN TimeoutOn(SData([h EXCEPT !.seen_ack = 0, !.retransmits = @ - 1],
                     "CONFREQ", h.reqid, h.got))
Renegotiate(f) == [SConfReq(f, FALSE) EXCEPT !.state = "REQSENT"]

LowerUp(f) ==
  IF f.state = "INITIAL" THEN [f EXCEPT !.state = "CLOSED"]
  ELSE IF f.state # "STARTING" THEN f
  ELSE IF "SILENT" \in f.flags THEN [f EXCEPT !.state = "STOPPED"]
  ELSE Renegotiate(f)

\* Mutant: the callout survives the line.
LowerDownKeepsTimer(f) ==
  LET g == IF f.state = "OPENED" THEN Callback(f, "down") ELSE f
  IN [g EXCEPT !.state = IF f.state \in {"INITIAL", "CLOSED", "CLOSING"} THEN "INITIAL"
                         ELSE "STARTING"]

LowerDown(f) ==
  LET g == IF f.state \in Timed THEN Untimeout(f)
           ELSE IF f.state = "OPENED" THEN Callback(f, "down") ELSE f
  IN [g EXCEPT !.state = IF f.state \in {"INITIAL", "CLOSED", "CLOSING"} THEN "INITIAL"
                         ELSE "STARTING"]

\* The restart of an open layer (OPT_RESTART) is for CCP only.
Open(f) ==
  IF f.state = "INITIAL" THEN [f EXCEPT !.state = "STARTING"]
  ELSE IF f.state = "CLOSED"
    THEN IF "SILENT" \in f.flags THEN [f EXCEPT !.state = "STOPPED"] ELSE Renegotiate(f)
  ELSE IF f.state = "CLOSING" THEN [f EXCEPT !.state = "STOPPING"]
  ELSE f

\* Mutant: the Terminate-Request is sent once, without a timer.
TerminateLayerUntimed(f, nextstate) ==
  LET g == IF f.state # "OPENED" THEN Untimeout(f) ELSE Callback(f, "down")
      h == SData([g EXCEPT !.retransmits = MaxTermReqs, !.id = NextId(g), !.reqid = NextId(g)],
                 "TERMREQ", NextId(g), NoVal)
  IN [h EXCEPT !.state = nextstate, !.retransmits = @ - 1]

\* terminate_layer; MaxTermReqs = 0 asks for no wait at all.
TerminateLayer(f, nextstate) ==
  LET g == IF f.state # "OPENED" THEN Untimeout(f) ELSE Callback(f, "down")
      h == SData([g EXCEPT !.retransmits = MaxTermReqs, !.id = NextId(g), !.reqid = NextId(g)],
                 "TERMREQ", NextId(g), NoVal)
  IN IF MaxTermReqs = 0
       THEN Callback([h EXCEPT !.state = IF nextstate = "CLOSING" THEN "CLOSED" ELSE "STOPPED"],
                     "finished")
       ELSE TimeoutOn([h EXCEPT !.state = nextstate, !.retransmits = @ - 1])

Close(f) ==
  IF f.state \in Negotiating \cup {"OPENED"} THEN TerminateLayer(f, "CLOSING")
  ELSE IF f.state = "STARTING" THEN [f EXCEPT !.state = "INITIAL"]
  ELSE IF f.state = "STOPPED" THEN [f EXCEPT !.state = "CLOSED"]
  ELSE IF f.state = "STOPPING" THEN [f EXCEPT !.state = "CLOSING"]
  ELSE f

\* fsm_timeout, called by calltimeout, which has taken the entry off the list.
Expire(f) ==
  LET g == [f EXCEPT !.timer = @ - 1]
      done == IF f.state = "CLOSING" THEN "CLOSED" ELSE "STOPPED"
  IN IF f.state \notin Timed THEN g
     ELSE IF f.retransmits <= 0
       THEN IF f.state \in Negotiating /\ "PASSIVE" \in f.flags
              THEN [g EXCEPT !.state = done]
              ELSE Callback([g EXCEPT !.state = done], "finished")
     ELSE IF f.state \in Negotiating
       THEN [SConfReq(g, TRUE) EXCEPT !.state = IF f.state = "ACKRCVD" THEN "REQSENT" ELSE f.state]
     ELSE TimeoutOn(SData([g EXCEPT !.retransmits = @ - 1, !.id = NextId(g), !.reqid = NextId(g)],
                          "TERMREQ", NextId(g), NoVal))

----------------------------------------------------------------------------
\* The handlers of received packets.

\* Mutant: an acknowledged request is not recorded.
AgreedUnrecorded(f, state, val) ==
  [f EXCEPT !.state = state, !.nakloops = 0, !.his = IF state = "OPENED" THEN @ ELSE val]

\* The peer's options are agreed to: the automaton moves on with them.
Agreed(f, state, val) == [f EXCEPT !.state = state, !.nakloops = 0, !.his = val]

RConfReq(f, id, val) ==
  LET g == IF f.state = "OPENED" THEN Renegotiate(Callback(f, "down"))
           ELSE IF f.state = "STOPPED" THEN Renegotiate(f) ELSE f
      verdict == ReqCI(g, val, g.nakloops >= MaxNakLoops)
      h == SData(g, verdict.code, id, verdict.val)
  IN IF f.state = "CLOSED" THEN SData(f, "TERMACK", id, NoVal)
     ELSE IF f.state \in {"CLOSING", "STOPPING"} THEN f
     ELSE IF verdict.code = "CONFACK"
       THEN IF g.state = "ACKRCVD"
              THEN Callback(Agreed(Untimeout(h), "OPENED", val), "up")
              ELSE Agreed(h, "ACKSENT", val)
     ELSE [h EXCEPT !.state = IF g.state = "ACKRCVD" THEN "ACKRCVD" ELSE "REQSENT",
                    !.nakloops = IF verdict.code = "CONFNAK" THEN @ + 1 ELSE @]

RConfAck(f, id, val) ==
  LET g == [f EXCEPT !.seen_ack = 1, !.rnakloops = 0]
  IN IF id # f.reqid \/ f.seen_ack = 1 \/ ~AckCI(f, val) THEN f
     ELSE IF f.state \in {"CLOSED", "STOPPED"} THEN SData(g, "TERMACK", id, NoVal)
     ELSE IF f.state = "REQSENT"
       THEN [g EXCEPT !.state = "ACKRCVD", !.retransmits = MaxConfReqs]
     ELSE IF f.state = "ACKRCVD" THEN Renegotiate(Untimeout(g))
     ELSE IF f.state = "ACKSENT"
       THEN Callback([Untimeout(g) EXCEPT !.state = "OPENED", !.retransmits = MaxConfReqs], "up")
     ELSE IF f.state = "OPENED" THEN Renegotiate(Callback(g, "down"))
     ELSE g

RConfNakRej(f, code, id, val) ==
  LET loops == IF code = "CONFNAK" THEN f.rnakloops + 1 ELSE 0
      counted == [f EXCEPT !.rnakloops = loops]
      bad == f.got = NoVal \/ (code = "CONFREJ" /\ val # f.got)
      g == [(IF code = "CONFNAK" THEN NakCI(counted, val, loops >= MaxNakLoops)
             ELSE RejCI(counted)) EXCEPT !.seen_ack = 1]
  IN IF id # f.reqid \/ f.seen_ack = 1 THEN f
     ELSE IF bad THEN counted
     ELSE IF f.state \in {"CLOSED", "STOPPED"} THEN SData(g, "TERMACK", id, NoVal)
     ELSE IF f.state \in {"REQSENT", "ACKSENT"} THEN SConfReq(Untimeout(g), FALSE)
     ELSE IF f.state = "ACKRCVD" THEN Renegotiate(Untimeout(g))
     ELSE IF f.state = "OPENED" THEN Renegotiate(Callback(g, "down"))
     ELSE g

\* Mutant: the upper layers are not told.
RTermReqSilent(f, id) ==
  LET g == IF f.state \in {"ACKRCVD", "ACKSENT"} THEN [f EXCEPT !.state = "REQSENT"]
           ELSE IF f.state = "OPENED"
             THEN TimeoutOn([f EXCEPT !.state = "STOPPING", !.retransmits = 0])
           ELSE f
  IN SData(g, "TERMACK", id, NoVal)

\* Mutant: a Terminate-Request is only acknowledged.
RTermReqDeaf(f, id) == SData(f, "TERMACK", id, NoVal)

RTermReq(f, id) ==
  LET g == IF f.state \in {"ACKRCVD", "ACKSENT"} THEN [f EXCEPT !.state = "REQSENT"]
           ELSE IF f.state = "OPENED"
             THEN TimeoutOn(Callback([f EXCEPT !.state = "STOPPING", !.retransmits = 0], "down"))
           ELSE f
  IN SData(g, "TERMACK", id, NoVal)

RTermAck(f) ==
  IF f.state = "CLOSING" THEN Callback([Untimeout(f) EXCEPT !.state = "CLOSED"], "finished")
  ELSE IF f.state = "STOPPING" THEN Callback([Untimeout(f) EXCEPT !.state = "STOPPED"], "finished")
  ELSE IF f.state = "ACKRCVD" THEN [f EXCEPT !.state = "REQSENT"]
  ELSE IF f.state = "OPENED" THEN Renegotiate(Callback(f, "down"))
  ELSE f

RCodeRej(f) == IF f.state = "ACKRCVD" THEN [f EXCEPT !.state = "REQSENT"] ELSE f

ProtReject(f) ==
  LET g == IF f.state \in Timed THEN Untimeout(f) ELSE f
  IN IF f.state = "OPENED" THEN TerminateLayer(f, "STOPPING")
     ELSE IF f.state \in {"INITIAL", "STARTING"} THEN f
     ELSE Callback([g EXCEPT !.state = IF f.state \in {"CLOSING", "CLOSED"} THEN "CLOSED"
                                      ELSE "STOPPED"], "finished")

\* fsm_input; a code that neither fsm.c nor the protocol knows is rejected.
Input(f, p) ==
  IF f.state \in {"INITIAL", "STARTING"} THEN f
  ELSE IF p.code = "CONFREQ" THEN RConfReq(f, p.id, p.val)
  ELSE IF p.code = "CONFACK" THEN RConfAck(f, p.id, p.val)
  ELSE IF p.code \in {"CONFNAK", "CONFREJ"} THEN RConfNakRej(f, p.code, p.id, p.val)
  ELSE IF p.code = "TERMREQ" THEN RTermReq(f, p.id)
  ELSE IF p.code = "TERMACK" THEN RTermAck(f)
  ELSE IF p.code = "CODEREJ" THEN RCodeRej(f)
  ELSE SData([f EXCEPT !.id = NextId(f)], "CODEREJ", NextId(f), NoVal)

----------------------------------------------------------------------------
\* The states the calls above keep an automaton in, whatever packets arrive in
\* whatever order: exactly one entry of the callout list belongs to it while a
\* request is unanswered and none otherwise, so that it neither hangs nor times out
\* in a settled state; and an answer counts once (seen_ack), so that the branches of
\* fsm_rconfack and fsm_rconfnakrej marked "oh well..." are never taken.
FsmOK(f) ==
  /\ f.timer = IF f.state \in Timed THEN 1 ELSE 0
  /\ f.state \in {"ACKRCVD", "OPENED"} => f.seen_ack = 1

=============================================================================
