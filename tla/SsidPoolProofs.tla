--------------------------- MODULE SsidPoolProofs ---------------------------
(***************************************************************************)
(* Proofs about the pool of sessions, for any number of CGI processes,     *)
(* tags and buckets, any validity time and any behaviour of the clock.     *)
(***************************************************************************)
EXTENDS SsidPool, TLAPS, FiniteSetTheorems

USE ZenonT(30)

-----------------------------------------------------------------------------

(***************************************************************************)
(* The inductive invariant.                                                *)
(***************************************************************************)

\* Every tag in the pool, and of an admitted request, comes from a login.
Origin ==
    /\ \A i \in Buckets : szTag[i] # NoTag => szTag[i] \in issued
    /\ \A p \in Procs : Active(p) => tag[p] \in Tags
    /\ \A p \in Procs : Admitted(p) => tag[p] \in issued
    /\ ended \subseteq issued

\* The tag of an undisturbed session stands in at most one bucket, which is
\* valid; while one of its requests runs, no other request does.
Undisturbed(t) == t \in Tags /\ t \notin disturbed

Alone ==
    \A p, q \in Procs :
        Active(p) /\ Active(q) /\ p # q => tag[p] \in disturbed

Copies ==
    /\ \A i \in Buckets : Undisturbed(szTag[i]) => bValid[i] = 1
    /\ \A i, j \in Buckets :
          Undisturbed(szTag[i]) /\ szTag[j] = szTag[i] => i = j

\* A process that is about to write its tag into a bucket is the first one.
Claiming ==
    \A p \in Procs : pc[p] \in {"claim", "tag"} /\ Undisturbed(tag[p]) =>
        /\ \A i \in Buckets : szTag[i] # tag[p]
        /\ pc[p] = "tag" => bValid[slot[p]] = 1

Holding ==
    \A p \in Procs :
        pc[p] \in {"refresh", "expiry", "wipe"} /\ Undisturbed(tag[p]) =>
            szTag[slot[p]] = tag[p]

Ended ==
    \A t \in ended :
        /\ t \notin disturbed
        /\ \A i \in Buckets : szTag[i] # t
        /\ \A p \in Procs : Admitted(p) => tag[p] # t

\* Once an undisturbed session is in the pool nobody zeroes the pool any more.
Made ==
    /\ \A i \in Buckets : Undisturbed(szTag[i]) =>
          /\ created = 1
          /\ nValidTime = VALID_TIME
          /\ \A q \in Procs : pc[q] \notin {"create", "zero"}
    /\ \A p \in Procs :
          pc[p] \in {"zero", "setValidTime", "save", "refresh", "claim", "tag", "expiry"} =>
              created = 1

Window ==
    \A p \in Procs :
        /\ pc[p] \in {"save", "refresh", "claim", "tag", "expiry", "wipe"}
        /\ Undisturbed(tag[p])
        => nValidTime = VALID_TIME

\* Its date is the one it was last saved with, and no other process is about
\* to write a date into its bucket.
Saved ==
    \A p \in Procs :
        pc[p] \in {"refresh", "claim", "tag", "expiry"} /\ Undisturbed(tag[p]) =>
            lastSaved[tag[p]] = xTime[p]

Dated ==
    \A i \in Buckets :
        /\ Undisturbed(szTag[i])
        /\ \A p \in Procs : pc[p] \in {"refresh", "expiry"} => tag[p] # szTag[i]
        => /\ lastSaved[szTag[i]] > 0
           /\ xExpiredDate[i] = lastSaved[szTag[i]] + VALID_TIME

Writer ==
    \A q \in Procs :
        pc[q] \in {"refresh", "expiry"} /\ Undisturbed(szTag[slot[q]]) =>
            szTag[slot[q]] = tag[q]

IInv ==
    /\ TypeOK /\ Origin /\ Alone /\ Ended /\ IdleTimeout
    /\ Copies /\ Claiming /\ Holding
    /\ Made /\ Window /\ Saved /\ Dated /\ Writer

-----------------------------------------------------------------------------
\* No pool, and no session.
LEMMA InitIInv == Init => IInv
  BY PoolAssumption, SMTT(30)
  DEF Init, IInv, TypeOK, Origin, Alone, Copies, Claiming, Holding, Ended, Made, Window,
      Saved, Dated, Writer, IdleTimeout, Undisturbed, Active, Admitted, Buckets, Times,
      Expiries, PCs

\* Clock keeps the invariant.
LEMMA ClockIInv == ASSUME IInv, Clock PROVE IInv'
<1>1. TypeOK'
  BY DEF Clock, pool, procVars, history, IInv, TypeOK
<1>2. Origin' /\ Alone'
  BY DEF Clock, pool, procVars, history, IInv, Origin, Alone, Active, Admitted
<1>3. Ended'
  BY DEF Clock, pool, procVars, history, IInv, Ended, Admitted
<1>4. IdleTimeout'
  BY DEF Clock, procVars, history, IInv, IdleTimeout, Admitted
<1>5a. Copies'
  BY DEF Clock, pool, history, IInv, Copies, Undisturbed
<1>5b. Claiming'
  BY DEF Clock, pool, procVars, history, IInv, Claiming, Undisturbed
<1>5c. Holding'
  BY DEF Clock, pool, procVars, history, IInv, Holding, Undisturbed
<1>6a. Made'
  BY DEF Clock, pool, procVars, history, IInv, Made, Undisturbed
<1>6b. Window'
  BY DEF Clock, pool, procVars, history, IInv, Window, Undisturbed
<1>6c. Saved'
  BY DEF Clock, procVars, history, IInv, Saved, Undisturbed
<1>6d. Dated'
  BY DEF Clock, pool, procVars, history, IInv, Dated, Undisturbed
<1>6e. Writer'
  BY DEF Clock, pool, procVars, history, IInv, Writer, Undisturbed
<1> QED
  BY <1>1, <1>2, <1>3, <1>4, <1>5a, <1>5b, <1>5c, <1>6a, <1>6b, <1>6c, <1>6d, <1>6e
  DEF IInv

\* GetPool keeps the invariant.
LEMMA GetPoolIInv == ASSUME IInv, NEW p \in Procs, GetPool(p) PROVE IInv'
<1>1. TypeOK'
  BY DEF GetPool, Goto, pool, history, IInv, TypeOK, PCs
<1>2. Origin' /\ Alone'
  BY DEF GetPool, Goto, pool, history, IInv, Origin, Alone, Active, Admitted, TypeOK
<1>3. Ended'
  BY DEF GetPool, Goto, pool, history, IInv, Ended, Admitted, TypeOK
<1>4. IdleTimeout'
  BY DEF GetPool, Goto, history, IInv, IdleTimeout, Admitted, TypeOK
<1>5a. Copies'
  BY DEF GetPool, pool, history, IInv, Copies, Undisturbed
<1>5b. Claiming'
  BY DEF GetPool, Goto, pool, history, IInv, Claiming, Undisturbed, TypeOK
<1>5c. Holding'
  BY DEF GetPool, Goto, pool, history, IInv, Holding, Undisturbed, TypeOK
<1>6a. Made'
  BY DEF GetPool, Goto, pool, history, IInv, Made, Undisturbed, TypeOK
<1>6b. Window'
  BY DEF GetPool, Goto, pool, history, IInv, Window, Undisturbed, TypeOK
<1>6c. Saved'
  BY DEF GetPool, Goto, history, IInv, Saved, Undisturbed, Active, TypeOK
<1>6d. Dated'
  BY DEF GetPool, Goto, pool, history, IInv, Dated, Undisturbed, Active, Admitted, PCs, TypeOK
<1>6e. Writer'
  BY DEF GetPool, Goto, pool, history, IInv, Writer, Undisturbed, Active, TypeOK
<1> QED
  BY <1>1, <1>2, <1>3, <1>4, <1>5a, <1>5b, <1>5c, <1>6a, <1>6b, <1>6c, <1>6d, <1>6e
  DEF IInv

\* CreatePool keeps the invariant.
LEMMA CreatePoolIInv == ASSUME IInv, NEW p \in Procs, CreatePool(p) PROVE IInv'
<1>1. TypeOK'
  BY SMTT(30) DEF CreatePool, Goto, history, IInv, TypeOK, PCs
<1>2. Origin' /\ Alone'
  BY DEF CreatePool, Goto, history, IInv, Origin, Alone, Active, Admitted, TypeOK
<1>3. Ended'
  BY DEF CreatePool, Goto, history, IInv, Ended, Admitted, TypeOK
<1>4. IdleTimeout'
  BY DEF CreatePool, Goto, history, IInv, IdleTimeout, Admitted, TypeOK
<1>5a. Copies'
  BY DEF CreatePool, history, IInv, Copies, Undisturbed
<1>5b. Claiming'
  BY DEF CreatePool, Goto, history, IInv, Claiming, Undisturbed, TypeOK
<1>5c. Holding'
  BY DEF CreatePool, Goto, history, IInv, Holding, Undisturbed, TypeOK
<1>6a. Made'
  BY DEF CreatePool, history, IInv, Made, Undisturbed
<1>6b. Window'
  BY DEF CreatePool, Goto, history, IInv, Window, Undisturbed, Active, TypeOK
<1>6c. Saved'
  BY DEF CreatePool, Goto, history, IInv, Saved, Undisturbed, TypeOK
<1>6d. Dated'
  BY DEF CreatePool, Goto, history, IInv, Dated, Undisturbed, TypeOK
<1>6e. Writer'
  BY DEF CreatePool, Goto, history, IInv, Writer, Undisturbed, TypeOK
<1> QED
  BY <1>1, <1>2, <1>3, <1>4, <1>5a, <1>5b, <1>5c, <1>6a, <1>6b, <1>6c, <1>6d, <1>6e
  DEF IInv

\* PoolNotMade keeps the invariant.
LEMMA PoolNotMadeIInv == ASSUME IInv, NEW p \in Procs, PoolNotMade(p) PROVE IInv'
<1>1. TypeOK'
  BY DEF PoolNotMade, Goto, pool, history, IInv, TypeOK, PCs
<1>2. Origin' /\ Alone'
  BY DEF PoolNotMade, Goto, pool, history, IInv, Origin, Alone, Active, Admitted, TypeOK
<1>3. Ended'
  BY DEF PoolNotMade, Goto, pool, history, IInv, Ended, Admitted, TypeOK
<1>4. IdleTimeout'
  BY DEF PoolNotMade, Goto, history, IInv, IdleTimeout, Admitted, TypeOK
<1>5a. Copies'
  BY DEF PoolNotMade, pool, history, IInv, Copies, Undisturbed
<1>5b. Claiming'
  BY DEF PoolNotMade, Goto, pool, history, IInv, Claiming, Undisturbed, TypeOK
<1>5c. Holding'
  BY DEF PoolNotMade, Goto, pool, history, IInv, Holding, Undisturbed, TypeOK
<1>6a. Made'
  BY DEF PoolNotMade, Goto, pool, history, IInv, Made, Undisturbed, TypeOK
<1>6b. Window'
  BY DEF PoolNotMade, Goto, pool, history, IInv, Window, Undisturbed, TypeOK
<1>6c. Saved'
  BY DEF PoolNotMade, Goto, history, IInv, Saved, Undisturbed, Active, TypeOK
<1>6d. Dated'
  BY DEF PoolNotMade, Goto, pool, history, IInv, Dated, Undisturbed, Active, Admitted, PCs, TypeOK
<1>6e. Writer'
  BY DEF PoolNotMade, Goto, pool, history, IInv, Writer, Undisturbed, Active, TypeOK
<1> QED
  BY <1>1, <1>2, <1>3, <1>4, <1>5a, <1>5b, <1>5c, <1>6a, <1>6b, <1>6c, <1>6d, <1>6e
  DEF IInv

\* ZeroPool keeps the invariant.
LEMMA ZeroPoolIInv == ASSUME IInv, NEW p \in Procs, ZeroPool(p) PROVE IInv'
<1>1. TypeOK'
  BY PoolAssumption, SMTT(30)
  DEF ZeroPool, Clear, Goto, history, IInv, TypeOK, PCs, Expiries
<1>2. Origin' /\ Alone'
  BY DEF ZeroPool, Clear, Goto, history, IInv, Origin, Alone, Active, Admitted, TypeOK
<1>3. Ended'
  BY PoolAssumption
  DEF ZeroPool, Clear, Goto, history, IInv, TypeOK, Ended, Admitted
<1>4. IdleTimeout'
  BY DEF ZeroPool, Goto, history, IInv, IdleTimeout, Admitted, TypeOK
<1>5a. Copies'
  BY PoolAssumption DEF ZeroPool, Clear, Copies, Undisturbed
<1>5b. Claiming'
  BY DEF ZeroPool, Goto, history, IInv, Alone, Claiming, Undisturbed, Active, TypeOK
<1>5c. Holding'
  BY DEF ZeroPool, Goto, history, IInv, TypeOK, Holding, Made, Undisturbed
<1>6a. Made'
  BY PoolAssumption DEF ZeroPool, Clear, IInv, Made, Undisturbed
<1>6b. Window'
  BY DEF ZeroPool, Goto, history, IInv, Alone, Window, Undisturbed, Active, TypeOK
<1>6c. Saved'
  BY DEF ZeroPool, Goto, history, IInv, Saved, Undisturbed, TypeOK
<1>6d. Dated'
  BY PoolAssumption DEF ZeroPool, Clear, Dated, Undisturbed
<1>6e. Writer'
  BY PoolAssumption DEF ZeroPool, Clear, IInv, TypeOK, Writer, Undisturbed
<1> QED
  BY <1>1, <1>2, <1>3, <1>4, <1>5a, <1>5b, <1>5c, <1>6a, <1>6b, <1>6c, <1>6d, <1>6e
  DEF IInv

\* SetValidTime keeps the invariant.
LEMMA SetValidTimeIInv == ASSUME IInv, NEW p \in Procs, SetValidTime(p) PROVE IInv'
<1>1. TypeOK'
  BY DEF SetValidTime, Goto, history, IInv, TypeOK, PCs
<1>2. Origin' /\ Alone'
  BY DEF SetValidTime, Goto, history, IInv, Origin, Alone, Active, Admitted, TypeOK
<1>3. Ended'
  BY DEF SetValidTime, Goto, history, IInv, Ended, Admitted, TypeOK
<1>4. IdleTimeout'
  BY DEF SetValidTime, Goto, history, IInv, IdleTimeout, Admitted, TypeOK
<1>5a. Copies'
  BY DEF SetValidTime, history, IInv, Copies, Undisturbed
<1>5b. Claiming'
  BY DEF SetValidTime, Goto, history, IInv, Claiming, Undisturbed, TypeOK
<1>5c. Holding'
  BY DEF SetValidTime, Goto, history, IInv, Holding, Undisturbed, TypeOK
<1>6a. Made'
  BY DEF SetValidTime, Goto, history, IInv, Made, Undisturbed, TypeOK
<1>6b. Window'
  BY DEF SetValidTime, Window
<1>6c. Saved'
  BY DEF SetValidTime, Goto, history, IInv, Saved, Undisturbed, TypeOK
<1>6d. Dated'
  BY DEF SetValidTime, Goto, history, IInv, Dated, Undisturbed, TypeOK
<1>6e. Writer'
  BY DEF SetValidTime, Goto, history, IInv, Writer, Undisturbed, TypeOK
<1> QED
  BY <1>1, <1>2, <1>3, <1>4, <1>5a, <1>5b, <1>5c, <1>6a, <1>6b, <1>6c, <1>6d, <1>6e
  DEF IInv

\* What the start of a request writes has its type.
LEMMA StartTypes ==
    ASSUME TypeOK, Origin, NEW p \in Procs, NEW t \in Tags,
           NEW c \in {"login", "service", "logout"}, Start(p, c, t)
    PROVE  /\ cmd' \in [Procs -> {"none", "login", "service", "logout"}]
           /\ tag' \in [Procs -> Tags \cup {NoTag}]
           /\ xTime' \in [Procs -> Times]
           /\ disturbed' \in SUBSET Tags
           /\ ended' \in SUBSET Tags
           /\ lastSaved' \in [Tags -> 0..MaxTime]
           /\ UNCHANGED <<now, pool, slot>>
<1> DEFINE others == {q \in Procs : Active(q)}
           overlapping == IF others = {} THEN {} ELSE {t} \cup {tag[q] : q \in others}
<1>1. overlapping \in SUBSET Tags
  BY DEF Origin
<1>2. /\ cmd' = [cmd EXCEPT ![p] = c]
      /\ tag' = [tag EXCEPT ![p] = t]
      /\ xTime' = [xTime EXCEPT ![p] = now]
      /\ disturbed' = disturbed \cup overlapping
      /\ ended' = ended \ overlapping
      /\ lastSaved' = [u \in Tags |-> IF u \in overlapping THEN 0 ELSE lastSaved[u]]
      /\ UNCHANGED <<now, pool, slot>>
  BY DEF Start
<1> HIDE DEF overlapping
<1>3. lastSaved' \in [Tags -> 0..MaxTime]
  BY <1>2, PoolAssumption, SMTT(30) DEF TypeOK
<1> QED
  BY <1>1, <1>2, <1>3 DEF TypeOK

\* StartLogin keeps the invariant.
LEMMA StartLoginIInv == ASSUME IInv, NEW p \in Procs, StartLogin(p) PROVE IInv'
<1>1. TypeOK'
  <2>1. PICK t \in Tags : /\ Start(p, "login", t)
                          /\ issued' = issued \cup {t}
                          /\ pc' = [pc EXCEPT ![p] = "get"]
    BY DEF StartLogin, Goto
  <2> QED
    BY <2>1, StartTypes DEF IInv, TypeOK, PCs, pool
<1>2. Origin'
  BY SMTT(30) DEF StartLogin, Start, Goto, pool, IInv, TypeOK, Origin, Active, Admitted
<1>3. Alone'
  BY SMTT(30) DEF Alone, StartLogin, Start, Goto, IInv, TypeOK, Active
<1>4a. Copies'
  BY DEF Copies, Undisturbed, StartLogin, Start, pool, IInv
<1>4b. Claiming'
  BY SMTT(30) DEF Claiming, Holding, Undisturbed, StartLogin, Start, Goto, Active
<1>4c. Holding'
  BY SMTT(30) DEF Holding, Undisturbed, StartLogin, Start, Goto, Active, Admitted
<1>5. Ended'
  BY SMTT(30) DEF Ended, StartLogin, Start, Goto, pool, IInv, TypeOK, Origin, Admitted
<1>6a. Made'
  BY SMTT(30) DEF Made, Undisturbed, StartLogin, Start, Goto, pool, IInv
<1>6b. Window'
  BY SMTT(30) DEF Window, Undisturbed, StartLogin, Start, Goto, pool, IInv, TypeOK
<1>6c. Saved'
  BY SMTT(30) DEF Saved, Undisturbed, StartLogin, Start, Goto, IInv, TypeOK
<1>6d. Dated'
  BY SMTT(30) DEF Dated, Undisturbed, StartLogin, Start, pool, IInv, Active, Admitted
<1>6e. Writer'
  BY SMTT(30) DEF Writer, Undisturbed, StartLogin, Start, Goto, pool, IInv, TypeOK
<1>7. IdleTimeout'
  BY SMTT(30) DEF IdleTimeout, StartLogin, Start, Goto, IInv, TypeOK, Active, Admitted
<1> QED
  BY <1>1, <1>2, <1>3, <1>4a, <1>4b, <1>4c, <1>5, <1>6a, <1>6b, <1>6c, <1>6d, <1>6e, <1>7
  DEF IInv

\* StartRequest keeps the invariant.
LEMMA StartRequestIInv == ASSUME IInv, NEW p \in Procs, StartRequest(p) PROVE IInv'
<1>1. TypeOK'
  <2>1. PICK c \in {"service", "logout"}, t \in Tags :
           Start(p, c, t) /\ issued' = issued /\ pc' = [pc EXCEPT ![p] = "check"]
    BY DEF StartRequest, Known, Goto
  <2> QED
    BY <2>1, StartTypes, SMTT(30) DEF IInv, TypeOK, PCs, pool
<1>2. Origin'
  BY SMTT(30)
  DEF StartRequest, Start, Known, Goto, pool, IInv, TypeOK, Origin, Active, Admitted
<1>3. Alone'
  BY SMTT(30) DEF Alone, StartRequest, Start, Goto, IInv, TypeOK, Active
<1>4a. Copies'
  BY DEF Copies, Undisturbed, StartRequest, Start, pool, IInv
<1>4b. Claiming'
  BY SMTT(30) DEF Claiming, Undisturbed, StartRequest, Start, Goto, Active
<1>4c. Holding'
  BY SMTT(30) DEF Holding, Undisturbed, StartRequest, Start, Goto, Active
<1>5. Ended'
  BY SMTT(30) DEF Ended, StartRequest, Start, Goto, pool, IInv, TypeOK, Admitted
<1>6a. Made'
  BY SMTT(30) DEF Made, Undisturbed, StartRequest, Start, Goto, pool, IInv
<1>6b. Window'
  BY PoolAssumption, SMTT(30) DEF Window, Undisturbed, StartRequest, Start, Goto, Active
<1>6c. Saved'
  BY SMTT(30) DEF Saved, Undisturbed, StartRequest, Start, Goto, Active
<1>6d. Dated'
  BY SMTT(30) DEF Dated, Undisturbed, StartRequest, Start, pool, IInv, Active
<1>6e. Writer'
  BY SMTT(30) DEF Writer, Undisturbed, StartRequest, Start, Goto, pool, IInv, Active
<1>7. IdleTimeout'
  BY SMTT(30) DEF IdleTimeout, StartRequest, Start, Goto, Active, Admitted
<1> QED
  BY <1>1, <1>2, <1>3, <1>4a, <1>4b, <1>4c, <1>5, <1>6a, <1>6b, <1>6c, <1>6d, <1>6e, <1>7
  DEF IInv

\* What clearing some buckets does to each of them.
LEMMA ClearFacts ==
    ASSUME TypeOK, NEW S, Clear(S)
    PROVE  /\ bValid' \in [Buckets -> 0..1]
           /\ szTag' \in [Buckets -> Tags \cup {NoTag}]
           /\ xExpiredDate' \in [Buckets -> Expiries]
           /\ \A i \in Buckets : i \in S => szTag'[i] = NoTag
           /\ \A i \in Buckets : i \notin S => /\ bValid'[i] = bValid[i]
                                              /\ szTag'[i] = szTag[i]
                                              /\ xExpiredDate'[i] = xExpiredDate[i]
  BY PoolAssumption, SMTT(30) DEF TypeOK, Clear, Expiries

\* A process that exits after clearing some buckets keeps the invariant, as
\* long as what it adds to the ended sessions is really gone.
LEMMA ClearExit ==
    ASSUME IInv, NEW p \in Procs, NEW S, Clear(S), Exit(p),
           pc[p] \in {"check", "serve", "wipe"},
           UNCHANGED <<now, created, nValidTime, issued, disturbed, lastSaved>>,
           ended' \in SUBSET issued,
           \A t \in ended' :
               /\ t \notin disturbed
               /\ \A i \in Buckets : szTag'[i] # t
               /\ \A q \in Procs : q # p /\ Admitted(q) => tag[q] # t
    PROVE  IInv'
<1>1. TypeOK
  BY DEF IInv
<1>2. TypeOK'
  BY <1>1, ClearFacts, PoolAssumption, SMTT(30)
  DEF TypeOK, PCs, Times, Buckets, Exit, Goto, Active, Admitted
<1>3. Origin'
  BY ClearFacts, SMTT(30) DEF IInv, TypeOK, Origin, Exit, Goto, Active, Admitted
<1>4. Alone'
  BY DEF IInv, TypeOK, Alone, Exit, Goto, Active
<1>5a. Copies'
  BY <1>1, ClearFacts, PoolAssumption, SMTT(30)
  DEF IInv, TypeOK, Copies, Claiming, Holding, Alone, Undisturbed, Origin, Exit, Goto,
      Active, Admitted
<1>5b. Claiming'
  BY DEF IInv, Claiming, Alone, Undisturbed, Exit, Goto, Active, TypeOK
<1>5c. Holding'
  BY SMTT(30) DEF IInv, TypeOK, Holding, Alone, Undisturbed, Exit, Goto, Active
<1>6. Ended'
  BY <1>1 DEF TypeOK, Ended, Exit, Goto, Admitted
<1>7a. Made'
  BY ClearFacts, PoolAssumption, SMTT(30) DEF IInv, Made, Undisturbed, Exit, Goto
<1>7b. Window'
  BY PoolAssumption DEF IInv, Window, Undisturbed, Exit, Goto, TypeOK
<1>7c. Saved'
  BY DEF IInv, Saved, Undisturbed, Exit, Goto, TypeOK
<1>7d. Dated'
  BY ClearFacts, PoolAssumption, SMTT(30) DEF IInv, Dated, Undisturbed, Exit, Goto
<1>7e. Writer'
  BY ClearFacts, PoolAssumption, SMTT(30)
  DEF IInv, TypeOK, Writer, Undisturbed, Exit, Goto, Active, Admitted
<1>8. IdleTimeout'
  BY DEF IInv, TypeOK, IdleTimeout, Exit, Goto, Admitted
<1> QED
  BY <1>2, <1>3, <1>4, <1>5a, <1>5b, <1>5c, <1>6, <1>7a, <1>7b, <1>7c, <1>7d, <1>7e, <1>8
  DEF IInv

\* IsValidSSID keeps the invariant.
LEMMA IsValidSSIDIInv == ASSUME IInv, NEW p \in Procs, IsValidSSID(p) PROVE IInv'
<1>1. CASE Valid(p)
  <2>1. PICK i \in Buckets : FirstMatch(i, tag[p]) /\ InTime(i, xTime[p])
    BY <1>1 DEF Valid
  <2>2. szTag[i] = tag[p] /\ 0 <= xExpiredDate[i] - xTime[p]
        /\ xExpiredDate[i] - xTime[p] <= nValidTime
    BY <2>1 DEF FirstMatch, Matches, InTime
  <2>3. TypeOK'
    BY <1>1 DEF IsValidSSID, Goto, history, IInv, TypeOK, PCs
  <2>4. Origin' /\ Alone'
    BY <1>1, <2>2, PoolAssumption, SMTT(30)
    DEF IsValidSSID, Goto, history, IInv, TypeOK, Origin, Alone, Active, Admitted, PCs
  <2>5. Ended'
    BY <1>1, <2>2 DEF IsValidSSID, Goto, history, IInv, TypeOK, Ended, Admitted
  <2>6. IdleTimeout'
    BY <1>1, <2>2, PoolAssumption, SMTT(30)
    DEF IsValidSSID, Goto, history, IInv, TypeOK, Origin, Alone, Copies, Claiming,
        Holding, Ended, Made, Window, Saved, Dated, Writer, IdleTimeout, Undisturbed,
        Active, Admitted, PCs, Times, Expiries
  <2>7a. Copies'
    BY <1>1 DEF IsValidSSID, history, IInv, Copies, Undisturbed
  <2>7b. Claiming'
    BY <1>1 DEF IsValidSSID, Goto, history, IInv, TypeOK, Claiming, Undisturbed
  <2>7c. Holding'
    BY <1>1 DEF IsValidSSID, Goto, history, IInv, TypeOK, Holding, Undisturbed
  <2>8a. Made'
    BY <1>1 DEF IsValidSSID, Goto, history, IInv, TypeOK, Made, Undisturbed
  <2>8b. Window'
    BY <1>1 DEF IsValidSSID, Goto, history, IInv, TypeOK, Window, Undisturbed
  <2>8c. Saved'
    BY <1>1 DEF IsValidSSID, Goto, history, IInv, TypeOK, Saved, Undisturbed
  <2>8d. Dated'
    BY <1>1 DEF IsValidSSID, Goto, history, IInv, TypeOK, Dated, Undisturbed
  <2>8e. Writer'
    BY <1>1 DEF IsValidSSID, Goto, history, IInv, TypeOK, Writer, Undisturbed
  <2> QED
    BY <2>3, <2>4, <2>5, <2>6, <2>7a, <2>7b, <2>7c, <2>8a, <2>8b, <2>8c, <2>8d, <2>8e
    DEF IInv
<1>2. CASE ~Valid(p)
  <2> DEFINE S == {i \in Buckets : bValid[i] = 1 /\ ~InTime(i, xTime[p])}
  <2>1. /\ Clear(S)
        /\ Exit(p)
        /\ UNCHANGED <<now, created, nValidTime, history>>
    BY <1>2 DEF IsValidSSID
  <2> HIDE DEF S
  <2>2. /\ ended' \in SUBSET issued
        /\ \A t \in ended' :
               /\ t \notin disturbed
               /\ \A i \in Buckets : szTag'[i] # t
               /\ \A q \in Procs : q # p /\ Admitted(q) => tag[q] # t
    BY <2>1, ClearFacts, PoolAssumption, SMTT(30) DEF history, IInv, Origin, Ended, TypeOK
  <2> QED
    BY <2>1, <2>2, ClearExit DEF history, IsValidSSID
<1> QED
  BY <1>1, <1>2

\* SaveScan keeps the invariant.
LEMMA SaveScanIInv == ASSUME IInv, NEW p \in Procs, SaveScan(p) PROVE IInv'
<1>0. Oldest \in Buckets
  BY PoolAssumption, SMTT(30) DEF Oldest, Buckets
<1>1. TypeOK'
  BY <1>0, SMTT(30)
  DEF PCs, Times, Origin, SaveScan, TakeSlot, Goto, pool, IInv, TypeOK, Active
<1>2. Origin' /\ Alone' /\ Ended'
  BY SMTT(30)
  DEF Origin, Alone, Ended, SaveScan, TakeSlot, Goto, pool, IInv, TypeOK, Active, Admitted
<1>3. IdleTimeout'
  BY PoolAssumption, SMTT(30)
  DEF IdleTimeout, Alone, Times, SaveScan, TakeSlot, Goto, IInv, TypeOK, Active, Admitted
<1>4a. Copies'
  BY DEF Copies, Undisturbed, SaveScan, pool, IInv
<1>4b. Claiming'
  BY SMTT(30)
  DEF Copies, Claiming, Holding, Undisturbed, Matches, SaveScan, TakeSlot, Goto, pool,
      IInv, TypeOK, Active
<1>4c. Holding'
  BY SMTT(30)
  DEF Holding, Undisturbed, FirstMatch, Matches, SaveScan, TakeSlot, Goto, pool, IInv,
      TypeOK
<1>5a. Made'
  BY DEF Made, Window, Undisturbed, SaveScan, TakeSlot, Goto, pool, IInv, TypeOK
<1>5b. Window'
  BY DEF Window, Undisturbed, SaveScan, TakeSlot, Goto, pool, IInv, TypeOK
<1>5c. Saved'
  BY SMTT(30)
  DEF Saved, Alone, Undisturbed, SaveScan, TakeSlot, Goto, IInv, TypeOK, Active
<1>5d. Dated'
  BY PoolAssumption, SMTT(30)
  DEF Saved, Dated, Copies, Alone, Undisturbed, Matches, SaveScan, TakeSlot, Goto, pool,
      IInv, TypeOK, Active
<1>5e. Writer'
  BY SMTT(30)
  DEF Writer, Undisturbed, FirstMatch, Matches, SaveScan, TakeSlot, Goto, pool, IInv,
      TypeOK, Active
<1> QED
  BY <1>1, <1>2, <1>3, <1>4a, <1>4b, <1>4c, <1>5a, <1>5b, <1>5c, <1>5d, <1>5e DEF IInv

\* SaveExpiry keeps the invariant.
LEMMA SaveExpiryIInv == ASSUME IInv, NEW p \in Procs, SaveExpiry(p) PROVE IInv'
<1>1. TypeOK'
  BY PoolAssumption, SMTT(30)
  DEF PCs, Times, Expiries, SaveExpiry, Goto, history, IInv, TypeOK
<1>2. Origin' /\ Alone' /\ Ended' /\ IdleTimeout'
  BY DEF Origin, Alone, Ended, IdleTimeout, SaveExpiry, Goto, history, IInv, Active, Admitted, TypeOK
<1>3a. Copies'
  BY DEF Copies, Undisturbed, SaveExpiry, history, IInv
<1>3b. Claiming'
  BY DEF Claiming, Undisturbed, SaveExpiry, Goto, history, IInv, TypeOK
<1>3c. Holding'
  BY DEF Holding, Undisturbed, SaveExpiry, Goto, history, IInv, TypeOK
<1>4a. Made'
  BY DEF Made, Undisturbed, SaveExpiry, Goto, history, IInv, TypeOK
<1>4b. Window'
  BY DEF Window, Undisturbed, SaveExpiry, Goto, history, IInv, TypeOK
<1>4c. Saved'
  BY DEF Saved, Undisturbed, SaveExpiry, Goto, history, IInv, TypeOK
<1>4d. Dated'
  BY SMTT(30)
  DEF Window, Saved, Dated, Writer, Copies, Holding, Undisturbed, Times, SaveExpiry, Goto,
      history, IInv, TypeOK
<1>4e. Writer'
  BY DEF Writer, Undisturbed, SaveExpiry, Goto, history, IInv, TypeOK
<1> QED
  BY <1>1, <1>2, <1>3a, <1>3b, <1>3c, <1>4a, <1>4b, <1>4c, <1>4d, <1>4e DEF IInv

\* SaveClaim keeps the invariant.
LEMMA SaveClaimIInv == ASSUME IInv, NEW p \in Procs, SaveClaim(p) PROVE IInv'
<1>1. TypeOK'
  BY SMTT(30) DEF PCs, SaveClaim, Goto, history, IInv, TypeOK
<1>2. Origin' /\ Alone'
  BY DEF Origin, Alone, SaveClaim, Goto, history, IInv, Active, Admitted, TypeOK
<1>3. Ended' /\ IdleTimeout'
  BY DEF Ended, IdleTimeout, SaveClaim, Goto, history, IInv, Admitted, TypeOK
<1>4a. Copies'
  BY DEF Copies, Undisturbed, SaveClaim, history, IInv, TypeOK
<1>4b. Claiming'
  BY DEF Claiming, Undisturbed, SaveClaim, Goto, history, IInv, TypeOK
<1>4c. Holding'
  BY DEF Holding, Undisturbed, SaveClaim, Goto, history, IInv, TypeOK
<1>5a. Made'
  BY DEF Made, Undisturbed, SaveClaim, Goto, history, IInv, TypeOK
<1>5b. Window'
  BY DEF Window, Undisturbed, SaveClaim, Goto, history, IInv, TypeOK
<1>5c. Saved'
  BY DEF Saved, Undisturbed, SaveClaim, Goto, history, IInv, TypeOK
<1>5d. Dated'
  BY DEF Dated, Undisturbed, SaveClaim, Goto, history, IInv, TypeOK
<1>5e. Writer'
  BY DEF Writer, Undisturbed, SaveClaim, Goto, history, IInv, Active, TypeOK
<1> QED
  BY <1>1, <1>2, <1>3, <1>4a, <1>4b, <1>4c, <1>5a, <1>5b, <1>5c, <1>5d, <1>5e DEF IInv

\* SaveTag keeps the invariant.
LEMMA SaveTagIInv == ASSUME IInv, NEW p \in Procs, SaveTag(p) PROVE IInv'
<1>1. TypeOK'
  BY DEF PCs, SaveTag, Goto, history, IInv, TypeOK
<1>2. Origin' /\ Alone'
  BY DEF Origin, Alone, SaveTag, Goto, history, IInv, Active, Admitted, TypeOK
<1>3. Ended' /\ IdleTimeout'
  BY DEF Ended, IdleTimeout, SaveTag, Goto, history, IInv, Admitted, TypeOK
<1>4a. Copies'
  BY DEF Copies, Claiming, Undisturbed, SaveTag, history, IInv, TypeOK
<1>4b. Claiming'
  BY DEF Claiming, Undisturbed, Alone, SaveTag, Goto, history, IInv, TypeOK, Active
<1>4c. Holding'
  BY DEF Holding, Undisturbed, Alone, SaveTag, Goto, history, IInv, TypeOK, Active
<1>5a. Made'
  BY DEF Made, Window, Undisturbed, Alone, SaveTag, Goto, history, IInv, Active, Admitted, TypeOK
<1>5b. Window'
  BY DEF Window, Undisturbed, SaveTag, Goto, history, IInv, TypeOK
<1>5c. Saved'
  BY DEF Saved, Undisturbed, SaveTag, Goto, history, IInv, TypeOK
<1>5d. Dated'
  BY DEF Dated, Undisturbed, SaveTag, Goto, history, IInv, TypeOK
<1>5e. Writer'
  BY DEF Writer, Undisturbed, Alone, SaveTag, Goto, history, IInv, TypeOK, Active
<1> QED
  BY <1>1, <1>2, <1>3, <1>4a, <1>4b, <1>4c, <1>5a, <1>5b, <1>5c, <1>5d, <1>5e DEF IInv

\* Serve keeps the invariant.
LEMMA ServeIInv == ASSUME IInv, NEW p \in Procs, Serve(p) PROVE IInv'
<1>1. TypeOK'
  BY PoolAssumption, SMTT(30)
  DEF PCs, Serve, Goto, history, IInv, TypeOK, Exit, pool, Times, Buckets
<1>2. Origin' /\ Alone'
  BY DEF Origin, Alone, Serve, Goto, history, IInv, TypeOK, Active, Admitted, Exit, pool
<1>3. Ended' /\ IdleTimeout'
  BY DEF Ended, IdleTimeout, Serve, Goto, history, IInv, TypeOK, Active, Admitted, Exit,
      pool, Times
<1>4a. Copies'
  BY DEF Copies, Undisturbed, Serve, history, IInv, pool
<1>4b. Claiming'
  BY DEF Claiming, Undisturbed, Serve, Goto, history, IInv, Exit, pool, TypeOK
<1>4c. Holding'
  BY DEF Holding, Undisturbed, Serve, Goto, history, IInv, Exit, pool, TypeOK
<1>5a. Made'
  BY DEF Made, Undisturbed, Serve, Goto, history, IInv, TypeOK, Exit, pool
<1>5b. Window'
  BY DEF Made, Window, Undisturbed, Alone, Serve, Goto, history, IInv, TypeOK, Exit, pool,
         Times
<1>5c. Saved'
  BY PoolAssumption
  DEF Made, Window, Saved, Dated, Writer, Undisturbed, Alone, Serve, Goto, history, IInv,
      TypeOK, Active, Admitted, Exit, pool, Times, Buckets
<1>5d. Dated'
  BY DEF Dated, Undisturbed, Serve, Goto, history, IInv, TypeOK, Exit, pool
<1>5e. Writer'
  BY PoolAssumption
  DEF Made, Window, Saved, Dated, Writer, Undisturbed, Alone, Serve, Goto, history, IInv,
      TypeOK, Active, Admitted, Exit, pool, Times, Buckets
<1> QED
  BY <1>1, <1>2, <1>3, <1>4a, <1>4b, <1>4c, <1>5a, <1>5b, <1>5c, <1>5d, <1>5e DEF IInv

\* DeleteScan keeps the invariant.
LEMMA DeleteScanIInv == ASSUME IInv, NEW p \in Procs, DeleteScan(p) PROVE IInv'
<1>1. CASE \E i \in Buckets : FirstMatch(i, tag[p])
  <2>1. PICK i \in Buckets : /\ FirstMatch(i, tag[p])
                             /\ slot' = [slot EXCEPT ![p] = i]
                             /\ pc' = [pc EXCEPT ![p] = "wipe"]
                             /\ pc[p] = "serve"
                             /\ UNCHANGED <<cmd, tag, xTime, ended, now, pool, issued,
                                            lastSaved, disturbed>>
    BY <1>1 DEF DeleteScan, Goto, FirstMatch
  <2>2. szTag[i] = tag[p]
    BY <2>1 DEF FirstMatch, Matches
  <2>3. TypeOK'
    BY <2>1 DEF PCs, pool, IInv, TypeOK
  <2>4. Origin' /\ Alone'
    BY <2>1 DEF Origin, Alone, pool, IInv, Active, Admitted, TypeOK
  <2>5. Ended' /\ IdleTimeout'
    BY <2>1 DEF Ended, IdleTimeout, pool, IInv, Admitted, TypeOK
  <2>6a. Copies'
    BY <2>1 DEF Copies, Undisturbed, pool, IInv
  <2>6b. Claiming'
    BY <2>1 DEF Claiming, Undisturbed, pool, IInv, TypeOK
  <2>6c. Holding'
    BY <2>1, <2>2 DEF Holding, Undisturbed, pool, IInv, TypeOK
  <2>7a. Made'
    BY <2>1 DEF Made, Undisturbed, pool, IInv, TypeOK
  <2>7b. Window'
    BY <2>1, <2>2 DEF Window, Made, Undisturbed, pool, IInv, TypeOK
  <2>7c. Saved'
    BY <2>1 DEF Saved, Undisturbed, IInv, TypeOK
  <2>7d. Dated'
    BY <2>1 DEF Dated, Undisturbed, pool, IInv, TypeOK
  <2>7e. Writer'
    BY <2>1 DEF Writer, Undisturbed, pool, IInv, TypeOK
  <2> QED
    BY <2>3, <2>4, <2>5, <2>6a, <2>6b, <2>6c, <2>7a, <2>7b, <2>7c, <2>7d, <2>7e DEF IInv
<1>2. CASE \A i \in Buckets : ~Matches(i, tag[p])
  <2>1. /\ Exit(p)
        /\ ended' = ended \cup ({tag[p]} \ disturbed)
        /\ UNCHANGED <<now, pool, issued, lastSaved, disturbed>>
    BY <1>2 DEF DeleteScan, FirstMatch
  <2>2. Clear({})
    BY <2>1 DEF Clear, pool, IInv, TypeOK
  <2>3. /\ ended' \in SUBSET issued
        /\ \A t \in ended' :
               /\ t \notin disturbed
               /\ \A i \in Buckets : szTag'[i] # t
               /\ \A q \in Procs : q # p /\ Admitted(q) => tag[q] # t
    BY DEF DeleteScan, pool, Matches, IInv, Origin, Ended, Alone, Copies, Undisturbed,
           Active, Admitted
  <2> QED
    BY <2>1, <2>2, <2>3, ClearExit DEF pool, DeleteScan
<1> QED
  BY <1>1, <1>2 DEF DeleteScan

\* DeleteWipe keeps the invariant.
LEMMA DeleteWipeIInv == ASSUME IInv, NEW p \in Procs, DeleteWipe(p) PROVE IInv'
<1> DEFINE S == {i \in Buckets : i >= slot[p]}
<1>1. Clear(S)
  BY DEF DeleteWipe
<1>2. slot[p] \in S
  BY SMTT(30) DEF IInv, TypeOK, Buckets
<1> HIDE DEF S
<1>3. /\ ended' \in SUBSET issued
      /\ \A t \in ended' :
             /\ t \notin disturbed
             /\ \A i \in Buckets : szTag'[i] # t
             /\ \A q \in Procs : q # p /\ Admitted(q) => tag[q] # t
  BY <1>1, <1>2, ClearFacts, PoolAssumption, SMTT(30)
  DEF DeleteWipe, IInv, TypeOK, Origin, Ended, Alone, Copies, Holding, Undisturbed,
      Active, Admitted
<1> QED
  BY <1>3, ClearExit DEF DeleteWipe

\* The invariant holds throughout.
LEMMA Inductive == Spec => []IInv
<1>1. ASSUME IInv, UNCHANGED vars PROVE IInv'
  <2>1. TypeOK'
    BY <1>1 DEF vars, IInv, TypeOK
  <2>2. Origin' /\ Alone'
    BY <1>1 DEF vars, IInv, Origin, Alone, Active, Admitted
  <2>3. Ended'
    BY <1>1 DEF vars, IInv, Ended, Admitted
  <2>4. IdleTimeout'
    BY <1>1 DEF vars, IInv, IdleTimeout, Admitted
  <2>5a. Copies'
    BY <1>1 DEF vars, IInv, Copies, Undisturbed
  <2>5b. Claiming'
    BY <1>1 DEF vars, IInv, Claiming, Undisturbed
  <2>5c. Holding'
    BY <1>1 DEF vars, IInv, Holding, Undisturbed
  <2>6a. Made'
    BY <1>1 DEF vars, IInv, Made, Undisturbed
  <2>6b. Window'
    BY <1>1 DEF vars, IInv, Window, Undisturbed
  <2>6c. Saved'
    BY <1>1 DEF vars, IInv, Saved, Undisturbed
  <2>6d. Dated'
    BY <1>1 DEF vars, IInv, Dated, Undisturbed
  <2>6e. Writer'
    BY <1>1 DEF vars, IInv, Writer, Undisturbed
  <2> QED
    BY <2>1, <2>2, <2>3, <2>4, <2>5a, <2>5b, <2>5c, <2>6a, <2>6b, <2>6c, <2>6d, <2>6e
    DEF IInv
<1>2. ASSUME IInv, NEW p \in Procs, ProcStep(p) PROVE IInv'
  BY <1>2, StartLoginIInv, StartRequestIInv, IsValidSSIDIInv, GetPoolIInv, CreatePoolIInv,
     PoolNotMadeIInv, ZeroPoolIInv, SetValidTimeIInv, SaveScanIInv, SaveExpiryIInv, SaveClaimIInv,
     SaveTagIInv, ServeIInv, DeleteScanIInv, DeleteWipeIInv
  DEF ProcStep
<1>3. IInv /\ [Next]_vars => IInv'
  BY <1>1, <1>2, ClockIInv DEF Next
<1> QED
  BY InitIInv, <1>3, PTL DEF Spec

-----------------------------------------------------------------------------
\* The pool's fields and the processes' locals stay in their types.
THEOREM TypeCorrect == Spec => []TypeOK
<1>1. IInv => TypeOK
  BY DEF IInv
<1> QED
  BY Inductive, <1>1, PTL

\* However requests interleave in the unlocked segment, main serves a request
\* only for a tag that a login has made.
THEOREM NoSessionFromNowhere == Spec => []ServedOnlyIssued
<1>1. IInv => ServedOnlyIssued
  BY DEF IInv, Origin, ServedOnlyIssued
<1> QED
  BY Inductive, <1>1, PTL

\* The idle timeout of FTMC_IsValidSSID holds for every session whose own
\* requests were not overlapped by others.
THEOREM SessionsTimeOut == Spec => []IdleTimeout
<1>1. IInv => IdleTimeout
  BY DEF IInv
<1> QED
  BY Inductive, <1>1, PTL

\* FTMC_Logout is final for every such session, whatever races the other
\* sessions' requests run before and after.
THEOREM LogoutsAreFinal == Spec => []LogoutIsFinal
<1>1. IInv => LogoutIsFinal
  BY DEF IInv, Ended, LogoutIsFinal, Matches
<1> QED
  BY Inductive, <1>1, PTL

-----------------------------------------------------------------------------
(***************************************************************************)
(* The pool as an implementation of the session table, when requests do not *)
(* overlap.                                                                *)
(***************************************************************************)
\* Requests do not overlap: there is at most one process.
Sequential == \A p, q \in Procs : p = q

\* What IInv leaves open when they do not: every valid bucket has a tag, but for
\* the one that is being claimed;
Named ==
    \A i \in Buckets : bValid[i] = 1 =>
        szTag[i] \in Tags \/ \E p \in Procs : pc[p] = "tag" /\ slot[p] = i

\* a login's tag is new;
Fresh ==
    \A p \in Procs : cmd[p] = "login" =>
        /\ pc[p] # "check"
        /\ pc[p] \in {"get", "create", "zero", "setValidTime", "save"} =>
              \A i \in Buckets : szTag[i] # tag[p]

\* a bucket is free when it is claimed, or all are taken;
Room ==
    \A p \in Procs :
        /\ pc[p] = "claim" => bValid[slot[p]] = 0 \/ \A i \in Buckets : bValid[i] = 1
        /\ pc[p] = "tag" => szTag[slot[p]] = NoTag \/ \A i \in Buckets : szTag[i] \in Tags

\* and a request that refreshes its bucket is in time.
Punctual ==
    \A p \in Procs : pc[p] = "refresh" =>
        /\ xTime[p] <= xExpiredDate[slot[p]]
        /\ xExpiredDate[slot[p]] <= xTime[p] + VALID_TIME

SeqInv == disturbed = {} /\ Named /\ Fresh /\ Room /\ Punctual

\* The table that the pool stands for.
IsTable == PoolDates = [t \in Tags |-> PoolDates[t]]

Listed ==
    \A i \in Buckets : szTag[i] \in Tags =>
        PoolDates[szTag[i]] = BucketDate(i) /\ BucketDate(i) # 0

Unlisted == \A t \in Tags : (\A i \in Buckets : szTag[i] # t) => PoolDates[t] = 0

Dating ==
    \A i \in Buckets, p \in Procs :
        /\ pc[p] = "expiry" /\ slot[p] = i => BucketDate(i) = xTime[p] + nValidTime
        /\ ~ (pc[p] = "expiry" /\ slot[p] = i) => BucketDate(i) = xExpiredDate[i]

DatesOK == IsTable /\ Listed /\ Unlisted /\ Dating

\* Without overlaps a tag is valid where it stands.
LEMMA TagsMatch ==
    ASSUME IInv, SeqInv, NEW t \in Tags, NEW i \in Buckets
    PROVE  Matches(i, t) <=> szTag[i] = t
BY DEF IInv, SeqInv, Copies, Undisturbed, Matches

\* A tag stands in one bucket.
LEMMA OneBucket ==
    ASSUME IInv, SeqInv, NEW i \in Buckets, NEW j \in Buckets, szTag[i] \in Tags, szTag[j] = szTag[i]
    PROVE  i = j
BY DEF IInv, SeqInv, Copies, Undisturbed

\* With one process, the choice in BucketDate is that process.
LEMMA BucketDateIs ==
    ASSUME Sequential, NEW i, NEW p \in Procs
    PROVE  /\ pc[p] = "expiry" /\ slot[p] = i => BucketDate(i) = xTime[p] + nValidTime
           /\ ~ (pc[p] = "expiry" /\ slot[p] = i) => BucketDate(i) = xExpiredDate[i]
<1>1. CASE pc[p] = "expiry" /\ slot[p] = i
  <2> DEFINE c == CHOOSE q \in Procs : pc[q] = "expiry" /\ slot[q] = i
  <2>1. c = p
    BY <1>1 DEF Sequential
  <2> HIDE DEF c
  <2> QED
    BY <1>1, <2>1 DEF BucketDate, c
<1>2. CASE ~ (pc[p] = "expiry" /\ slot[p] = i)
  BY <1>2 DEF BucketDate, Sequential
<1> QED
  BY <1>1, <1>2

\* The invariants make PoolDates the table of tags and dates in the buckets,
LEMMA Dates == IInv /\ SeqInv /\ Sequential /\ Procs # {} => DatesOK
<1> SUFFICES ASSUME IInv, SeqInv, Sequential, Procs # {} PROVE DatesOK
  OBVIOUS
<1>1. PoolDates = [t \in Tags |-> PoolDates[t]]
  BY SMTT(30) DEF PoolDates
<1>2. ASSUME NEW i \in Buckets, szTag[i] \in Tags
      PROVE  PoolDates[szTag[i]] = BucketDate(i) /\ BucketDate(i) # 0
  <2> DEFINE found == {j \in Buckets : Matches(j, szTag[i])}
  <2>1. found = {i}
    BY <1>2, TagsMatch, OneBucket
  <2>2. PoolDates[szTag[i]] = IF found = {} THEN 0 ELSE BucketDate(CHOOSE j \in found : TRUE)
    BY <1>2 DEF PoolDates
  <2>3. (CHOOSE j \in found : TRUE) = i /\ found # {}
    BY <2>1
  <2>4. PoolDates[szTag[i]] = BucketDate(i)
    BY <2>2, <2>3
  <2>5. PICK p \in Procs : TRUE
    OBVIOUS
  <2>6. /\ pc[p] = "expiry" /\ slot[p] = i => BucketDate(i) = xTime[p] + nValidTime
        /\ ~ (pc[p] = "expiry" /\ slot[p] = i) => BucketDate(i) = xExpiredDate[i]
    BY BucketDateIs
  <2>7. /\ xTime[p] \in Times /\ nValidTime \in Nat /\ xTime[p] + nValidTime # 0
    BY PoolAssumption, SMTT(30) DEF IInv, TypeOK, Times
  <2>8. CASE pc[p] = "refresh" /\ tag[p] = szTag[i]
    <3>1. slot[p] = i
      BY <1>2, <2>8, OneBucket DEF IInv, Holding, Undisturbed, SeqInv, TypeOK
    <3>2. xTime[p] <= xExpiredDate[i] /\ xExpiredDate[i] \in Expiries
      BY <2>8, <3>1 DEF SeqInv, Punctual, IInv, TypeOK
    <3> QED
      BY <2>4, <2>6, <2>7, <2>8, <3>2, SMTT(30) DEF Times, Expiries
  <2>9. CASE pc[p] = "expiry" /\ tag[p] = szTag[i]
    <3>1. slot[p] = i
      BY <1>2, <2>9, OneBucket DEF IInv, Holding, Undisturbed, SeqInv, TypeOK
    <3> QED
      BY <2>4, <2>6, <2>7, <2>9, <3>1
  <2>10. CASE ~ (pc[p] \in {"refresh", "expiry"} /\ tag[p] = szTag[i])
    <3>1. lastSaved[szTag[i]] > 0 /\ xExpiredDate[i] = lastSaved[szTag[i]] + VALID_TIME
      BY <1>2, <2>10 DEF IInv, Dated, Undisturbed, SeqInv, Sequential
    <3>2. lastSaved[szTag[i]] \in 0..MaxTime
      BY <1>2 DEF IInv, TypeOK
    <3>3. xExpiredDate[i] # 0
      BY <3>1, <3>2, PoolAssumption, SMTT(30)
    <3> QED
      BY <2>4, <2>6, <2>7, <3>3
  <2> QED
    BY <2>8, <2>9, <2>10
<1>3. ASSUME NEW t \in Tags, \A i \in Buckets : szTag[i] # t PROVE PoolDates[t] = 0
  <2> DEFINE found == {j \in Buckets : Matches(j, t)}
  <2>1. found = {}
    BY <1>3, TagsMatch
  <2> QED
    BY <2>1 DEF PoolDates
<1> QED
  BY <1>1, <1>2, <1>3, BucketDateIs DEF DatesOK, IsTable, Listed, Unlisted, Dating

\* also after a step.
LEMMA DatesPrime ==
    ASSUME Sequential, Procs # {}
    PROVE  IInv' /\ SeqInv' => DatesOK'
<1>1. IInv /\ SeqInv => DatesOK
  BY Dates
<1> QED
  BY <1>1, PTL

-----------------------------------------------------------------------------
\* No bucket and no request.
LEMMA SeqInit == ASSUME Init PROVE SeqInv
BY SMTT(30) DEF Init, SeqInv, Named, Fresh, Room, Punctual

\* Steps that leave the buckets' marks and tags alone,
LEMMA SeqMoves ==
    ASSUME Sequential, SeqInv, NEW p \in Procs, pc[p] # "tag",
           UNCHANGED <<bValid, szTag, disturbed>>,
           pc'[p] \notin {"claim", "tag", "refresh"}, Fresh'
    PROVE  SeqInv'
<1>1. Named'
  BY DEF Sequential, SeqInv, Named
<1>2. Room' /\ Punctual'
  BY DEF Sequential, Room, Punctual
<1> QED
  BY <1>1, <1>2 DEF SeqInv

\* and steps that clear some.
LEMMA SeqClears ==
    ASSUME Sequential, SeqInv, IInv, NEW p \in Procs, pc[p] # "tag", NEW S, Clear(S),
           disturbed' = disturbed, pc'[p] \notin {"claim", "tag", "refresh"}, Fresh'
    PROVE  SeqInv'
<1>1. \A i \in Buckets : bValid'[i] = 1 => szTag'[i] \in Tags
  <2>1. SUFFICES ASSUME NEW i \in Buckets, bValid'[i] = 1 PROVE szTag'[i] \in Tags
    OBVIOUS
  <2>2. i \notin S
    BY <2>1, SMTT(30) DEF Clear
  <2>3. bValid[i] = 1 /\ szTag'[i] = szTag[i]
    BY <2>1, <2>2 DEF Clear
  <2> QED
    BY <2>3 DEF Sequential, SeqInv, Named
<1>2. Room' /\ Punctual'
  BY DEF Sequential, Room, Punctual
<1> QED
  BY <1>1, <1>2 DEF SeqInv, Named

\* A request starts when none runs, and disturbs nobody.
LEMMA SeqStart ==
    ASSUME Sequential, SeqInv, IInv, NEW p \in Procs, NEW c, NEW t, Start(p, c, t)
    PROVE  pc[p] = "idle" /\ UNCHANGED <<bValid, szTag, disturbed, xExpiredDate>>
<1>1. {q \in Procs : Active(q)} = {}
  BY DEF Start, Sequential
<1> QED
  BY <1>1 DEF Start, Active, pool

\* A request that ends leaves no tag to be saved.
LEMMA SeqExits ==
    ASSUME Sequential, IInv, NEW p \in Procs, Exit(p)
    PROVE  pc'[p] = "idle" /\ Fresh'
<1>1. pc'[p] = "idle"
  BY DEF Exit, Goto, IInv, TypeOK
<1> QED
  BY <1>1 DEF Sequential, Fresh

\* Every step keeps the invariant.
LEMMA SeqNext == ASSUME Sequential, IInv, SeqInv, [Next]_vars PROVE SeqInv'
<1>1. CASE Clock
  BY <1>1 DEF Clock, pool, procVars, history, SeqInv, Named, Fresh, Room, Punctual
<1>2. ASSUME NEW p \in Procs, StartLogin(p) PROVE SeqInv'
  <2>1. PICK t \in Tags \ issued : Start(p, "login", t) /\ Goto(p, "get")
    BY <1>2 DEF StartLogin
  <2>2. pc[p] = "idle" /\ UNCHANGED <<bValid, szTag, disturbed>>
    BY <2>1, SeqStart
  <2>3. pc'[p] = "get" /\ tag'[p] = t
    BY <2>1 DEF Start, Goto, IInv, TypeOK
  <2>4. Fresh'
    BY <2>1, <2>2, <2>3, PoolAssumption DEF Sequential, Fresh, IInv, Origin
  <2> QED
    BY <2>2, <2>3, <2>4, SeqMoves
<1>3. ASSUME NEW p \in Procs, StartRequest(p) PROVE SeqInv'
  <2>1. PICK c \in {"service", "logout"}, t \in Known : Start(p, c, t) /\ Goto(p, "check")
    BY <1>3 DEF StartRequest
  <2>2. pc[p] = "idle" /\ UNCHANGED <<bValid, szTag, disturbed>>
    BY <2>1, SeqStart
  <2>3. pc'[p] = "check" /\ cmd'[p] # "login"
    BY <2>1 DEF Start, Goto, IInv, TypeOK
  <2>4. Fresh'
    BY <2>3 DEF Sequential, Fresh
  <2> QED
    BY <2>2, <2>3, <2>4, SeqMoves
<1>4. ASSUME NEW p \in Procs, IsValidSSID(p) PROVE SeqInv'
  <2>1. CASE Valid(p)
    <3>1. /\ pc[p] = "check" /\ pc'[p] = "get" /\ UNCHANGED <<bValid, szTag, disturbed, cmd>>
      BY <1>4, <2>1 DEF IsValidSSID, Goto, history, IInv, TypeOK
    <3>2. Fresh'
      BY <3>1 DEF Sequential, SeqInv, Fresh
    <3> QED
      BY <3>1, <3>2, SeqMoves
  <2>2. CASE ~ Valid(p)
    <3>1. pc[p] = "check" /\ Exit(p) /\ disturbed' = disturbed
      BY <1>4, <2>2 DEF IsValidSSID, history
    <3>2. \E S : Clear(S)
      BY <1>4, <2>2 DEF IsValidSSID
    <3> QED
      BY <3>1, <3>2, SeqExits, SeqClears
  <2> QED
    BY <2>1, <2>2
<1>5. ASSUME NEW p \in Procs,
             GetPool(p) \/ CreatePool(p) \/ PoolNotMade(p) \/ SetValidTime(p)
      PROVE  SeqInv'
  <2>1. /\ pc[p] \in {"get", "create", "setValidTime"}
        /\ pc'[p] \in {"create", "zero", "setValidTime", "save", "serve"}
        /\ UNCHANGED <<bValid, szTag, disturbed, cmd, tag>>
    BY <1>5 DEF GetPool, CreatePool, PoolNotMade, SetValidTime, Goto, pool, history, IInv, TypeOK
  <2>2. Fresh'
    BY <2>1 DEF Sequential, SeqInv, Fresh
  <2> QED
    BY <2>1, <2>2, SeqMoves
<1>6. ASSUME NEW p \in Procs, ZeroPool(p) PROVE SeqInv'
  <2>1. /\ pc[p] = "zero" /\ pc'[p] = "setValidTime" /\ Clear(Buckets)
        /\ UNCHANGED <<disturbed, tag>>
    BY <1>6 DEF ZeroPool, Goto, history, IInv, TypeOK
  <2>2. \A i \in Buckets : szTag'[i] = NoTag
    BY <2>1 DEF Clear
  <2>3. tag'[p] \in Tags
    BY <2>1 DEF IInv, Origin, Active
  <2>4. Fresh'
    BY <2>1, <2>2, <2>3, PoolAssumption DEF Sequential, Fresh
  <2> QED
    BY <2>1, <2>4, SeqClears
<1>7. ASSUME NEW p \in Procs, SaveScan(p) PROVE SeqInv'
  <2>1. /\ pc[p] = "save"
        /\ UNCHANGED <<bValid, szTag, xExpiredDate, cmd, tag, xTime, disturbed>>
    BY <1>7 DEF SaveScan, pool
  <2>2. ASSUME pc'[p] \in {"claim", "refresh"}, Room', Punctual' PROVE SeqInv'
    <3>1. Named'
      BY <2>1 DEF Sequential, SeqInv, Named
    <3>2. Fresh'
      BY <2>2 DEF Sequential, Fresh
    <3> QED
      BY <2>1, <2>2, <3>1, <3>2 DEF SeqInv
  <2>3. ASSUME NEW i \in Buckets, FirstMatch(i, tag[p]), TakeSlot(p, i, "refresh") PROVE SeqInv'
    <3>1. pc'[p] = "refresh" /\ slot'[p] = i
      BY <2>3 DEF TakeSlot, Goto, IInv, TypeOK
    <3>2. szTag[i] = tag[p] /\ tag[p] \in Tags
      BY <2>1, <2>3 DEF FirstMatch, Matches, IInv, Origin, Active
    <3>3. cmd[p] # "login"
      BY <2>1, <3>2 DEF SeqInv, Fresh
    <3>4. /\ lastSaved[tag[p]] <= xTime[p] /\ xTime[p] <= lastSaved[tag[p]] + VALID_TIME
          /\ xExpiredDate[i] = lastSaved[tag[p]] + VALID_TIME
      BY <2>1, <3>2, <3>3
      DEF IInv, IdleTimeout, Admitted, Dated, Undisturbed, SeqInv, Sequential
    <3>5. lastSaved[tag[p]] \in 0..MaxTime /\ xTime[p] \in Times
      BY <3>2 DEF IInv, TypeOK
    <3>6. xTime[p] <= xExpiredDate[i] /\ xExpiredDate[i] <= xTime[p] + VALID_TIME
      BY <3>4, <3>5, PoolAssumption, SMTT(30) DEF Times
    <3>7. Room' /\ Punctual'
      BY <2>1, <3>1, <3>6 DEF Room, Punctual, Sequential
    <3> QED
      BY <2>2, <3>1, <3>7
  <2>4. ASSUME NEW i \in Buckets, TakeSlot(p, i, "claim"),
               bValid[i] = 0 \/ \A j \in Buckets : bValid[j] # 0
        PROVE  SeqInv'
    <3>1. pc'[p] = "claim" /\ slot'[p] = i
      BY <2>4 DEF TakeSlot, Goto, IInv, TypeOK
    <3>2. bValid[i] = 0 \/ \A j \in Buckets : bValid[j] = 1
      BY <2>4, SMTT(30) DEF IInv, TypeOK
    <3>3. Room' /\ Punctual'
      BY <2>1, <3>1, <3>2 DEF Room, Punctual, Sequential
    <3> QED
      BY <2>2, <3>1, <3>3
  <2>5. Oldest \in Buckets
    BY PoolAssumption, SMTT(30) DEF Oldest, Buckets
  <2> QED
    BY <1>7, <2>3, <2>4, <2>5 DEF SaveScan, FirstFree
<1>8. ASSUME NEW p \in Procs, SaveExpiry(p) PROVE SeqInv'
  <2>1. /\ pc[p] # "tag" /\ pc'[p] = "serve" /\ UNCHANGED <<bValid, szTag, disturbed>>
    BY <1>8 DEF SaveExpiry, Goto, history, IInv, TypeOK
  <2>2. Fresh'
    BY <2>1 DEF Sequential, Fresh
  <2> QED
    BY <2>1, <2>2, SeqMoves
<1>9. ASSUME NEW p \in Procs, SaveClaim(p) PROVE SeqInv'
  <2>1. /\ pc[p] = "claim" /\ pc'[p] = "tag" /\ UNCHANGED <<szTag, slot, disturbed>>
        /\ slot[p] \in Buckets /\ bValid'[slot[p]] = 1
        /\ \A i \in Buckets : i # slot[p] => bValid'[i] = bValid[i]
    BY <1>9 DEF SaveClaim, Goto, history, IInv, TypeOK
  <2>2. \A i \in Buckets : bValid[i] = 1 => szTag[i] \in Tags
    BY <2>1 DEF SeqInv, Named, Sequential
  <2>3. bValid[slot[p]] = 0 => szTag[slot[p]] = NoTag
    BY <2>1, SMTT(30) DEF SeqInv, IInv, TypeOK, Copies, Undisturbed
  <2>4. szTag[slot[p]] = NoTag \/ \A i \in Buckets : szTag[i] \in Tags
    BY <2>1, <2>2, <2>3 DEF SeqInv, Room
  <2>5. Named'
    BY <2>1, <2>2 DEF Named
  <2> QED
    BY <2>1, <2>4, <2>5 DEF SeqInv, Room, Fresh, Punctual, Sequential
<1>10. ASSUME NEW p \in Procs, SaveTag(p) PROVE SeqInv'
  <2>1. /\ pc[p] = "tag" /\ pc'[p] = "expiry" /\ UNCHANGED <<bValid, disturbed>>
        /\ slot[p] \in Buckets /\ szTag'[slot[p]] = tag[p]
        /\ \A i \in Buckets : i # slot[p] => szTag'[i] = szTag[i]
    BY <1>10 DEF SaveTag, Goto, history, IInv, TypeOK
  <2>2. tag[p] \in Tags
    BY <2>1 DEF IInv, Origin, Active
  <2>3. Named'
    BY <2>1, <2>2 DEF SeqInv, Named, Sequential
  <2> QED
    BY <2>1, <2>3 DEF SeqInv, Room, Fresh, Punctual, Sequential
<1>11. ASSUME NEW p \in Procs, Serve(p) PROVE SeqInv'
  <2>1. pc[p] = "serve" /\ Exit(p) /\ UNCHANGED <<bValid, szTag, disturbed>>
    BY <1>11 DEF Serve, pool, history
  <2> QED
    BY <2>1, SeqExits, SeqMoves
<1>12. ASSUME NEW p \in Procs, DeleteScan(p) PROVE SeqInv'
  <2>1. pc[p] = "serve" /\ UNCHANGED <<bValid, szTag, disturbed>>
    BY <1>12 DEF DeleteScan, pool
  <2>2. (pc'[p] = "wipe" \/ Exit(p))
    BY <1>12 DEF DeleteScan, Goto, IInv, TypeOK
  <2>3. pc'[p] = "wipe" => Fresh'
    BY DEF Fresh, Sequential
  <2> QED
    BY <2>1, <2>2, <2>3, SeqExits, SeqMoves
<1>13. ASSUME NEW p \in Procs, DeleteWipe(p) PROVE SeqInv'
  <2>1. pc[p] = "wipe" /\ Exit(p) /\ disturbed' = disturbed
    BY <1>13 DEF DeleteWipe
  <2>2. \E S : Clear(S)
    BY <1>13 DEF DeleteWipe
  <2> QED
    BY <2>1, <2>2, SeqExits, SeqClears
<1>14. CASE UNCHANGED vars
  BY <1>14 DEF vars, SeqInv, Named, Fresh, Room, Punctual
<1> QED
  BY <1>1, <1>2, <1>3, <1>4, <1>5, <1>6, <1>7, <1>8, <1>9, <1>10, <1>11, <1>12, <1>13,
     <1>14 DEF Next, ProcStep

-----------------------------------------------------------------------------
\* A step that moves no tag and no date is none of the table's.
LEMMA SameTable ==
    ASSUME DatesOK, DatesOK',
           \A i \in Buckets : szTag[i] \in Tags \/ szTag'[i] \in Tags =>
               szTag'[i] = szTag[i] /\ BucketDate(i)' = BucketDate(i)
    PROVE  PoolDates' = PoolDates
<1>1. ASSUME NEW t \in Tags, NEW i \in Buckets, szTag[i] = t PROVE PoolDates'[t] = PoolDates[t]
  BY <1>1 DEF DatesOK, Listed
<1>2. ASSUME NEW t \in Tags, \A i \in Buckets : szTag[i] # t PROVE PoolDates'[t] = PoolDates[t]
  BY <1>2 DEF DatesOK, Unlisted
<1>3. \A t \in Tags : PoolDates'[t] = PoolDates[t]
  BY <1>1, <1>2
<1>4. IsTable /\ IsTable'
  BY DEF DatesOK
<1> QED
  BY <1>3, <1>4 DEF IsTable

\* Nor is a step outside the window between a tag and its date that leaves both
\* arrays alone.
LEMMA SameBuckets ==
    ASSUME DatesOK, DatesOK', NEW p \in Procs, pc[p] # "expiry", pc'[p] # "expiry",
           UNCHANGED <<szTag, xExpiredDate>>
    PROVE  PoolDates' = PoolDates
<1>1. \A i \in Buckets : BucketDate(i)' = BucketDate(i)
  BY DEF DatesOK, Dating
<1> QED
  BY <1>1, SameTable

\* The sessions of the table are the tags in the buckets.
LEMMA LiveTags ==
    ASSUME DatesOK
    PROVE  Table!Live = {t \in Tags : \E i \in Buckets : szTag[i] = t}
<1>1. ASSUME NEW t \in Tags, NEW i \in Buckets, szTag[i] = t PROVE PoolDates[t] # 0
  BY <1>1 DEF DatesOK, Listed
<1>2. ASSUME NEW t \in Tags, \A i \in Buckets : szTag[i] # t PROVE PoolDates[t] = 0
  BY <1>2 DEF DatesOK, Unlisted
<1> QED
  BY <1>1, <1>2 DEF Table!Live

\* Clearing buckets takes their sessions out of the table.
LEMMA ClearedTable ==
    ASSUME IInv, SeqInv, DatesOK, DatesOK', NEW p \in Procs, pc[p] # "expiry",
           pc'[p] # "expiry", NEW S, Clear(S)
    PROVE  PoolDates' = Table!Without({t \in Tags : \E i \in Buckets : i \in S /\ szTag[i] = t})
<1> DEFINE gone == {t \in Tags : \E i \in Buckets : i \in S /\ szTag[i] = t}
<1>1. ASSUME NEW t \in Tags PROVE PoolDates'[t] = IF t \in gone THEN 0 ELSE PoolDates[t]
  <2>1. CASE t \in gone
    <3>1. PICK i \in Buckets : i \in S /\ szTag[i] = t
      BY <2>1
    <3>2. \A j \in Buckets : szTag'[j] # t
      BY <3>1, OneBucket, PoolAssumption DEF Clear
    <3> QED
      BY <2>1, <3>2 DEF DatesOK, Unlisted
  <2>2. ASSUME NEW i \in Buckets, szTag[i] = t, i \notin S
        PROVE  PoolDates'[t] = PoolDates[t]
    <3>1. szTag'[i] = t /\ xExpiredDate'[i] = xExpiredDate[i]
      BY <2>2 DEF Clear
    <3>2. BucketDate(i)' = xExpiredDate'[i] /\ BucketDate(i) = xExpiredDate[i]
      BY DEF DatesOK, Dating
    <3>3. PoolDates'[t] = BucketDate(i)' /\ PoolDates[t] = BucketDate(i)
      BY <2>2, <3>1 DEF DatesOK, Listed
    <3> QED
      BY <3>1, <3>2, <3>3
  <2>3. CASE \A i \in Buckets : szTag[i] # t
    <3>1. \A i \in Buckets : szTag'[i] # t
      BY <2>3, PoolAssumption DEF Clear
    <3> QED
      BY <2>3, <3>1 DEF DatesOK, Unlisted
  <2>4. t \in gone \/ (\E i \in Buckets : szTag[i] = t /\ i \notin S) \/ (\A i \in Buckets : szTag[i] # t)
    OBVIOUS
  <2>5. (\E i \in Buckets : szTag[i] = t /\ i \notin S) => t \notin gone
    BY OneBucket
  <2>6. (\A i \in Buckets : szTag[i] # t) => t \notin gone
    OBVIOUS
  <2>7. t \in gone => PoolDates'[t] = 0
    BY <2>1
  <2> QED
    BY <2>2, <2>3, <2>4, <2>5, <2>6, <2>7
<1> HIDE DEF gone
<1>2. PoolDates' = [t \in Tags |-> PoolDates'[t]]
  BY DEF DatesOK, IsTable
<1>3. PoolDates' = Table!Without(gone)
  BY <1>1, <1>2 DEF Table!Without
<1> QED
  BY <1>3 DEF gone

\* The size of the table, when bucket s is free and when none is.
LEMMA TableSize ==
    ASSUME IInv, SeqInv, DatesOK, NEW s \in Buckets
    PROVE  /\ szTag[s] \notin Tags => Cardinality(Table!Live) # MAX_BUCKETS
           /\ (\A i \in Buckets : szTag[i] \in Tags) => Cardinality(Table!Live) = MAX_BUCKETS
<1> DEFINE B == {i \in Buckets : szTag[i] \in Tags}
           f == [i \in B |-> szTag[i]]
<1>1. IsFiniteSet(Buckets) /\ Cardinality(Buckets) = MAX_BUCKETS
  <2>1. 0 \in Int /\ MAX_BUCKETS - 1 \in Int /\ ~ (0 > MAX_BUCKETS - 1) /\ MAX_BUCKETS - 1 - 0 + 1 = MAX_BUCKETS
    BY PoolAssumption, SMTT(30)
  <2> QED
    BY <2>1, FS_Interval DEF Buckets
<1>2. IsFiniteSet(B)
  BY <1>1, FS_Subset
<1>3. f \in Bijection(B, Table!Live)
  <2>1. f \in [B -> Table!Live]
    BY LiveTags
  <2>2. \A i, j \in B : f[i] = f[j] => i = j
    BY OneBucket
  <2>3. \A t \in Table!Live : \E i \in B : f[i] = t
    BY LiveTags
  <2> QED
    BY <2>1, <2>2, <2>3 DEF Bijection, Injection, Surjection, IsInjective
<1>4. Cardinality(Table!Live) = Cardinality(B)
  BY <1>2, <1>3, FS_Bijection DEF ExistsBijection
<1>5. CASE szTag[s] \notin Tags
  <2>1. B \in SUBSET (Buckets \ {s})
    BY <1>5
  <2>2. IsFiniteSet(Buckets \ {s}) /\ Cardinality(Buckets \ {s}) = MAX_BUCKETS - 1
    BY <1>1, FS_RemoveElement
  <2> HIDE DEF B
  <2>3. Cardinality(B) <= MAX_BUCKETS - 1 /\ Cardinality(B) \in Nat
    <3> DEFINE rest == Buckets \ {s}
    <3>1. Cardinality(B) <= MAX_BUCKETS - 1
      <4> HIDE DEF rest
      <4>1. B \in SUBSET rest /\ IsFiniteSet(rest)
        BY <2>1, <2>2 DEF rest
      <4>2. Cardinality(B) <= Cardinality(rest)
        BY <4>1, FS_Subset
      <4> QED
        BY <2>2, <4>2 DEF rest
    <3> QED
      BY <1>2, <3>1, FS_CardinalityType
  <2>4. Cardinality(B) # MAX_BUCKETS
    BY <2>3, PoolAssumption, SMTT(30)
  <2> QED
    BY <1>4, <1>5, <2>4
<1>6. CASE \A i \in Buckets : szTag[i] \in Tags
  <2>1. B = Buckets
    BY <1>6
  <2> QED
    BY <1>1, <1>4, <1>6, <2>1
<1> QED
  BY <1>5, <1>6

-----------------------------------------------------------------------------
\* The table counts its sessions as the pool does.
LEMMA TableCounts == ASSUME NEW S PROVE Table!Cardinality(S) = Cardinality(S)
BY DEF Table!Cardinality, Cardinality

\* A session begins, and those in G leave.
LEMMA LoginIs ==
    ASSUME NEW t, NEW x, t \notin Table!Live, NEW G \in SUBSET Table!Live,
           Cardinality(G) = IF Cardinality(Table!Live) = MAX_BUCKETS THEN 1 ELSE 0,
           PoolDates' = [Table!Without(G) EXCEPT ![t] = x + VALID_TIME]
    PROVE  Table!Login(t, x)
<1>1. Table!Cardinality(G) = IF Table!Cardinality(Table!Live) = MAX_BUCKETS THEN 1 ELSE 0
  BY TableCounts
<1> QED
  BY <1>1 DEF Table!Login

\* The tag that is written is the login's session in the table.
LEMMA LoginStep ==
    ASSUME Sequential, IInv, SeqInv, DatesOK, DatesOK', NEW p \in Procs, SaveTag(p)
    PROVE  Table!Login(tag[p], xTime[p])
<1>0. PICK s \in Buckets : s = slot[p]
  BY DEF IInv, TypeOK
<1> DEFINE t == tag[p]
           out == {szTag[s]} \cap Tags
<1>1. /\ pc[p] = "tag" /\ pc'[p] = "expiry" /\ slot' = slot /\ xTime' = xTime
      /\ xExpiredDate' = xExpiredDate /\ nValidTime' = nValidTime
      /\ s \in Buckets /\ szTag'[s] = t
      /\ \A i \in Buckets : i # s => szTag'[i] = szTag[i]
  BY <1>0 DEF SaveTag, Goto, IInv, TypeOK
<1>2. t \in Tags /\ \A i \in Buckets : szTag[i] # t
  BY <1>1 DEF IInv, Origin, Active, Claiming, Undisturbed, SeqInv
<1>3. nValidTime = VALID_TIME
  BY <1>1, <1>2 DEF IInv, Window, Undisturbed, SeqInv
<1>4. t \notin Table!Live
  BY <1>2, LiveTags
<1>5. out \in SUBSET Table!Live
  BY <1>1, LiveTags
<1>6. Cardinality(out) = IF Cardinality(Table!Live) = MAX_BUCKETS THEN 1 ELSE 0
  <2>1. CASE szTag[s] \in Tags
    <3>1. Cardinality(Table!Live) = MAX_BUCKETS
      BY <1>0, <1>1, <2>1, TableSize, PoolAssumption DEF SeqInv, Room
    <3>2. out = {szTag[s]}
      BY <2>1
    <3> QED
      BY <3>1, <3>2, FS_Singleton
  <2>2. CASE szTag[s] \notin Tags
    <3>1. Cardinality(Table!Live) # MAX_BUCKETS
      BY <1>1, <2>2, TableSize
    <3>2. out = {}
      BY <2>2
    <3> QED
      BY <3>1, <3>2, FS_EmptySet
  <2> QED
    BY <2>1, <2>2
<1>7. ASSUME NEW u \in Tags
      PROVE  PoolDates'[u] = IF u = t THEN xTime[p] + VALID_TIME
                             ELSE IF u \in out THEN 0 ELSE PoolDates[u]
  <2>1. CASE u = t
    <3>1. PoolDates'[szTag'[s]] = BucketDate(s)'
      BY <1>1, <1>2 DEF DatesOK, Listed
    <3>2. BucketDate(s)' = xTime[p] + VALID_TIME
      BY <1>0, <1>1, <1>3 DEF DatesOK, Dating
    <3> QED
      BY <1>1, <2>1, <3>1, <3>2
  <2>2. CASE u # t /\ u \in out
    <3>1. \A i \in Buckets : szTag'[i] # u
      BY <1>1, <2>2, OneBucket
    <3>2. PoolDates'[u] = 0
      BY <3>1 DEF DatesOK, Unlisted
    <3> QED
      BY <2>2, <3>2
  <2>3. ASSUME u # t, u \notin out, NEW i \in Buckets, szTag[i] = u
        PROVE  PoolDates'[u] = PoolDates[u]
    <3>1. i # s
      BY <2>3
    <3>2. szTag'[i] = u
      BY <1>1, <2>3, <3>1
    <3>3. BucketDate(i)' = xExpiredDate[i] /\ BucketDate(i) = xExpiredDate[i]
      BY <1>0, <1>1, <3>1 DEF DatesOK, Dating
    <3>4. PoolDates'[u] = BucketDate(i)' /\ PoolDates[u] = BucketDate(i)
      BY <2>3, <3>2 DEF DatesOK, Listed
    <3> QED
      BY <3>3, <3>4
  <2>4. ASSUME u # t, \A i \in Buckets : szTag[i] # u
        PROVE  PoolDates'[u] = PoolDates[u]
    <3>1. \A i \in Buckets : szTag'[i] # u
      BY <1>1, <2>4
    <3>2. PoolDates'[u] = 0 /\ PoolDates[u] = 0
      BY <2>4, <3>1 DEF DatesOK, Unlisted
    <3> QED
      BY <3>2
  <2>5. u # t /\ u \notin out => PoolDates'[u] = PoolDates[u]
    BY <2>3, <2>4
  <2> HIDE DEF out, t
  <2> QED
    BY <2>1, <2>2, <2>5
<1> HIDE DEF out, t
<1>8. PoolDates' = [Table!Without(out) EXCEPT ![t] = xTime[p] + VALID_TIME]
  <2>1. PoolDates' = [u \in Tags |-> PoolDates'[u]]
    BY DEF DatesOK, IsTable
  <2> QED
    BY <1>2, <1>7, <2>1 DEF Table!Without
<1> QED
  BY <1>4, <1>5, <1>6, <1>8, LoginIs DEF t

\* A request that finds its bucket uses its session.
LEMMA UseStep ==
    ASSUME IInv, SeqInv, DatesOK, DatesOK', NEW p \in Procs, SaveExpiry(p), pc[p] = "refresh"
    PROVE  Table!Use(tag[p], xTime[p])
<1> DEFINE t == tag[p]
<1>0. PICK s \in Buckets : s = slot[p]
  BY DEF IInv, TypeOK
<1>1. /\ pc'[p] = "serve" /\ szTag' = szTag /\ s \in Buckets
      /\ xExpiredDate'[s] = xTime[p] + nValidTime
      /\ \A i \in Buckets : i # s => xExpiredDate'[i] = xExpiredDate[i]
  BY <1>0 DEF SaveExpiry, Goto, IInv, TypeOK
<1>2. t \in Tags /\ szTag[s] = t /\ nValidTime = VALID_TIME
  BY <1>0 DEF IInv, Origin, Active, Holding, Window, Undisturbed, SeqInv
<1>3. t \in Table!Live
  BY <1>1, <1>2, LiveTags
<1>4. PoolDates[t] = xExpiredDate[s]
  <2>1. PoolDates[t] = BucketDate(s)
    BY <1>1, <1>2 DEF DatesOK, Listed
  <2>2. BucketDate(s) = xExpiredDate[s]
    BY DEF DatesOK, Dating
  <2> QED
    BY <2>1, <2>2
<1>5. Table!InTimeAt(t, xTime[p])
  BY <1>0, <1>4 DEF SeqInv, Punctual, Table!InTimeAt
<1>6. ASSUME NEW u \in Tags
      PROVE  PoolDates'[u] = IF u = t THEN xTime[p] + VALID_TIME ELSE PoolDates[u]
  <2>1. CASE u = t
    <3>1. szTag'[s] = t /\ pc'[p] # "expiry"
      BY <1>1, <1>2
    <3>2. PoolDates'[szTag'[s]] = BucketDate(s)'
      BY <1>1, <1>2, <3>1 DEF DatesOK, Listed
    <3>3. BucketDate(s)' = xExpiredDate'[s]
      BY <1>1, <3>1 DEF DatesOK, Dating
    <3> QED
      BY <1>1, <1>2, <2>1, <3>1, <3>2, <3>3
  <2>2. ASSUME u # t, NEW i \in Buckets, szTag[i] = u PROVE PoolDates'[u] = PoolDates[u]
    <3>1. i # s
      BY <1>2, <2>2
    <3>2. BucketDate(i)' = xExpiredDate[i] /\ BucketDate(i) = xExpiredDate[i]
      BY <1>1, <3>1 DEF DatesOK, Dating
    <3> QED
      BY <1>1, <2>2, <3>2 DEF DatesOK, Listed
  <2>3. ASSUME \A i \in Buckets : szTag[i] # u PROVE PoolDates'[u] = PoolDates[u]
    BY <1>1, <2>3 DEF DatesOK, Unlisted
  <2>4. u # t => PoolDates'[u] = PoolDates[u]
    BY <2>2, <2>3
  <2> QED
    BY <2>1, <2>4
<1> HIDE DEF t
<1>7. PoolDates' = [PoolDates EXCEPT ![t] = xTime[p] + VALID_TIME]
  <2>1. PoolDates' = [u \in Tags |-> PoolDates'[u]] /\ PoolDates = [u \in Tags |-> PoolDates[u]]
    BY DEF DatesOK, IsTable
  <2> QED
    BY <1>2, <1>6, <2>1
<1> QED
  BY <1>3, <1>5, <1>7 DEF Table!Use, t

\* A request that fails removes the sessions that are out of time.
LEMMA ExpireStep ==
    ASSUME IInv, SeqInv, DatesOK, DatesOK', NEW p \in Procs, IsValidSSID(p), ~ Valid(p)
    PROVE  Table!Expire(xTime[p])
<1> DEFINE S == {i \in Buckets : bValid[i] = 1 /\ ~InTime(i, xTime[p])}
           gone == {t \in Tags : \E i \in Buckets : i \in S /\ szTag[i] = t}
<1>1. pc[p] = "check" /\ pc'[p] = "idle" /\ Clear(S)
  BY DEF IsValidSSID, Exit, Goto, IInv, TypeOK
<1>2. PoolDates' = Table!Without(gone)
  <2> HIDE DEF S
  <2> QED
    BY <1>1, ClearedTable
<1>3. ASSUME NEW i \in Buckets, szTag[i] \in Tags
      PROVE  bValid[i] = 1 /\ (InTime(i, xTime[p]) <=> Table!InTimeAt(szTag[i], xTime[p]))
  <2>1. bValid[i] = 1 /\ nValidTime = VALID_TIME
    BY <1>3 DEF IInv, Copies, Made, Undisturbed, SeqInv
  <2>2. PoolDates[szTag[i]] = xExpiredDate[i]
    BY <1>1, <1>3 DEF DatesOK, Listed, Dating
  <2>3. xExpiredDate[i] \in Expiries /\ xTime[p] \in Times
    BY DEF IInv, TypeOK
  <2>4. InTime(i, xTime[p]) <=> xTime[p] <= xExpiredDate[i] /\ xExpiredDate[i] <= xTime[p] + VALID_TIME
    BY <2>1, <2>3, PoolAssumption, SMTT(30) DEF InTime, Expiries, Times
  <2> QED
    BY <2>1, <2>2, <2>4 DEF Table!InTimeAt
<1>4. gone = {t \in Table!Live : ~Table!InTimeAt(t, xTime[p])}
  BY <1>3, LiveTags
<1> QED
  BY <1>2, <1>4 DEF Table!Expire

\* A logout removes its session, and those in later buckets.
LEMMA LogoutStep ==
    ASSUME IInv, SeqInv, DatesOK, DatesOK', NEW p \in Procs, DeleteWipe(p)
    PROVE  tag[p] \in Tags /\ Table!Logout(tag[p])
<1> DEFINE S == {i \in Buckets : i >= slot[p]}
           gone == {t \in Tags : \E i \in Buckets : i \in S /\ szTag[i] = t}
<1>1. pc[p] = "wipe" /\ pc'[p] = "idle" /\ Clear(S)
  BY DEF DeleteWipe, Exit, Goto, IInv, TypeOK
<1>2. PoolDates' = Table!Without(gone)
  <2> HIDE DEF S
  <2> QED
    BY <1>1, ClearedTable
<1>3. slot[p] \in S
  <2>1. slot[p] \in Buckets
    BY DEF IInv, TypeOK
  <2>2. slot[p] >= slot[p]
    BY <2>1, SMTT(30) DEF Buckets
  <2> QED
    BY <2>1, <2>2
<1>4. tag[p] \in Tags /\ szTag[slot[p]] = tag[p]
  BY <1>1 DEF IInv, Origin, Active, Holding, Undisturbed, SeqInv
<1>5. tag[p] \in gone /\ gone \in SUBSET Table!Live
  BY <1>3, <1>4, LiveTags
<1> HIDE DEF gone
<1> QED
  BY <1>2, <1>4, <1>5 DEF Table!Logout

\* Every step of the pool is one of the table, or leaves the table alone.
LEMMA TableStep ==
    ASSUME Sequential, Procs # {}, IInv, SeqInv, IInv', SeqInv', [Next]_vars
    PROVE  Table!Next \/ PoolDates' = PoolDates
<1>1. DatesOK /\ DatesOK'
  BY Dates, DatesPrime
<1>2. ASSUME UNCHANGED <<szTag, xExpiredDate, pc, slot, xTime, nValidTime>>
      PROVE  PoolDates' = PoolDates
  <2>1. PICK p \in Procs : TRUE
    OBVIOUS
  <2>2. ASSUME NEW i \in Buckets PROVE BucketDate(i)' = BucketDate(i)
    <3>1. CASE pc[p] = "expiry" /\ slot[p] = i
      <4>1. BucketDate(i) = xTime[p] + nValidTime
        BY <1>1, <3>1 DEF DatesOK, Dating
      <4>2. pc'[p] = "expiry" /\ slot'[p] = i
        BY <1>2, <3>1
      <4>3. BucketDate(i)' = xTime'[p] + nValidTime'
        BY <1>1, <4>2 DEF DatesOK, Dating
      <4> QED
        BY <1>2, <4>1, <4>3
    <3>2. CASE ~ (pc[p] = "expiry" /\ slot[p] = i)
      <4>1. BucketDate(i) = xExpiredDate[i]
        BY <1>1, <3>2 DEF DatesOK, Dating
      <4>2. ~ (pc'[p] = "expiry" /\ slot'[p] = i)
        BY <1>2, <3>2
      <4>3. BucketDate(i)' = xExpiredDate'[i]
        BY <1>1, <4>2 DEF DatesOK, Dating
      <4> QED
        BY <1>2, <4>1, <4>3
    <3> QED
      BY <3>1, <3>2
  <2> QED
    BY <1>1, <1>2, <2>2, SameTable
<1>3. CASE Clock \/ UNCHANGED vars
  BY <1>2, <1>3 DEF Clock, pool, procVars, vars
<1>4. ASSUME NEW p \in Procs,
             \/ StartLogin(p) \/ StartRequest(p) \/ GetPool(p) \/ CreatePool(p) \/ PoolNotMade(p)
             \/ SetValidTime(p) \/ SaveScan(p) \/ SaveClaim(p) \/ Serve(p) \/ DeleteScan(p)
             \/ IsValidSSID(p) /\ Valid(p)
      PROVE  PoolDates' = PoolDates
  <2>1. pc[p] # "expiry" /\ pc'[p] # "expiry" /\ UNCHANGED <<szTag, xExpiredDate>>
    <3>1. CASE StartLogin(p) \/ StartRequest(p)
      BY <3>1 DEF StartLogin, StartRequest, Start, Active, Goto, pool, IInv, TypeOK
    <3>2. CASE GetPool(p) \/ CreatePool(p) \/ PoolNotMade(p) \/ SetValidTime(p) \/ SaveClaim(p)
      BY <3>2 DEF GetPool, CreatePool, PoolNotMade, SetValidTime, SaveClaim, Goto, pool, IInv, TypeOK
    <3>3. CASE SaveScan(p)
      BY <3>3 DEF SaveScan, TakeSlot, Goto, pool, IInv, TypeOK
    <3>4. CASE Serve(p) \/ DeleteScan(p)
      BY <3>4 DEF Serve, DeleteScan, Exit, Goto, pool, IInv, TypeOK
    <3>5. CASE IsValidSSID(p) /\ Valid(p)
      BY <3>5 DEF IsValidSSID, Goto, IInv, TypeOK
    <3> QED
      BY <1>4, <3>1, <3>2, <3>3, <3>4, <3>5
  <2> QED
    BY <1>1, <2>1, SameBuckets
<1>5. ASSUME NEW p \in Procs, IsValidSSID(p), ~ Valid(p) PROVE Table!Next
  <2>1. xTime[p] \in Times
    BY DEF IInv, TypeOK
  <2> QED
    BY <1>1, <1>5, <2>1, ExpireStep DEF Table!Next
<1>6. ASSUME NEW p \in Procs, ZeroPool(p) PROVE PoolDates' = PoolDates
  <2>1. \A i \in Buckets : szTag[i] \notin Tags /\ szTag'[i] \notin Tags
    BY <1>6, PoolAssumption DEF ZeroPool, Clear, IInv, Made, Undisturbed, SeqInv
  <2> QED
    BY <1>1, <2>1, SameTable
<1>7. ASSUME NEW p \in Procs, SaveExpiry(p) PROVE Table!Next \/ PoolDates' = PoolDates
  <2>1. CASE pc[p] = "refresh"
    <3>1. tag[p] \in Tags /\ xTime[p] \in Times
      BY <2>1 DEF IInv, TypeOK, Origin, Active
    <3> QED
      BY <1>1, <1>7, <2>1, <3>1, UseStep DEF Table!Next
  <2>2. CASE pc[p] = "expiry"
    <3>1. /\ pc'[p] = "serve" /\ szTag' = szTag
          /\ \A i \in Buckets :
                xExpiredDate'[i] = IF slot[p] = i THEN xTime[p] + nValidTime ELSE xExpiredDate[i]
      BY <1>7 DEF SaveExpiry, Goto, IInv, TypeOK
    <3>2. ASSUME NEW i \in Buckets PROVE BucketDate(i)' = BucketDate(i)
      <4>1. pc'[p] # "expiry"
        BY <3>1
      <4>2. BucketDate(i)' = xExpiredDate'[i]
        BY <1>1, <4>1 DEF DatesOK, Dating
      <4>3. slot[p] = i => BucketDate(i) = xTime[p] + nValidTime
        BY <1>1, <2>2 DEF DatesOK, Dating
      <4>4. slot[p] # i => BucketDate(i) = xExpiredDate[i]
        BY <1>1 DEF DatesOK, Dating
      <4> QED
        BY <3>1, <4>2, <4>3, <4>4
    <3> QED
      BY <1>1, <3>1, <3>2, SameTable
  <2> QED
    BY <1>7, <2>1, <2>2 DEF SaveExpiry
<1>8. ASSUME NEW p \in Procs, SaveTag(p) PROVE Table!Next
  <2>1. tag[p] \in Tags /\ xTime[p] \in Times
    BY <1>8 DEF SaveTag, IInv, TypeOK, Origin, Active
  <2> QED
    BY <1>1, <1>8, <2>1, LoginStep DEF Table!Next
<1>9. ASSUME NEW p \in Procs, DeleteWipe(p) PROVE Table!Next
  BY <1>1, <1>9, LogoutStep DEF Table!Next
<1> QED
  BY <1>3, <1>4, <1>5, <1>6, <1>7, <1>8, <1>9 DEF Next, ProcStep

\* Without overlapping requests the pool implements the session table, for any
\* number of buckets and tags and any clock: FTMC_SaveSSID admits one session and
\* evicts one only from a full pool, or renews the date of its own session;
\* FTMC_IsValidSSID removes only sessions that are out of time, and
\* FTMC_DeleteSSID removes its session.
THEOREM PoolImplementsTable ==
    ASSUME Sequential, Procs # {}
    PROVE  Spec => ImplementsTable
<1>1. Init => Table!Init
  <2> SUFFICES ASSUME Init PROVE Table!Init
    OBVIOUS
  <2>1. DatesOK
    BY Dates, InitIInv, SeqInit
  <2>2. \A i \in Buckets : szTag[i] = NoTag
    BY DEF Init
  <2>3. \A t \in Tags : PoolDates[t] = 0
    BY <2>1, <2>2, PoolAssumption DEF DatesOK, Unlisted
  <2> QED
    BY <2>1, <2>3 DEF DatesOK, IsTable, Table!Init
<1>2. Init => SeqInv
  BY SeqInit
<1>3. IInv /\ SeqInv /\ [Next]_vars => SeqInv'
  BY SeqNext
<1>4. IInv /\ SeqInv /\ IInv' /\ SeqInv' /\ [Next]_vars => [Table!Next]_PoolDates
  BY TableStep
<1>5. Spec => []IInv
  BY Inductive
<1> QED
  BY <1>1, <1>2, <1>3, <1>4, <1>5, PTL DEF Spec, ImplementsTable, Table!Spec
=============================================================================
