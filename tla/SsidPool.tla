------------------------------ MODULE SsidPool ------------------------------
(***************************************************************************)
(* The session pool of the web interface (ssid.c): a System V shared       *)
(* memory segment of MAX_BUCKETS buckets that every CGI process maps and   *)
(* changes without a lock. A request is a process of its own: it reads the *)
(* clock, checks its session tag (FTMC_IsValidSSID), saves it again with a *)
(* new expiry date (FTMC_SaveSSID) and runs its service; a login makes a   *)
(* fresh tag and saves it.                                                 *)
(*                                                                         *)
(* A pass over the buckets is one step, and every write to the segment     *)
(* that follows from it is a step of its own.                              *)
(***************************************************************************)
EXTENDS Integers, FiniteSets

CONSTANTS
    Procs,        \* CGI processes that may run at once
    Tags,         \* session tags (the md5 strings of FTMC_MakeSSID)
    NoTag,        \* a tag of 32 zero bytes
    MAX_BUCKETS,  \* 100 in the code
    VALID_TIME,   \* 600 seconds in the code
    MaxTime       \* bound: clock values that occur

ASSUME PoolAssumption ==
    /\ NoTag \notin Tags
    /\ MAX_BUCKETS \in Nat \ {0}
    /\ VALID_TIME \in Nat
    /\ MaxTime \in Nat \ {0}

VARIABLES
    now,         \* time(0)
    created,     \* the segment exists
    nValidTime,  \* the pool's first field
    bValid,      \* bValid[i], szTag[i], xExpiredDate[i]: the buckets
    szTag,
    xExpiredDate,
    pc,          \* where each process is
    cmd,         \* its request: "login", "service" or "logout"
    tag,         \* its session tag
    xTime,       \* the time it read
    slot,        \* the bucket it has decided on
    issued,      \* history: tags a login has made
    disturbed,   \* history: tags of requests that overlapped another request
    lastSaved,   \* history, undisturbed tags: time of the last save (0: never)
    ended        \* history, undisturbed tags: the logout has finished

pool == <<created, nValidTime, bValid, szTag, xExpiredDate>>
procVars == <<pc, cmd, tag, xTime, slot>>
history == <<issued, disturbed, lastSaved, ended>>
vars == <<now, created, nValidTime, bValid, szTag, xExpiredDate, pc, cmd, tag,
          xTime, slot, issued, disturbed, lastSaved, ended>>

Buckets == 0..(MAX_BUCKETS - 1)
Times == 1..MaxTime   \* no request runs in the first second of 1970
Expiries == 0..(MaxTime + VALID_TIME)
PCs == {"idle", "check", "get", "create", "zero", "setValidTime", "save",
        "refresh", "claim", "tag", "expiry", "serve", "wipe"}

Init ==
    /\ now = 1
    /\ created = 0
    /\ nValidTime = 0
    /\ bValid = [i \in Buckets |-> 0]
    /\ szTag = [i \in Buckets |-> NoTag]
    /\ xExpiredDate = [i \in Buckets |-> 0]
    /\ pc = [p \in Procs |-> "idle"]
    /\ cmd = [p \in Procs |-> "none"]
    /\ tag = [p \in Procs |-> NoTag]
    /\ xTime = [p \in Procs |-> 1]
    /\ slot = [p \in Procs |-> 0]
    /\ issued = {}
    /\ lastSaved = [t \in Tags |-> 0]
    /\ ended = {}
    /\ disturbed = {}

-----------------------------------------------------------------------------
Goto(p, label) == pc' = [pc EXCEPT ![p] = label]

\* The process exits; its locals are gone.
Exit(p) ==
    /\ Goto(p, "idle")
    /\ cmd' = [cmd EXCEPT ![p] = "none"]
    /\ tag' = [tag EXCEPT ![p] = NoTag]
    /\ xTime' = [xTime EXCEPT ![p] = 1]
    /\ slot' = [slot EXCEPT ![p] = 0]

Active(p) == pc[p] # "idle"

\* bValid == 1 && memcmp(szTag, szNewSSID, 32) == 0
Matches(i, t) == bValid[i] = 1 /\ szTag[i] = t

\* Where a scan for a tag, or for a free bucket, stops.
FirstMatch(i, t) == Matches(i, t) /\ \A j \in 0..(i - 1) : ~Matches(j, t)
FirstFree(i) == bValid[i] = 0 /\ \A j \in 0..(i - 1) : bValid[j] # 0

\* Mutant: the lower end of the window is not tested.
InTimeOneSided(i, time) == xExpiredDate[i] - time <= nValidTime

\* 0 <= diff && diff <= nValidTime
InTime(i, time) ==
    /\ 0 <= xExpiredDate[i] - time
    /\ xExpiredDate[i] - time <= nValidTime

\* The buckets in S are set to zeros.
Clear(S) ==
    /\ bValid' = [i \in Buckets |-> IF i \in S THEN 0 ELSE bValid[i]]
    /\ szTag' = [i \in Buckets |-> IF i \in S THEN NoTag ELSE szTag[i]]
    /\ xExpiredDate' = [i \in Buckets |-> IF i \in S THEN 0 ELSE xExpiredDate[i]]

-----------------------------------------------------------------------------
(***************************************************************************)
(* A request starts: main reads the clock. A login starts, for the model,  *)
(* where FTMC_Public reads the clock to save the tag it has just made (md5 *)
(* of seed, uptime and ps: never seen before).                             *)
(***************************************************************************)
Start(p, c, t) ==
    /\ ~Active(p)
    /\ cmd' = [cmd EXCEPT ![p] = c]
    /\ tag' = [tag EXCEPT ![p] = t]
    /\ xTime' = [xTime EXCEPT ![p] = now]
    /\ LET others == {q \in Procs : Active(q)}
           overlapping == IF others = {} THEN {}
                          ELSE {t} \cup {tag[q] : q \in others}
       IN  /\ disturbed' = disturbed \cup overlapping
           /\ ended' = ended \ overlapping
           /\ lastSaved' = [u \in Tags |-> IF u \in overlapping THEN 0
                                           ELSE lastSaved[u]]
    /\ UNCHANGED <<now, pool, slot>>

StartLogin(p) ==
    \E t \in Tags \ issued :
        /\ Start(p, "login", t)
        /\ issued' = issued \cup {t}
        /\ Goto(p, "get")

\* A browser learns its tag from the reply to its login; it may also hold
\* one from before the last restart, which no login has made since.
Known == Tags \ {tag[q] : q \in {q \in Procs : Active(q) /\ cmd[q] = "login"}}

StartRequest(p) ==
    \E c \in {"service", "logout"}, t \in Known :
        /\ Start(p, c, t)
        /\ Goto(p, "check")
        /\ UNCHANGED issued

\* Mutant: a tag that is in no bucket falls through to "valid".
ValidByDefault(p) ==
    \A i \in Buckets : FirstMatch(i, tag[p]) => InTime(i, xTime[p])

\* The first bucket with the tag decides.
Valid(p) ==
    \E i \in Buckets : FirstMatch(i, tag[p]) /\ InTime(i, xTime[p])

\* FTMC_IsValidSSID; without a segment there is no valid bucket to be found.
\* A request that fails purges every bucket that is out of
\* time (an unsigned difference above nValidTime) and shows the login page.
IsValidSSID(p) ==
    /\ pc[p] = "check"
    /\ \/ /\ Valid(p)
          /\ Goto(p, "get")
          /\ UNCHANGED <<bValid, szTag, xExpiredDate, cmd, tag, xTime, slot>>
       \/ /\ ~Valid(p)
          /\ Clear({i \in Buckets : bValid[i] = 1 /\ ~InTime(i, xTime[p])})
          /\ Exit(p)
    /\ UNCHANGED <<now, created, nValidTime, history>>

-----------------------------------------------------------------------------
(***************************************************************************)
(* FTMC_GetPool, called by FTMC_SaveSSID: the segment is looked up, then   *)
(* created, then zeroed, in three system calls.                            *)
(***************************************************************************)
GetPool(p) ==
    /\ pc[p] = "get"
    /\ Goto(p, IF created = 1 THEN "setValidTime" ELSE "create")
    /\ UNCHANGED <<now, pool, cmd, tag, xTime, slot, history>>

\* shmget(..., IPC_CREAT): a new segment holds zeros; without IPC_EXCL the
\* call also succeeds on a segment another process has just created.
CreatePool(p) ==
    /\ pc[p] = "create"
    /\ Goto(p, "zero")
    /\ created' = 1
    /\ UNCHANGED <<now, nValidTime, bValid, szTag, xExpiredDate, cmd, tag, xTime,
                   slot, history>>

\* The segment cannot be made: nothing is saved, and as neither main nor
\* FTMC_Public looks at the result, the request goes on.
PoolNotMade(p) ==
    /\ pc[p] = "create"
    /\ created = 0
    /\ Goto(p, "serve")
    /\ UNCHANGED <<now, pool, cmd, tag, xTime, slot, history>>

ZeroPool(p) ==
    /\ pc[p] = "zero"
    /\ Goto(p, "setValidTime")
    /\ nValidTime' = 0
    /\ Clear(Buckets)
    /\ UNCHANGED <<now, created, cmd, tag, xTime, slot, history>>

SetValidTime(p) ==
    /\ pc[p] = "setValidTime"
    /\ Goto(p, "save")
    /\ nValidTime' = VALID_TIME
    /\ UNCHANGED <<now, created, bValid, szTag, xExpiredDate, cmd, tag, xTime,
                   slot, history>>

-----------------------------------------------------------------------------
(***************************************************************************)
(* FTMC_SaveSSID: refresh the tag's bucket, else take the first free one,  *)
(* else the "oldest" one.                                                  *)
(***************************************************************************)

\* nOldestSSID: the search starts from uOldestExpiredTime = 0 and compares
\* unsigned dates with <, so it never leaves bucket 0.
Oldest == 0

TakeSlot(p, i, label) ==
    /\ slot' = [slot EXCEPT ![p] = i]
    /\ Goto(p, label)

SaveScan(p) ==
    /\ pc[p] = "save"
    /\ LET known == \E i \in Buckets : Matches(i, tag[p])
           full == \A i \in Buckets : bValid[i] # 0
       IN  \/ \E i \in Buckets :
                 FirstMatch(i, tag[p]) /\ TakeSlot(p, i, "refresh")
           \/ \E i \in Buckets :
                 ~known /\ FirstFree(i) /\ TakeSlot(p, i, "claim")
           \/ ~known /\ full /\ TakeSlot(p, Oldest, "claim")
    /\ lastSaved' = IF tag[p] \in disturbed THEN lastSaved
                    ELSE [lastSaved EXCEPT ![tag[p]] = xTime[p]]
    /\ UNCHANGED <<now, pool, cmd, tag, xTime, issued, ended, disturbed>>

\* Mutant: the date is the time of the request, not the end of its validity.
SaveExpiryNow(p) ==
    /\ pc[p] \in {"refresh", "expiry"}
    /\ Goto(p, "serve")
    /\ xExpiredDate' = [xExpiredDate EXCEPT ![slot[p]] = xTime[p]]
    /\ UNCHANGED <<now, created, nValidTime, bValid, szTag, cmd, tag, xTime, slot,
                   history>>

\* xExpiredDate = xTime + pxPool->nValidTime, after a match or a new tag.
SaveExpiry(p) ==
    /\ pc[p] \in {"refresh", "expiry"}
    /\ Goto(p, "serve")
    /\ xExpiredDate' = [xExpiredDate EXCEPT ![slot[p]] = xTime[p] + nValidTime]
    /\ UNCHANGED <<now, created, nValidTime, bValid, szTag, cmd, tag, xTime, slot,
                   history>>

SaveClaim(p) ==
    /\ pc[p] = "claim"
    /\ Goto(p, "tag")
    /\ bValid' = [bValid EXCEPT ![slot[p]] = 1]
    /\ UNCHANGED <<now, created, nValidTime, szTag, xExpiredDate, cmd, tag, xTime,
                   slot, history>>

SaveTag(p) ==
    /\ pc[p] = "tag"
    /\ Goto(p, "expiry")
    /\ szTag' = [szTag EXCEPT ![slot[p]] = tag[p]]
    /\ UNCHANGED <<now, created, nValidTime, bValid, xExpiredDate, cmd, tag, xTime,
                   slot, history>>

-----------------------------------------------------------------------------
\* pCmd->fService(pReq) for anything but a logout, and the login's reply.
Serve(p) ==
    /\ pc[p] = "serve"
    /\ cmd[p] # "logout"
    /\ Exit(p)
    /\ UNCHANGED <<now, pool, history>>

\* FTMC_Logout, FTMC_DeleteSSID: look for the tag ...
DeleteScan(p) ==
    /\ pc[p] = "serve"
    /\ cmd[p] = "logout"
    /\ \/ \E i \in Buckets :
             /\ FirstMatch(i, tag[p])
             /\ slot' = [slot EXCEPT ![p] = i]
             /\ Goto(p, "wipe")
             /\ UNCHANGED <<cmd, tag, xTime, ended>>
       \/ /\ \A i \in Buckets : ~Matches(i, tag[p])
          /\ Exit(p)
          /\ ended' = ended \cup ({tag[p]} \ disturbed)
    /\ UNCHANGED <<now, pool, issued, lastSaved, disturbed>>

\* Mutant: clears from the bucket after the one found.
DeleteWipeNext(p) ==
    /\ pc[p] = "wipe"
    /\ Exit(p)
    /\ Clear({i \in Buckets : i > slot[p]})
    /\ ended' = ended \cup ({tag[p]} \ disturbed)
    /\ UNCHANGED <<now, created, nValidTime, issued, lastSaved, disturbed>>

\* ... and clear it: memset(&xBuckets[i], 0, sizeof(pxPool[i])) clears the
\* size of the whole pool, that is bucket i and every later one.
DeleteWipe(p) ==
    /\ pc[p] = "wipe"
    /\ Exit(p)
    /\ Clear({i \in Buckets : i >= slot[p]})
    /\ ended' = ended \cup ({tag[p]} \ disturbed)
    /\ UNCHANGED <<now, created, nValidTime, issued, lastSaved, disturbed>>

\* Time passes, or the nightly rdate of root's crontab sets the clock.
Clock ==
    /\ now' \in Times
    /\ UNCHANGED <<pool, procVars, history>>

ProcStep(p) ==
    \/ StartLogin(p) \/ StartRequest(p) \/ IsValidSSID(p)
    \/ GetPool(p) \/ CreatePool(p) \/ PoolNotMade(p) \/ ZeroPool(p) \/ SetValidTime(p)
    \/ SaveScan(p) \/ SaveExpiry(p) \/ SaveClaim(p) \/ SaveTag(p)
    \/ Serve(p) \/ DeleteScan(p) \/ DeleteWipe(p)

Next == Clock \/ \E p \in Procs : ProcStep(p)

Spec == Init /\ [][Next]_vars

-----------------------------------------------------------------------------
\* Types of the pool, the processes and the history.
TypeOK ==
    /\ now \in Times
    /\ created \in 0..1
    /\ nValidTime \in {0, VALID_TIME}
    /\ bValid \in [Buckets -> 0..1]
    /\ szTag \in [Buckets -> Tags \cup {NoTag}]
    /\ xExpiredDate \in [Buckets -> Expiries]
    /\ pc \in [Procs -> PCs]
    /\ cmd \in [Procs -> {"none", "login", "service", "logout"}]
    /\ tag \in [Procs -> Tags \cup {NoTag}]
    /\ xTime \in [Procs -> Times]
    /\ slot \in [Procs -> Buckets]
    /\ issued \in SUBSET Tags
    /\ lastSaved \in [Tags -> 0..MaxTime]
    /\ ended \in SUBSET Tags
    /\ disturbed \in SUBSET Tags

\* A request is past FTMC_IsValidSSID: it will be served.
Admitted(p) == pc[p] \notin {"idle", "check"}

\* A request is served only for a tag that some login has made, whatever
\* half-written buckets the processes see (FTMC_SaveSSID, called again by
\* main for every request, creates a bucket when it finds none).
ServedOnlyIssued == \A p \in Procs : Admitted(p) => tag[p] \in issued

\* A request of a session none of whose requests overlapped another one is
\* served only within VALID_TIME after its session was last saved, by its
\* login or by an earlier request. (Overlapping requests may leave one
\* session's date in the bucket of another.)
IdleTimeout ==
    \A p \in Procs :
        Admitted(p) /\ cmd[p] # "login" /\ tag[p] \notin disturbed =>
            /\ 0 < lastSaved[tag[p]]
            /\ lastSaved[tag[p]] <= xTime[p]
            /\ xTime[p] <= lastSaved[tag[p]] + VALID_TIME

\* A logout is final for a session none of whose requests overlapped
\* another request: its tag is in no valid bucket and is not being saved,
\* however other sessions' requests race before and after.
LogoutIsFinal ==
    \A t \in ended :
        /\ \A i \in Buckets : ~Matches(i, t)
        /\ \A p \in Procs : Admitted(p) => tag[p] # t

-----------------------------------------------------------------------------
\* The date a bucket has, or is about to get from the process that has just
\* written its tag.
BucketDate(i) ==
    IF \E p \in Procs : pc[p] = "expiry" /\ slot[p] = i
    THEN LET p == CHOOSE p \in Procs : pc[p] = "expiry" /\ slot[p] = i
         IN  xTime[p] + nValidTime
    ELSE xExpiredDate[i]

PoolDates ==
    [t \in Tags |-> LET found == {i \in Buckets : Matches(i, t)}
                    IN  IF found = {} THEN 0
                        ELSE BucketDate(CHOOSE i \in found : TRUE)]

Table == INSTANCE SessionTable
            WITH expires <- PoolDates, Capacity <- MAX_BUCKETS

\* Without overlapping requests, FTMC_IsValidSSID, FTMC_SaveSSID and
\* FTMC_DeleteSSID implement the table: in particular a login evicts exactly
\* one session, and only from a full pool, and a request for one session
\* changes no other session that is in time.
ImplementsTable == Table!Spec
=============================================================================
