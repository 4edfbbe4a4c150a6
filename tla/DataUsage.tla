------------------------------ MODULE DataUsage ------------------------------
(***************************************************************************)
(* The count of transferred data that the device keeps over connections    *)
(* and reboots: data_dmon copies the counter of ppp0 to                    *)
(* /etc/ppp/data/curData every second, and the scripts that end a          *)
(* connection (killpppd.sh, reboot.sh, init.sh) add it to                  *)
(* /etc/ppp/data/initData. The sum is made by "expr" from whatever is in   *)
(* the two files at that moment; nothing locks them, and a shell truncates *)
(* a file before it writes it. init.sh also removes the directory of both  *)
(* files, waits, puts the firmware's files there, waits again and reboots, *)
(* with data_dmon running all the time.                                    *)
(*                                                                         *)
(* One counter stands for the two (received, sent), which are read and     *)
(* added one beside the other.                                             *)
(***************************************************************************)
EXTENDS Integers

CONSTANTS
    Scripts,  \* running scripts, each killpppd.sh, reboot.sh or init.sh
    MaxCount, \* bound: counter of one connection
    MaxTotal, \* bound: a script is not started with more than that
    MaxConn,  \* bound: connections
    MaxOffs   \* bound: restarts

ASSUME UsageAssumption ==
    /\ MaxCount \in Nat
    /\ MaxTotal \in Nat
    /\ MaxConn \in Nat
    /\ MaxOffs \in Nat

Blank == -1   \* an empty file, a word that is not there, expr without a result

VARIABLES
    link,     \* 1 while ppp0 exists
    count,    \* its counter
    conn,     \* bound and history: number of the connection
    cur,      \* contents of curData
    init,     \* contents of initData
    dir,      \* their directory: "present", "emptied" by rm, or "absent"
    dpc,      \* step of data_dmon
    data,     \* $data of data_dmon
    spc,      \* spc[s]: step of script s
    initRx,   \* initRx[s]
    sumRx,    \* sumRx[s]
    offs,     \* bound: restarts so far
    used,     \* history: data transferred since the files were last the firmware's
    dataOf,   \* history: the connection $data is about
    curOf,    \* history: the connection curData is about
    added,    \* history: connections added to the total, or older than it
    total,    \* history: sum of all that has been added
    spoilt,   \* history: the first accident that can spoil the total, or "no"
    excess    \* history: the first that can make it too high, or "no"

dmon == <<dpc, data>>
script == <<spc, initRx, sumRx>>
hist == <<used, dataOf, curOf, added, total, spoilt, excess>>
usageVars == <<link, count, conn, cur, init, dir, dpc, data, spc, initRx, sumRx, offs,
              used, dataOf, curOf, added, total, spoilt, excess>>

UsageInit ==
    /\ link = 0
    /\ count = 0
    /\ conn = 0
    /\ cur = 0
    /\ init = 0
    /\ dir = "present"
    /\ dpc = "check"
    /\ data = 0
    /\ spc = [s \in Scripts |-> "idle"]
    /\ initRx = [s \in Scripts |-> 0]
    /\ sumRx = [s \in Scripts |-> 0]
    /\ offs = 0
    /\ used = 0
    /\ dataOf = 0
    /\ curOf = 0
    /\ added = {}
    /\ total = 0
    /\ spoilt = "no"
    /\ excess = "no"

\* A history of first accidents: c, when it happens now.
First(h, c, now) == IF h = "no" /\ now THEN c ELSE h

-----------------------------------------------------------------------------
\* pppd: connections come and go, and every one counts from 0.
LinkUp ==
    /\ link = 0
    /\ conn < MaxConn
    /\ conn' = conn + 1
    /\ link' = 1
    /\ count' = 0
    /\ UNCHANGED <<cur, init, dir, dmon, script, offs, hist>>

Traffic ==
    /\ link = 1
    /\ count < MaxCount
    /\ count' = count + 1
    /\ used' = used + 1
    /\ UNCHANGED <<link, conn, cur, init, dir, dmon, script, offs, dataOf, curOf, added, total,
                   spoilt, excess>>

LinkDown ==
    /\ link = 1
    /\ link' = 0
    /\ count' = 0
    /\ UNCHANGED <<conn, cur, init, dir, dmon, script, offs, hist>>

-----------------------------------------------------------------------------
(***************************************************************************)
(* data_dmon                                                               *)
(***************************************************************************)
IsPppConnected ==
    /\ dpc = "check"
    /\ link = 1
    /\ dpc' = "get"
    /\ UNCHANGED <<link, count, conn, cur, init, dir, data, script, offs, hist>>

\* Mutant: the wrong field of ifconfig.
GetRxTxWrong ==
    /\ dpc = "get"
    /\ dpc' = "truncate"
    /\ data' = IF link = 1 THEN MaxCount ELSE Blank
    /\ dataOf' = conn
    /\ spoilt' = First(spoilt, "gone", link = 0)
    /\ UNCHANGED <<link, count, conn, cur, init, dir, script, offs, used, curOf, added, total,
                   excess>>

\* ifconfig ppp0: no words at all when the connection has gone.
GetRxTx ==
    /\ dpc = "get"
    /\ dpc' = "truncate"
    /\ data' = IF link = 1 THEN count ELSE Blank
    /\ dataOf' = conn
    /\ spoilt' = First(spoilt, "gone", link = 0)
    /\ UNCHANGED <<link, count, conn, cur, init, dir, script, offs, used, curOf, added, total,
                   excess>>

\* echo $data > curData: the shell opens the file, new or emptied, and says
\* that it cannot when the directory is missing.
TruncateCur ==
    /\ dpc = "truncate"
    /\ dir # "absent"
    /\ dpc' = "write"
    /\ cur' = Blank
    /\ dir' = "present"
    /\ UNCHANGED <<link, count, conn, init, data, script, offs, hist>>

CurNotOpened ==
    /\ dpc = "truncate"
    /\ dir = "absent"
    /\ dpc' = "check"
    /\ data' = 0
    /\ dataOf' = 0
    /\ UNCHANGED <<link, count, conn, cur, init, dir, script, offs, used, curOf, added, total,
                   spoilt, excess>>

\* What is written to a file that has been removed in the meantime is lost.
WriteCur ==
    /\ dpc \in {"write", "lost"}
    /\ dpc' = "check"
    /\ cur' = IF dpc = "write" THEN data ELSE cur
    /\ curOf' = IF dpc = "write" THEN dataOf ELSE curOf
    /\ data' = 0
    /\ dataOf' = 0
    /\ UNCHANGED <<link, count, conn, init, dir, script, offs, used, added, total, spoilt, excess>>

-----------------------------------------------------------------------------
(***************************************************************************)
(* The sum, as in killpppd.sh, reboot.sh and init.sh                       *)
(***************************************************************************)
Begin(s) ==
    /\ spc[s] = "idle"
    /\ init <= MaxTotal /\ total <= MaxTotal
    /\ spc' = [spc EXCEPT ![s] = "readCur"]
    /\ initRx' = [initRx EXCEPT ![s] = init]
    /\ spoilt' = First(spoilt, "overlap", \E t \in Scripts : spc[t] # "idle")
    /\ UNCHANGED <<link, count, conn, cur, init, dir, dmon, sumRx, offs, used, dataOf, curOf,
                   added, total, excess>>

\* Mutant: the total is only what this connection has transferred.
ExprOfCur(a, b) == IF a = Blank \/ b = Blank THEN Blank ELSE b

\* expr prints nothing unless both numbers are there.
Expr(a, b) == IF a = Blank \/ b = Blank THEN Blank ELSE a + b

ReadCur(s) ==
    /\ spc[s] = "readCur"
    /\ spc' = [spc EXCEPT ![s] = "truncate"]
    /\ sumRx' = [sumRx EXCEPT ![s] = Expr(initRx[s], cur)]
    /\ initRx' = [initRx EXCEPT ![s] = 0]
    /\ added' = added \cup {curOf}
    /\ total' = IF Blank \in {total, cur} THEN Blank ELSE total + cur
    /\ spoilt' = First(spoilt, "torn", dpc = "write")
    /\ excess' = First(excess, "again", curOf \in added)
    /\ UNCHANGED <<link, count, conn, cur, init, dir, dmon, offs, used, dataOf, curOf>>

\* echo $sumRx $sumTx > initData
TruncateInit(s) ==
    /\ spc[s] = "truncate"
    /\ dir # "absent"
    /\ spc' = [spc EXCEPT ![s] = "write"]
    /\ init' = Blank
    /\ dir' = "present"
    /\ UNCHANGED <<link, count, conn, cur, dmon, initRx, sumRx, offs, hist>>

InitNotOpened(s) ==
    /\ spc[s] = "truncate"
    /\ dir = "absent"
    /\ spc' = [spc EXCEPT ![s] = "end"]
    /\ sumRx' = [sumRx EXCEPT ![s] = 0]
    /\ UNCHANGED <<link, count, conn, cur, init, dir, dmon, initRx, offs, hist>>

WriteInit(s) ==
    /\ spc[s] \in {"write", "lost"}
    /\ spc' = [spc EXCEPT ![s] = "end"]
    /\ init' = IF spc[s] = "write" THEN sumRx[s] ELSE init
    /\ sumRx' = [sumRx EXCEPT ![s] = 0]
    /\ UNCHANGED <<link, count, conn, cur, dir, dmon, initRx, offs, hist>>

\* killpppd.sh: killall pppd
EndKill(s) ==
    /\ spc[s] = "end"
    /\ spc' = [spc EXCEPT ![s] = "idle"]
    /\ link' = 0
    /\ count' = 0
    /\ UNCHANGED <<conn, cur, init, dir, dmon, initRx, sumRx, offs, hist>>

-----------------------------------------------------------------------------
\* The files of the firmware, copied to where there were none: the total
\* starts again, and all connections so far are older than it.
FirmwareFiles ==
    /\ dir' = "present"
    /\ cur' = 0
    /\ init' = 0
    /\ used' = 0
    /\ curOf' = 0
    /\ added' = 1..conn
    /\ total' = 0

\* A restart: the files are as they are on the flash, and rc.sysinit copies
\* the firmware's when their directory is missing.
Restart ==
    /\ offs < MaxOffs
    /\ offs' = offs + 1
    /\ link' = 0
    /\ count' = 0
    /\ dpc' = "check"
    /\ data' = 0
    /\ dataOf' = 0
    /\ spc' = [s \in Scripts |-> "idle"]
    /\ initRx' = [s \in Scripts |-> 0]
    /\ sumRx' = [s \in Scripts |-> 0]
    /\ spoilt' = First(spoilt, "cut",
          dpc = "write" \/ \E s \in Scripts : spc[s] \in {"truncate", "write", "rmdir"})
    /\ \/ dir = "absent" /\ FirmwareFiles
       \/ dir # "absent" /\ UNCHANGED <<cur, init, dir, used, curOf, added, total>>
    /\ UNCHANGED <<conn, excess>>

\* reboot.sh: AT#SHDN, 5 s of sleep, sync, reboot
EndReboot(s) == spc[s] = "end" /\ Restart

PowerCut == Restart

(***************************************************************************)
(* The rest of init.sh. rm -rf unlinks the two files and then removes the  *)
(* directory unless a file has appeared in it.                             *)
(***************************************************************************)
InitRemove(s) ==
    /\ spc[s] = "end"
    /\ spc' = [t \in Scripts |-> IF t = s THEN "rmdir"
                                 ELSE IF spc[t] = "write" THEN "lost" ELSE spc[t]]
    /\ sumRx' = [t \in Scripts |-> IF spc[t] = "write" THEN 0 ELSE sumRx[t]]
    /\ dpc' = IF dpc = "write" THEN "lost" ELSE dpc
    /\ dir' = IF dir = "absent" THEN "absent" ELSE "emptied"
    /\ cur' = Blank
    /\ init' = Blank
    /\ total' = Blank
    /\ UNCHANGED <<link, count, conn, data, initRx, offs, used, dataOf, curOf, added, spoilt, excess>>

InitRmdir(s) ==
    /\ spc[s] = "rmdir"
    /\ spc' = [spc EXCEPT ![s] = "copy"]
    /\ dir' = IF dir = "emptied" THEN "absent" ELSE dir
    /\ spoilt' = First(spoilt, "astray", dir = "present")
    /\ UNCHANGED <<link, count, conn, cur, init, dmon, initRx, sumRx, offs, used, dataOf,
                   curOf, added, total, excess>>

\* cp -r /etc.init /mnt/mtd/etc, to another place when there still is a
\* directory. A script that has read the old files will write their total.
InitCopy(s) ==
    /\ spc[s] = "copy"
    /\ spc' = [spc EXCEPT ![s] = "reboot"]
    /\ \/ /\ dir = "absent"
          /\ FirmwareFiles
          /\ excess' = First(excess, "carried",
                \E t \in Scripts : spc[t] \in {"readCur", "truncate", "write"})
       \/ /\ dir # "absent"
          /\ UNCHANGED <<cur, init, dir, used, curOf, added, total, excess>>
    /\ UNCHANGED <<link, count, conn, dmon, initRx, sumRx, offs, dataOf, spoilt>>

\* sync; reboot, with whatever has been written since the copy.
InitReboot(s) == spc[s] = "reboot" /\ Restart

DmonStep == IsPppConnected \/ GetRxTx \/ TruncateCur \/ CurNotOpened \/ WriteCur

ScriptStep(s) ==
    \/ Begin(s) \/ ReadCur(s) \/ TruncateInit(s) \/ InitNotOpened(s) \/ WriteInit(s)
    \/ EndKill(s) \/ EndReboot(s)
    \/ InitRemove(s) \/ InitRmdir(s) \/ InitCopy(s) \/ InitReboot(s)

UsageNext ==
    \/ LinkUp \/ Traffic \/ LinkDown \/ DmonStep \/ PowerCut
    \/ \E s \in Scripts : ScriptStep(s)

UsageSpec == UsageInit /\ [][UsageNext]_usageVars

-----------------------------------------------------------------------------
\* There is a total, and it is the sum of all that has been added since the
\* files were the firmware's, also over restarts (killpppd.sh, reboot.sh,
\* init.sh). It is lost, or an addition to it is, only when a connection went
\* away between data_dmon's look at /proc/net/dev and at ifconfig, when a
\* script read curData while it was being written, when two scripts ran at
\* once, when the power failed during a write or a removal, or when data_dmon
\* wrote curData between init.sh's removal of the file and of the directory.
TotalIsSum ==
    /\ spoilt = "no"
    /\ \A s \in Scripts : spc[s] \notin {"truncate", "write", "rmdir", "copy"}
    => init = total /\ init # Blank

\* The total never tells more than has been transferred since the firmware's
\* files were put in place, unless a connection was added twice or one from
\* before the reset was added after it ("again": killpppd.sh and the others
\* add curData, which nobody sets back, and data_dmon goes on writing it
\* between init.sh's cp -r and reboot), or a script that had read the old
\* total before the reset wrote it back after it ("carried").
NoOvercount ==
    excess = "no" => init <= used

=============================================================================
