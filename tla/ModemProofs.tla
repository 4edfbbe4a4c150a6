----------------------------- MODULE ModemProofs ----------------------------
(***************************************************************************)
(* Proofs about the programs around the modem: the data counters, the      *)
(* connection monitor and the configuration by text message. The three are *)
(* independent of each other.                                              *)
(***************************************************************************)
EXTENDS DataUsage, PppMonitor, SmsConfig, TLAPS

USE ZenonT(30)

-----------------------------------------------------------------------------
(***************************************************************************)
(* The data counters, for any number of scripts and any bounds.            *)
(***************************************************************************)
Num == Nat \cup {Blank}

\* Types of all variables.
UsageTypeOK ==
    /\ link \in {0, 1}
    /\ count \in Nat
    /\ conn \in Nat
    /\ cur \in Num
    /\ init \in Num
    /\ dir \in {"present", "emptied", "absent"}
    /\ dpc \in {"check", "get", "truncate", "write", "lost"}
    /\ data \in Num
    /\ spc \in [Scripts -> {"idle", "readCur", "truncate", "write", "lost", "end", "rmdir",
                           "copy", "reboot"}]
    /\ initRx \in [Scripts -> Num]
    /\ sumRx \in [Scripts -> Num]
    /\ used \in Nat
    /\ dataOf \in Nat
    /\ curOf \in Nat
    /\ total \in Num

\* A script has a number in hand only between the steps that need it.
HandInv ==
    \A s \in Scripts :
        /\ spc[s] # "readCur" => initRx[s] = 0
        /\ spc[s] \notin {"truncate", "write"} => sumRx[s] = 0

\* Without the accidents that TotalIsSum excludes: one script runs at a time,
\* it has the total in hand while the file has not, and no number is missing
\* but while init.sh stands between rm -rf and cp -r.
Resetting == \E s \in Scripts : spc[s] \in {"rmdir", "copy"}
SumInv ==
    spoilt = "no" =>
        /\ data # Blank
        /\ total # Blank \/ Resetting
        /\ cur # Blank \/ dpc = "write" \/ Resetting
        /\ dir = "present" \/ Resetting
        /\ \A s, t \in Scripts : spc[s] # "idle" /\ spc[t] # "idle" => s = t
        /\ \A s \in Scripts :
              /\ spc[s] = "readCur" => initRx[s] = total
              /\ spc[s] \in {"truncate", "write"} => sumRx[s] = total
              /\ spc[s] = "copy" => dir = "absent"
              /\ spc[s] # "lost"
        /\ (\A s \in Scripts : spc[s] \notin {"truncate", "write", "rmdir", "copy"}) =>
              init = total

\* What is known of connections that have not been added yet: the counter of
\* the present one, $data and curData, one number for each connection.
Pos(n) == IF n = Blank THEN 0 ELSE n
Present == IF link = 1 /\ conn \notin added THEN count ELSE 0
InData ==
    IF dataOf \notin added /\ ~(link = 1 /\ dataOf = conn) THEN Pos(data) ELSE 0
InCur ==
    IF curOf \notin added /\ ~(link = 1 /\ curOf = conn) /\ ~(dataOf = curOf /\ data # Blank)
    THEN Pos(cur) ELSE 0
Pending == Present + InData + InCur

\* The histories fit the numbers: a later look at a connection sees no less.
ConnInv ==
    /\ added \subseteq 0..conn
    /\ dataOf <= conn
    /\ curOf <= conn
    /\ link = 1 => conn > 0
    /\ dataOf = 0 => data <= 0
    /\ curOf = 0 => cur <= 0
    /\ link = 1 /\ dataOf = conn => data <= count
    /\ link = 1 /\ curOf = conn => cur <= count
    /\ dataOf = curOf /\ data # Blank => cur <= data

\* Every number a script has, and the file, leaves room for what is pending.
RoomInv ==
    excess = "no" =>
        /\ Pending <= used
        /\ init + Pending <= used
        /\ \A s \in Scripts : initRx[s] + Pending <= used /\ sumRx[s] + Pending <= used

UsageInv == UsageTypeOK /\ HandInv /\ SumInv /\ ConnInv /\ RoomInv

-----------------------------------------------------------------------------
\* Every step keeps the types.
LEMMA UsageTypeNext ==
    ASSUME UsageTypeOK, [UsageNext]_usageVars PROVE UsageTypeOK'
<1>1. CASE LinkUp
  BY <1>1, SMTT(30) DEF LinkUp, dmon, script, hist, UsageTypeOK, Num, Blank
<1>2. CASE Traffic
  BY <1>2, SMTT(30) DEF Traffic, dmon, script, UsageTypeOK, Num, Blank
<1>3. CASE LinkDown
  BY <1>3 DEF LinkDown, dmon, script, hist, UsageTypeOK, Num, Blank
<1>4. CASE IsPppConnected
  BY <1>4 DEF IsPppConnected, script, hist, UsageTypeOK, Num, Blank
<1>5. CASE GetRxTx
  BY <1>5 DEF GetRxTx, First, script, UsageTypeOK, Num, Blank
<1>6. CASE TruncateCur
  BY <1>6 DEF TruncateCur, script, hist, UsageTypeOK, Num, Blank
<1>7. CASE CurNotOpened
  BY <1>7 DEF CurNotOpened, script, UsageTypeOK, Num, Blank
<1>8. CASE WriteCur
  BY <1>8 DEF WriteCur, script, UsageTypeOK, Num, Blank
<1>9. CASE Restart
  BY <1>9, SMTT(30) DEF Restart, FirmwareFiles, First, UsageTypeOK, Num, Blank
<1>10. ASSUME NEW s \in Scripts, Begin(s) PROVE UsageTypeOK'
  BY <1>10 DEF Begin, First, dmon, UsageTypeOK, Num, Blank
<1>11. ASSUME NEW s \in Scripts, ReadCur(s) PROVE UsageTypeOK'
  BY <1>11, SMTT(30) DEF ReadCur, First, Expr, dmon, UsageTypeOK, Num, Blank
<1>12. ASSUME NEW s \in Scripts, TruncateInit(s) PROVE UsageTypeOK'
  BY <1>12 DEF TruncateInit, dmon, hist, UsageTypeOK, Num, Blank
<1>13. ASSUME NEW s \in Scripts, InitNotOpened(s) PROVE UsageTypeOK'
  BY <1>13 DEF InitNotOpened, dmon, hist, UsageTypeOK, Num, Blank
<1>14. ASSUME NEW s \in Scripts, WriteInit(s) PROVE UsageTypeOK'
  BY <1>14 DEF WriteInit, dmon, hist, UsageTypeOK, Num, Blank
<1>15. ASSUME NEW s \in Scripts, EndKill(s) PROVE UsageTypeOK'
  BY <1>15 DEF EndKill, dmon, hist, UsageTypeOK, Num, Blank
<1>16. ASSUME NEW s \in Scripts, InitRemove(s) PROVE UsageTypeOK'
  BY <1>16 DEF InitRemove, UsageTypeOK, Num, Blank
<1>17. ASSUME NEW s \in Scripts, InitRmdir(s) PROVE UsageTypeOK'
  BY <1>17 DEF InitRmdir, First, dmon, UsageTypeOK, Num, Blank
<1>18. ASSUME NEW s \in Scripts, InitCopy(s) PROVE UsageTypeOK'
  BY <1>18, SMTT(30) DEF InitCopy, FirmwareFiles, First, dmon, UsageTypeOK, Num, Blank
<1>19. CASE UNCHANGED usageVars
  BY <1>19 DEF usageVars, UsageTypeOK, Num, Blank
<1> QED
BY <1>1, <1>2, <1>3, <1>4, <1>5, <1>6, <1>7, <1>8, <1>9, <1>10, <1>11, <1>12, <1>13, <1>14,
     <1>15, <1>16, <1>17, <1>18, <1>19
  DEF UsageNext, DmonStep, ScriptStep, PowerCut, EndReboot, InitReboot

\* Every step keeps HandInv.
LEMMA HandNext ==
    ASSUME UsageTypeOK, HandInv, [UsageNext]_usageVars PROVE HandInv'
<1>1. CASE LinkUp
  BY <1>1 DEF LinkUp, dmon, script, hist, UsageTypeOK, HandInv
<1>2. CASE Traffic
  BY <1>2 DEF Traffic, dmon, script, UsageTypeOK, HandInv
<1>3. CASE LinkDown
  BY <1>3 DEF LinkDown, dmon, script, hist, UsageTypeOK, HandInv
<1>4. CASE IsPppConnected
  BY <1>4 DEF IsPppConnected, script, hist, UsageTypeOK, HandInv
<1>5. CASE GetRxTx
  BY <1>5 DEF GetRxTx, First, script, UsageTypeOK, HandInv
<1>6. CASE TruncateCur
  BY <1>6 DEF TruncateCur, script, hist, UsageTypeOK, HandInv
<1>7. CASE CurNotOpened
  BY <1>7 DEF CurNotOpened, script, UsageTypeOK, HandInv
<1>8. CASE WriteCur
  BY <1>8 DEF WriteCur, script, UsageTypeOK, HandInv
<1>9. CASE Restart
  BY <1>9 DEF Restart, FirmwareFiles, First, UsageTypeOK, HandInv
<1>10. ASSUME NEW s \in Scripts, Begin(s) PROVE HandInv'
  BY <1>10 DEF Begin, First, dmon, UsageTypeOK, HandInv
<1>11. ASSUME NEW s \in Scripts, ReadCur(s) PROVE HandInv'
  BY <1>11 DEF ReadCur, First, Expr, dmon, UsageTypeOK, HandInv
<1>12. ASSUME NEW s \in Scripts, TruncateInit(s) PROVE HandInv'
  BY <1>12 DEF TruncateInit, dmon, hist, UsageTypeOK, HandInv
<1>13. ASSUME NEW s \in Scripts, InitNotOpened(s) PROVE HandInv'
  BY <1>13 DEF InitNotOpened, dmon, hist, UsageTypeOK, HandInv
<1>14. ASSUME NEW s \in Scripts, WriteInit(s) PROVE HandInv'
  BY <1>14 DEF WriteInit, dmon, hist, UsageTypeOK, HandInv
<1>15. ASSUME NEW s \in Scripts, EndKill(s) PROVE HandInv'
  BY <1>15 DEF EndKill, dmon, hist, UsageTypeOK, HandInv
<1>16. ASSUME NEW s \in Scripts, InitRemove(s) PROVE HandInv'
  BY <1>16 DEF InitRemove, UsageTypeOK, HandInv
<1>17. ASSUME NEW s \in Scripts, InitRmdir(s) PROVE HandInv'
  BY <1>17 DEF InitRmdir, First, dmon, UsageTypeOK, HandInv
<1>18. ASSUME NEW s \in Scripts, InitCopy(s) PROVE HandInv'
  BY <1>18 DEF InitCopy, FirmwareFiles, First, dmon, UsageTypeOK, HandInv
<1>19. CASE UNCHANGED usageVars
  BY <1>19 DEF usageVars, UsageTypeOK, HandInv
<1> QED
BY <1>1, <1>2, <1>3, <1>4, <1>5, <1>6, <1>7, <1>8, <1>9, <1>10, <1>11, <1>12, <1>13, <1>14,
     <1>15, <1>16, <1>17, <1>18, <1>19
  DEF UsageNext, DmonStep, ScriptStep, PowerCut, EndReboot, InitReboot

\* Every step keeps SumInv.
LEMMA SumNext ==
    ASSUME UsageTypeOK, SumInv, [UsageNext]_usageVars PROVE SumInv'
<1>1. CASE LinkUp
  BY <1>1 DEF LinkUp, dmon, script, hist, UsageTypeOK, Num, Blank, SumInv, Resetting
<1>2. CASE Traffic
  BY <1>2 DEF Traffic, dmon, script, UsageTypeOK, Num, Blank, SumInv, Resetting
<1>3. CASE LinkDown
  BY <1>3 DEF LinkDown, dmon, script, hist, UsageTypeOK, Num, Blank, SumInv, Resetting
<1>4. CASE IsPppConnected
  BY <1>4 DEF IsPppConnected, script, hist, UsageTypeOK, Num, Blank, SumInv, Resetting
<1>5. CASE GetRxTx
  BY <1>5, SMTT(30) DEF GetRxTx, First, script, UsageTypeOK, Num, Blank, SumInv, Resetting
<1>6. CASE TruncateCur
  BY <1>6 DEF TruncateCur, script, hist, UsageTypeOK, Num, Blank, SumInv, Resetting
<1>7. CASE CurNotOpened
  BY <1>7, SMTT(30) DEF CurNotOpened, script, UsageTypeOK, Num, Blank, SumInv, Resetting
<1>8. CASE WriteCur
  BY <1>8, SMTT(30) DEF WriteCur, script, UsageTypeOK, Num, Blank, SumInv, Resetting
<1>9. CASE Restart
BY <1>9, SMTT(30) DEF Restart, FirmwareFiles, First, UsageTypeOK, Num, Blank, SumInv,
     Resetting
<1>10. ASSUME NEW s \in Scripts, Begin(s) PROVE SumInv'
  BY <1>10 DEF Begin, First, dmon, UsageTypeOK, Num, Blank, SumInv, Resetting
<1>11. ASSUME NEW s \in Scripts, ReadCur(s) PROVE SumInv'
  BY <1>11, SMTT(30) DEF ReadCur, First, Expr, dmon, UsageTypeOK, Num, Blank, SumInv, Resetting
<1>12. ASSUME NEW s \in Scripts, TruncateInit(s) PROVE SumInv'
  BY <1>12 DEF TruncateInit, dmon, hist, UsageTypeOK, Num, Blank, SumInv, Resetting
<1>13. ASSUME NEW s \in Scripts, InitNotOpened(s) PROVE SumInv'
  BY <1>13 DEF InitNotOpened, dmon, hist, UsageTypeOK, Num, Blank, SumInv, Resetting
<1>14. ASSUME NEW s \in Scripts, WriteInit(s) PROVE SumInv'
  BY <1>14 DEF WriteInit, dmon, hist, UsageTypeOK, Num, Blank, SumInv, Resetting
<1>15. ASSUME NEW s \in Scripts, EndKill(s) PROVE SumInv'
  BY <1>15 DEF EndKill, dmon, hist, UsageTypeOK, Num, Blank, SumInv, Resetting
<1>16. ASSUME NEW s \in Scripts, InitRemove(s) PROVE SumInv'
  BY <1>16 DEF InitRemove, UsageTypeOK, Num, Blank, SumInv, Resetting
<1>17. ASSUME NEW s \in Scripts, InitRmdir(s) PROVE SumInv'
  BY <1>17 DEF InitRmdir, First, dmon, UsageTypeOK, Num, Blank, SumInv, Resetting
<1>18. ASSUME NEW s \in Scripts, InitCopy(s) PROVE SumInv'
BY <1>18, SMTT(30) DEF InitCopy, FirmwareFiles, First, dmon, UsageTypeOK, Num, Blank, SumInv,
     Resetting
<1>19. CASE UNCHANGED usageVars
  BY <1>19 DEF usageVars, UsageTypeOK, Num, Blank, SumInv, Resetting
<1> QED
BY <1>1, <1>2, <1>3, <1>4, <1>5, <1>6, <1>7, <1>8, <1>9, <1>10, <1>11, <1>12, <1>13, <1>14,
     <1>15, <1>16, <1>17, <1>18, <1>19
  DEF UsageNext, DmonStep, ScriptStep, PowerCut, EndReboot, InitReboot

\* Every step keeps ConnInv.
LEMMA ConnNext ==
    ASSUME UsageTypeOK, ConnInv, [UsageNext]_usageVars PROVE ConnInv'
<1>1. CASE LinkUp
  BY <1>1, SMTT(30) DEF LinkUp, dmon, script, hist, UsageTypeOK, Num, Blank, ConnInv
<1>2. CASE Traffic
  BY <1>2, SMTT(30) DEF Traffic, dmon, script, UsageTypeOK, Num, Blank, ConnInv
<1>3. CASE LinkDown
  BY <1>3, SMTT(30) DEF LinkDown, dmon, script, hist, UsageTypeOK, Num, Blank, ConnInv
<1>4. CASE IsPppConnected
  BY <1>4 DEF IsPppConnected, script, hist, UsageTypeOK, Num, Blank, ConnInv
<1>5. CASE GetRxTx
  BY <1>5, SMTT(30) DEF GetRxTx, First, script, UsageTypeOK, Num, Blank, ConnInv
<1>6. CASE TruncateCur
  BY <1>6, SMTT(30) DEF TruncateCur, script, hist, UsageTypeOK, Num, Blank, ConnInv
<1>7. CASE CurNotOpened
  BY <1>7, SMTT(30) DEF CurNotOpened, script, UsageTypeOK, Num, Blank, ConnInv
<1>8. CASE WriteCur
  BY <1>8, SMTT(30) DEF WriteCur, script, UsageTypeOK, Num, Blank, ConnInv
<1>9. CASE Restart
  <2>1. added' \subseteq 0..conn'
    <3>1. conn' = conn /\ added' \in {added, 1..conn}
      BY <1>9 DEF Restart, FirmwareFiles
    <3>2. 1..conn \subseteq 0..conn
      BY SMTT(30) DEF UsageTypeOK
    <3> QED
      BY <3>1, <3>2 DEF ConnInv
  <2> QED
    BY <1>9, <2>1, SMTT(30) DEF Restart, FirmwareFiles, UsageTypeOK, Num, Blank, ConnInv
<1>10. ASSUME NEW s \in Scripts, Begin(s) PROVE ConnInv'
  BY <1>10 DEF Begin, First, dmon, UsageTypeOK, Num, Blank, ConnInv
<1>11. ASSUME NEW s \in Scripts, ReadCur(s) PROVE ConnInv'
  BY <1>11, SMTT(30) DEF ReadCur, First, Expr, dmon, UsageTypeOK, Num, Blank, ConnInv
<1>12. ASSUME NEW s \in Scripts, TruncateInit(s) PROVE ConnInv'
  BY <1>12 DEF TruncateInit, dmon, hist, UsageTypeOK, Num, Blank, ConnInv
<1>13. ASSUME NEW s \in Scripts, InitNotOpened(s) PROVE ConnInv'
  BY <1>13 DEF InitNotOpened, dmon, hist, UsageTypeOK, Num, Blank, ConnInv
<1>14. ASSUME NEW s \in Scripts, WriteInit(s) PROVE ConnInv'
  BY <1>14 DEF WriteInit, dmon, hist, UsageTypeOK, Num, Blank, ConnInv
<1>15. ASSUME NEW s \in Scripts, EndKill(s) PROVE ConnInv'
  BY <1>15, SMTT(30) DEF EndKill, dmon, hist, UsageTypeOK, Num, Blank, ConnInv
<1>16. ASSUME NEW s \in Scripts, InitRemove(s) PROVE ConnInv'
  BY <1>16, SMTT(30) DEF InitRemove, UsageTypeOK, Num, Blank, ConnInv
<1>17. ASSUME NEW s \in Scripts, InitRmdir(s) PROVE ConnInv'
  BY <1>17 DEF InitRmdir, First, dmon, UsageTypeOK, Num, Blank, ConnInv
<1>18. ASSUME NEW s \in Scripts, InitCopy(s) PROVE ConnInv'
  <2>1. CASE dir = "absent"
    <3>1. added' \subseteq 0..conn' /\ curOf' = 0 /\ cur' = 0
      BY <1>18, <2>1, SMTT(30) DEF InitCopy, FirmwareFiles, UsageTypeOK
    <3> QED
      BY <1>18, <3>1, SMTT(30) DEF InitCopy, UsageTypeOK, Num, Blank, dmon, ConnInv
  <2>2. CASE dir # "absent"
    BY <1>18, <2>2 DEF InitCopy, dmon, ConnInv
  <2> QED
    BY <2>1, <2>2
<1>19. CASE UNCHANGED usageVars
  BY <1>19 DEF usageVars, UsageTypeOK, Num, Blank, ConnInv
<1> QED
BY <1>1, <1>2, <1>3, <1>4, <1>5, <1>6, <1>7, <1>8, <1>9, <1>10, <1>11, <1>12, <1>13, <1>14,
     <1>15, <1>16, <1>17, <1>18, <1>19
  DEF UsageNext, DmonStep, ScriptStep, PowerCut, EndReboot, InitReboot

\* Every step keeps RoomInv.
LEMMA RoomNext ==
    ASSUME UsageTypeOK, HandInv, ConnInv, RoomInv, [UsageNext]_usageVars PROVE RoomInv'
<1>1. CASE LinkUp
BY <1>1, SMTT(30) DEF LinkUp, dmon, script, hist, UsageTypeOK, Num, Blank, HandInv, ConnInv,
     RoomInv, Pending, Present, InData, InCur, Pos
<1>2. CASE Traffic
BY <1>2, SMTT(30) DEF Traffic, dmon, script, UsageTypeOK, Num, Blank, HandInv, ConnInv,
     RoomInv, Pending, Present, InData, InCur, Pos
<1>3. CASE LinkDown
BY <1>3, SMTT(30) DEF LinkDown, dmon, script, hist, UsageTypeOK, Num, Blank, HandInv, ConnInv,
     RoomInv, Pending, Present, InData, InCur, Pos
<1>4. CASE IsPppConnected
BY <1>4 DEF IsPppConnected, script, hist, UsageTypeOK, Num, Blank, HandInv, ConnInv, RoomInv,
     Pending, Present, InData, InCur, Pos
<1>5. CASE GetRxTx
BY <1>5, SMTT(30) DEF GetRxTx, First, script, UsageTypeOK, Num, Blank, HandInv, ConnInv,
     RoomInv, Pending, Present, InData, InCur, Pos
<1>6. CASE TruncateCur
BY <1>6, SMTT(30) DEF TruncateCur, script, hist, UsageTypeOK, Num, Blank, HandInv, ConnInv,
     RoomInv, Pending, Present, InData, InCur, Pos
<1>7. CASE CurNotOpened
BY <1>7, SMTT(30) DEF CurNotOpened, script, UsageTypeOK, Num, Blank, HandInv, ConnInv,
     RoomInv, Pending, Present, InData, InCur, Pos
<1>8. CASE WriteCur
BY <1>8, SMTT(30) DEF WriteCur, script, UsageTypeOK, Num, Blank, HandInv, ConnInv, RoomInv,
     Pending, Present, InData, InCur, Pos
<1>9. CASE Restart
BY <1>9, SMTT(30) DEF Restart, FirmwareFiles, First, UsageTypeOK, Num, Blank, HandInv,
     ConnInv, RoomInv, Pending, Present, InData, InCur, Pos
<1>10. ASSUME NEW s \in Scripts, Begin(s) PROVE RoomInv'
BY <1>10 DEF Begin, First, dmon, UsageTypeOK, Num, Blank, HandInv, ConnInv, RoomInv, Pending,
     Present, InData, InCur, Pos
<1>11. ASSUME NEW s \in Scripts, ReadCur(s) PROVE RoomInv'
BY <1>11, SMTT(30) DEF ReadCur, First, Expr, dmon, UsageTypeOK, Num, Blank, HandInv, ConnInv,
     RoomInv, Pending, Present, InData, InCur, Pos
<1>12. ASSUME NEW s \in Scripts, TruncateInit(s) PROVE RoomInv'
BY <1>12, SMTT(30) DEF TruncateInit, dmon, hist, UsageTypeOK, Num, Blank, HandInv, ConnInv,
     RoomInv, Pending, Present, InData, InCur, Pos
<1>13. ASSUME NEW s \in Scripts, InitNotOpened(s) PROVE RoomInv'
BY <1>13, SMTT(30) DEF InitNotOpened, dmon, hist, UsageTypeOK, Num, Blank, HandInv, ConnInv,
     RoomInv, Pending, Present, InData, InCur, Pos
<1>14. ASSUME NEW s \in Scripts, WriteInit(s) PROVE RoomInv'
BY <1>14 DEF WriteInit, dmon, hist, UsageTypeOK, Num, Blank, HandInv, ConnInv, RoomInv,
     Pending, Present, InData, InCur, Pos
<1>15. ASSUME NEW s \in Scripts, EndKill(s) PROVE RoomInv'
BY <1>15, SMTT(30) DEF EndKill, dmon, hist, UsageTypeOK, Num, Blank, HandInv, ConnInv,
     RoomInv, Pending, Present, InData, InCur, Pos
<1>16. ASSUME NEW s \in Scripts, InitRemove(s) PROVE RoomInv'
BY <1>16, SMTT(30) DEF InitRemove, UsageTypeOK, Num, Blank, HandInv, ConnInv, RoomInv,
     Pending, Present, InData, InCur, Pos
<1>17. ASSUME NEW s \in Scripts, InitRmdir(s) PROVE RoomInv'
BY <1>17 DEF InitRmdir, First, dmon, UsageTypeOK, Num, Blank, HandInv, ConnInv, RoomInv,
     Pending, Present, InData, InCur, Pos
<1>18. ASSUME NEW s \in Scripts, InitCopy(s) PROVE RoomInv'
  <2>1. CASE dir = "absent"
    <3> SUFFICES ASSUME excess' = "no"
                 PROVE  /\ Pending' = 0
                        /\ \A t \in Scripts : initRx[t] = 0 /\ sumRx[t] = 0
      BY <1>18, <2>1, SMTT(30) DEF InitCopy, FirmwareFiles, UsageTypeOK, RoomInv
    <3>1. Present' = 0
      BY <1>18, <2>1, SMTT(30) DEF InitCopy, FirmwareFiles, UsageTypeOK, ConnInv, Present
    <3>2. InData' = 0
      BY <1>18, <2>1, SMTT(30)
      DEF InitCopy, FirmwareFiles, dmon, UsageTypeOK, Num, Blank, ConnInv, InData, Pos
    <3>3. InCur' = 0
      BY <1>18, <2>1, SMTT(30) DEF InitCopy, FirmwareFiles, Blank, InCur, Pos
    <3>4. \A t \in Scripts : initRx[t] = 0 /\ sumRx[t] = 0
      BY <1>18, <2>1 DEF InitCopy, First, HandInv
    <3> QED
      BY <3>1, <3>2, <3>3, <3>4, SMTT(30) DEF Pending
  <2>2. CASE dir # "absent"
    <3>1. UNCHANGED <<link, count, conn, cur, init, data, dataOf, curOf, added>>
      BY <1>18, <2>2 DEF InitCopy, dmon
    <3>2. Pending' = Pending
      BY <3>1 DEF Pending, Present, InData, InCur, Pos, Blank
    <3>3. UNCHANGED <<init, initRx, sumRx, used, excess>>
      BY <1>18, <2>2 DEF InitCopy
    <3> QED
      BY <3>2, <3>3, SMTT(30) DEF RoomInv
  <2> QED
    BY <2>1, <2>2
<1>19. CASE UNCHANGED usageVars
BY <1>19 DEF usageVars, UsageTypeOK, Num, Blank, HandInv, ConnInv, RoomInv, Pending, Present,
     InData, InCur, Pos
<1> QED
BY <1>1, <1>2, <1>3, <1>4, <1>5, <1>6, <1>7, <1>8, <1>9, <1>10, <1>11, <1>12, <1>13, <1>14,
     <1>15, <1>16, <1>17, <1>18, <1>19
  DEF UsageNext, DmonStep, ScriptStep, PowerCut, EndReboot, InitReboot

\* UsageInv is an invariant.
LEMMA UsageInvariant == UsageSpec => []UsageInv
<1>1. UsageInit => UsageInv
  BY SMTT(30)
  DEF UsageInit, UsageInv, UsageTypeOK, HandInv, SumInv, Resetting, ConnInv, RoomInv, Num, Blank, Pending, Present,
      InData, InCur, Pos
<1>2. UsageInv /\ [UsageNext]_usageVars => UsageInv'
  BY UsageTypeNext, HandNext, SumNext, ConnNext, RoomNext DEF UsageInv
<1> QED
  BY <1>1, <1>2, PTL DEF UsageSpec

\* The total of killpppd.sh, reboot.sh and init.sh is the sum of what they
\* have added, for any number of scripts, connections and restarts.
THEOREM TotalsAreSums == UsageSpec => []TotalIsSum
<1>1. UsageInv => TotalIsSum
  BY DEF UsageInv, SumInv, Resetting, TotalIsSum
<1> QED
  BY <1>1, UsageInvariant, PTL

\* The total never exceeds what has been transferred, unless a connection was
\* added twice.
THEOREM TotalsAreNotTooHigh == UsageSpec => []NoOvercount
<1>1. UsageInv => NoOvercount
  <2> SUFFICES ASSUME UsageInv, excess = "no" PROVE init <= used
    BY DEF NoOvercount
  <2>1. Pending \in Nat
    BY SMTT(30) DEF UsageInv, UsageTypeOK, Num, Pending, Present, InData, InCur, Pos
  <2>2. init + Pending <= used /\ init \in Int /\ used \in Nat
    BY SMTT(30) DEF UsageInv, RoomInv, UsageTypeOK, Num
  <2> QED
    BY <2>1, <2>2, SMTT(30)
<1> QED
  BY <1>1, UsageInvariant, PTL

-----------------------------------------------------------------------------
(***************************************************************************)
(* The connection monitor, for every value of the retry limits and any     *)
(* number of pppd processes starting at once.                              *)
(***************************************************************************)
(***************************************************************************)
(* The inductive invariant. DialBudget alone is not inductive: it needs    *)
(* the exact relation between RETRY and the number of dials in the two     *)
(* states that may redial.                                                 *)
(***************************************************************************)
Redialing ==
    STAT = "WAITING_FOR_PPP_CONNECTION_COMPLETED" \/ STAT = "CHECK_PPPD"

DialCount ==
    /\ Redialing => dials = RETRY + 1
    /\ STAT = "LONGTERM_WAITING" => dials <= MAX_RETRY + 1
    /\ ~Redialing /\ STAT # "LONGTERM_WAITING" => dials = 0

DialGap ==
    /\ monPc = "dial" => STAT = "REGISTERED" \/ STAT = "CHECK_PPPD"
    /\ (STAT = "CHECK_PPPD" /\ monPc = "dial") => RETRY < MAX_RETRY /\ ~PppdRuns

Forbidden ==
    /\ nwPc = "start" <=> nwcause = "absent"
    /\ nwPc = "poll" <=> nwcause = "sending"
    /\ nwPc # "exit" => lateDials = 0
    /\ monPc = "dial" => lateDials = 0
    /\ lateDials <= 1

MonIInv == MonTypeOK /\ DialCount /\ DialGap /\ Forbidden

-----------------------------------------------------------------------------
\* The monitor at its start.
LEMMA MonInitIInv == MonInit => MonIInv
  BY RetryAssumption, FreshAssumption, SMTT(30)
  DEF MonInit, MonIInv, MonTypeOK, DialCount, DialGap, Forbidden, Redialing, Stats, Lines

\* The steps of the monitor.
LEMMA MonitorIInv == MonIInv /\ Monitor => MonIInv'
<1> SUFFICES ASSUME MonIInv, Monitor
             PROVE  MonIInv'
  OBVIOUS
<1>1. CASE Uninitialized
  BY <1>1
  DEF Uninitialized, MonIInv, MonTypeOK, DialCount, DialGap, Forbidden, Redialing, Stats,
      MoveTo, change_stat, nwVars, pppdVars, envVars, dialHistory
<1>2. CASE RssiCheck
  BY <1>2, RetryAssumption, FreshAssumption, SMTT(30)
  DEF RssiCheck, MonIInv, MonTypeOK, DialCount, DialGap, Forbidden, Redialing, Stats, Lines,
      MoveTo, SeenUp, change_stat, KillAllPppd, nwVars, pppdVars, envVars, dialHistory
<1>3. CASE Initialized
  BY <1>3
  DEF Initialized, MonIInv, MonTypeOK, DialCount, DialGap, Forbidden, Redialing, Stats, MoveTo,
      change_stat, nwVars, pppdVars, envVars, dialHistory
<1>4. CASE SimReady
  BY <1>4
  DEF SimReady, MonIInv, MonTypeOK, DialCount, DialGap, Forbidden, Redialing, Stats, MoveTo,
      change_stat, nwVars, pppdVars, envVars, dialHistory
<1>5. CASE Registered
  BY <1>5, RetryAssumption, SMTT(30)
  DEF Registered, ReadNwcause, MayDial, MonIInv, MonTypeOK, DialCount, DialGap, Forbidden,
      Redialing, Stats, MoveTo, SeenUp, change_stat, nwVars, pppdVars, envVars, dialHistory
<1>6. CASE RegisteredDial
  BY <1>6, RetryAssumption, FreshAssumption, SMTT(30)
  DEF RegisteredDial, StartPppd, MonIInv, MonTypeOK, DialCount, DialGap, Forbidden, Redialing,
      Stats, change_stat, nwVars, envVars
<1>7. CASE Waiting
  BY <1>7
  DEF Waiting, MonIInv, MonTypeOK, DialCount, DialGap, Forbidden, Redialing, Stats, MoveTo,
      change_stat, nwVars, pppdVars, envVars, dialHistory
<1>8. CASE CheckPppd
  BY <1>8, RetryAssumption, SMTT(30)
  DEF CheckPppd, ReadNwcause, MayDial, RetriesLeft, MonIInv, MonTypeOK, DialCount, DialGap,
      Forbidden, Redialing, Stats, PppdRuns, MoveTo, SeenUp, change_stat, nwVars,
      pppdVars, envVars, dialHistory
<1>9. CASE CheckPppdDial
  BY <1>9, RetryAssumption, FreshAssumption, SMTT(30)
  DEF CheckPppdDial, StartPppd, MonIInv, MonTypeOK, DialCount, DialGap, Forbidden, Redialing,
      Stats, change_stat, nwVars, envVars
<1>10. CASE LongtermWaiting
  BY <1>10
  DEF LongtermWaiting, MonIInv, MonTypeOK, DialCount, DialGap, Forbidden, Redialing, Stats,
      change_stat, nwVars, pppdVars, envVars
<1>11. CASE Completed
  BY <1>11
  DEF Completed, MonIInv, MonTypeOK, DialCount, DialGap, Forbidden, Redialing, Stats, MoveTo,
      change_stat, nwVars, pppdVars, envVars, dialHistory
<1>12. CASE Disconnected
  BY <1>12
  DEF Disconnected, MonIInv, MonTypeOK, DialCount, DialGap, Forbidden, Redialing, Stats, MoveTo,
      change_stat, nwVars, pppdVars, envVars, dialHistory
<1> QED
  BY <1>1, <1>2, <1>3, <1>4, <1>5, <1>6, <1>7, <1>8, <1>9, <1>10, <1>11, <1>12 DEF Monitor

\* The steps of nwcause_dmon.
LEMMA NwDaemonIInv == MonIInv /\ NwDaemon => MonIInv'
<1> SUFFICES ASSUME MonIInv, NwDaemon
             PROVE  MonIInv'
  OBVIOUS
<1>1. CASE NwStart
  BY <1>1
  DEF NwStart, MonIInv, MonTypeOK, DialCount, DialGap, Forbidden, Redialing, PppdRuns, monVars,
      pppdVars, envVars, dialHistory
<1>2. CASE NwPoll
  BY <1>2
  DEF NwPoll, MonIInv, MonTypeOK, DialCount, DialGap, Forbidden, Redialing, PppdRuns, monVars,
      pppdVars, envVars, dialHistory
<1>3. CASE NwKill
  BY <1>3, FreshAssumption, SMTT(30)
  DEF NwKill, MonIInv, MonTypeOK, DialCount, DialGap, Forbidden, Redialing, Lines, PppdRuns,
      KillAllPppd, monVars, envVars, dialHistory
<1> QED
  BY <1>1, <1>2, <1>3 DEF NwDaemon

\* The steps of pppd and of the modem.
LEMMA EnvironmentIInv == MonIInv /\ Environment => MonIInv'
<1> SUFFICES ASSUME MonIInv, Environment
             PROVE  MonIInv'
  OBVIOUS
<1>1. CASE PppdProgress
  BY <1>1, FreshAssumption, SMTT(30)
  DEF PppdProgress, PppdLock, PppdLockBusy, PppdUp, PppdDialFails, PppdHangUp, PppdExit,
      MonIInv, MonTypeOK, DialCount, DialGap, Forbidden, Redialing, Lines, PppdRuns, Pppd,
      monVars, nwVars, envVars, dialHistory
<1>2. CASE PppdLinkLost
  BY <1>2, SMTT(30)
  DEF PppdLinkLost, MonIInv, MonTypeOK, DialCount, DialGap, Forbidden, Redialing, Lines,
      PppdRuns, Pppd, monVars, nwVars, envVars, dialHistory
<1>3. CASE OtherKill
  BY <1>3, FreshAssumption, SMTT(30)
  DEF OtherKill, MonIInv, MonTypeOK, DialCount, DialGap, Forbidden, Redialing, Lines, KillAllPppd,
      monVars, nwVars, envVars, dialHistory
<1>4. CASE NetReject
  BY <1>4
  DEF NetReject, MonIInv, MonTypeOK, DialCount, DialGap, Forbidden, Redialing, PppdRuns,
      monVars, nwVars, pppdVars, dialHistory
<1>5. CASE LogRotate
  BY <1>5, SMTT(30)
  DEF LogRotate, MonIInv, MonTypeOK, DialCount, DialGap, Forbidden, Redialing, PppdRuns,
      monVars, nwVars, pppdVars, dialHistory
<1>6. CASE Settle
  BY <1>6, SMTT(30)
  DEF Settle, MonIInv, MonTypeOK, DialCount, DialGap, Forbidden, Redialing, PppdRuns, monVars,
      nwVars, pppdVars, dialHistory
<1> QED
  BY <1>1, <1>2, <1>3, <1>4, <1>5, <1>6 DEF Environment

\* A step of nobody.
LEMMA StutterIInv == MonIInv /\ UNCHANGED allVars => MonIInv'
  BY DEF MonIInv, MonTypeOK, DialCount, DialGap, Forbidden, Redialing, PppdRuns, allVars

\* The invariant holds throughout.
LEMMA MonInductive == MonSpec => []MonIInv
<1>1. MonIInv /\ [MonNext]_allVars => MonIInv'
  BY MonitorIInv, NwDaemonIInv, EnvironmentIInv, StutterIInv DEF MonNext
<1> QED
  BY MonInitIInv, <1>1, PTL DEF MonSpec

-----------------------------------------------------------------------------
\* The monitor's state stays in its types; the retry counters respect the
\* limits they are compared with, whatever those are.
THEOREM MonTypeCorrect == MonSpec => []MonTypeOK
<1>1. MonIInv => MonTypeOK
  BY DEF MonIInv
<1> QED
  BY MonInductive, <1>1, PTL

\* new_mmon_0624 never dials more than 1 + MAX_RETRY times between two
\* moments at which it saw the link up or rested for a minute.
THEOREM DialsAreBounded == MonSpec => []DialBudget
<1>1. MonIInv => DialBudget
  BY RetryAssumption, SMTT(30) DEF MonIInv, MonTypeOK, DialCount, DialBudget
<1> QED
  BY MonInductive, <1>1, PTL

\* A redial from CHECK_PPPD never competes with another pppd for the line.
THEOREM RedialsAreNotWasted == MonSpec => []RedialFindsFreeLine
<1>1. MonIInv => RedialFindsFreeLine
  BY DEF MonIInv, DialGap, RedialFindsFreeLine
<1> QED
  BY MonInductive, <1>1, PTL

\* After nwcause_dmon's killall the monitor starts pppd at most once more.
THEOREM LateDialsAreBounded == MonSpec => []AtMostOneLateDial
<1>1. MonIInv => AtMostOneLateDial
  BY DEF MonIInv, Forbidden, AtMostOneLateDial
<1> QED
  BY MonInductive, <1>1, PTL

-----------------------------------------------------------------------------
(***************************************************************************)
(* The daemon applies a configuration message once, deletes none before it *)
(* was applied and restarts pppd with the settings of one message, for any *)
(* number of messages, rows of other users and waiting commands.           *)
(***************************************************************************)
Texts == Msgs \cup {NoMsg}
Commands == [op : {"CMGR", "CMGD1", "CMGDALL", "CGDCONT", "CGEQREQ"}, msg : Texts]
States == {"uninitialize", "set_text_mode", "check_sms", "asked", "header", "setting_apn",
           "setting_qos", "kill", "delete_sms", "wait"}
SmsTypeOK ==
  /\ state \in States /\ text \in Texts /\ slot1 \in Texts /\ rest \subseteq Msgs
  /\ queue \in Seq(Commands) /\ out \in Seq(Texts \cup Words)
  /\ row \in {0, 1} /\ rows \in Seq(Texts \cup Words) /\ got \in Texts \cup Words
  /\ reader \in {"alive", "dead", "restarting"}
  /\ sent \subseteq Msgs /\ applied \in [Msgs -> 0..2]

\* The settings: the modem has v, or the last of the commands q that sets it will give it v.
Will(q, op, has, v) ==
  \/ has = v /\ \A i \in 1..Len(q) : q[i].op # op
  \/ \E i \in 1..Len(q) : q[i] = Cmd(op, v) /\ \A j \in 1..Len(q) : j > i => q[j].op # op

Settings ==
  /\ state = "setting_qos" => Will(queue, "CGDCONT", apn, text)
  /\ state = "kill" => Will(queue, "CGDCONT", apn, text) /\ Will(queue, "CGEQREQ", qos, text)
  /\ state = "delete_sms" /\ "late" \notin accidents => queue = <<>> /\ apn = text /\ qos = text

----------------------------------------------------------------------------
\* Sequences of up to four rows or commands.

\* Sequences of one element,
LEMMA One == ASSUME NEW a
             PROVE  /\ <<a>> # <<>> /\ Len(<<a>>) = 1 /\ Head(<<a>>) = a /\ Tail(<<a>>) = <<>>
                    /\ <<a>>[1] = a /\ Append(<<>>, a) = <<a>>
BY SMTT(30)
\* of two,
LEMMA Two == ASSUME NEW a, NEW b
             PROVE  /\ <<a, b>> # <<>> /\ Len(<<a, b>>) = 2 /\ Head(<<a, b>>) = a
                    /\ Tail(<<a, b>>) = <<b>> /\ <<a, b>>[1] = a /\ <<a, b>>[2] = b
                    /\ Append(<<a>>, b) = <<a, b>>
<1>1. <<a, b>> # <<>> /\ Len(<<a, b>>) = 2 /\ Head(<<a, b>>) = a BY SMTT(30)
<1>2. Tail(<<a, b>>) = <<b>> BY SMTT(30)
<1>3. <<a, b>>[1] = a /\ <<a, b>>[2] = b OBVIOUS
<1>4. Append(<<a>>, b) = <<a, b>>
  <2> DEFINE x == Append(<<a>>, b)
             y == <<a, b>>
  <2>1. <<a>> \in Seq({a, b}) /\ b \in {a, b} /\ y \in Seq({a, b}) BY SMTT(30)
  <2>2. x \in Seq({a, b}) /\ Len(x) = 2 /\ x[1] = a /\ x[2] = b BY <2>1, SMTT(30)
  <2>3. Len(y) = 2 /\ y[1] = a /\ y[2] = b BY SMTT(30)
  <2> HIDE DEF x, y
  <2>4. x = y BY <2>1, <2>2, <2>3, SMTT(30)
  <2> QED BY <2>4 DEF x, y
<1> QED BY <1>1, <1>2, <1>3, <1>4
\* of three,
LEMMA Three == ASSUME NEW a, NEW b, NEW c
               PROVE  <<a, b, c>> # <<>> /\ Head(<<a, b, c>>) = a /\ Tail(<<a, b, c>>) = <<b, c>>
BY SMTT(30)
\* and of four.
LEMMA Four == ASSUME NEW a, NEW b, NEW c, NEW d
              PROVE  /\ <<a, b, c, d>> # <<>> /\ Head(<<a, b, c, d>>) = a
                     /\ Tail(<<a, b, c, d>>) = <<b, c, d>>
BY SMTT(30)

\* The fields of a command.
LEMMA CmdFields == ASSUME NEW a, NEW b PROVE Cmd(a, b).op = a /\ Cmd(a, b).msg = b
BY SMTT(30) DEF Cmd

----------------------------------------------------------------------------
\* RestartsWithSettings.

\* A command of another kind at the end of the queue leaves the outcome as it is.
LEMMA WillAppend ==
  ASSUME NEW q \in Seq(Commands), NEW c \in Commands, NEW op, NEW has, NEW v,
         Will(q, op, has, v), c.op # op
  PROVE  Will(Append(q, c), op, has, v)
<1> DEFINE a == Append(q, c)
<1>1. /\ Len(q) \in Nat /\ Len(a) = Len(q) + 1 /\ a[Len(q) + 1] = c
      /\ \A i \in 1..Len(q) : a[i] = q[i]
  BY SMTT(30)
<1> HIDE DEF a
<1>2. 1..Len(q) \subseteq 1..Len(a) /\ \A i \in 1..Len(a) : i \in 1..Len(q) \/ i = Len(q) + 1
  BY <1>1, SMTT(30)
<1>3. Will(a, op, has, v) BY <1>1, <1>2 DEF Will
<1> QED BY <1>3 DEF a

\* The last command of its kind decides.
LEMMA WillLast ==
  ASSUME NEW q \in Seq(Commands), NEW op, NEW has, NEW v
  PROVE  Will(Append(q, Cmd(op, v)), op, has, v)
<1> DEFINE c == Cmd(op, v)
           a == Append(q, c)
<1> HIDE DEF c
<1>1. Len(q) \in Nat /\ Len(a) = Len(q) + 1 /\ a[Len(q) + 1] = c BY SMTT(30)
<1> HIDE DEF a
<1>2. Len(q) + 1 \in 1..Len(a) /\ \A j \in 1..Len(a) : ~(j > Len(q) + 1) BY <1>1, SMTT(30)
<1>3. Will(a, op, has, v) BY <1>1, <1>2 DEF Will, c
<1> QED BY <1>3 DEF a, c

\* Executing the first command leaves the outcome of the rest.
LEMMA WillHead ==
  ASSUME NEW q \in Seq(Commands), q # <<>>, NEW op, NEW has, NEW v, Will(q, op, has, v)
  PROVE  Will(Tail(q), op, IF Head(q).op = op THEN Head(q).msg ELSE has, v)
<1> DEFINE t == Tail(q)
           new == IF Head(q).op = op THEN Head(q).msg ELSE has
<1>1. /\ Len(q) \in Nat /\ 1 \in 1..Len(q) /\ Head(q) = q[1]
      /\ \A i \in 1..Len(t) : t[i] = q[i + 1] /\ i + 1 \in 1..Len(q) /\ i + 1 > 1
  BY SMTT(30)
<1>2. \A i \in 1..Len(q) : i = 1 \/ (i - 1 \in 1..Len(t) /\ t[i - 1] = q[i]) BY SMTT(30)
<1>3. \A i \in 1..Len(q), j \in 1..Len(t) : j > i - 1 => j + 1 > i BY SMTT(30)
<1> HIDE DEF t
<1>4. CASE has = v /\ \A i \in 1..Len(q) : q[i].op # op
  <2>1. new = v BY <1>1, <1>4
  <2>2. \A i \in 1..Len(t) : t[i].op # op BY <1>1, <1>4
  <2> QED BY <2>1, <2>2 DEF Will, t
<1>5. ASSUME NEW i \in 1..Len(q), q[i] = Cmd(op, v), \A j \in 1..Len(q) : j > i => q[j].op # op
      PROVE  Will(t, op, new, v)
  <2>1. CASE i = 1
    <3>0. Head(q) = Cmd(op, v) BY <2>1, <1>1, <1>5
    <3>3. Head(q).op = op /\ Head(q).msg = v BY <3>0, SMTT(30) DEF Cmd
    <3>1. new = v BY <3>3
    <3>2. \A j \in 1..Len(t) : t[j].op # op BY <2>1, <1>1, <1>5
    <3> QED BY <3>1, <3>2 DEF Will
  <2>2. CASE i # 1
    <3>1. i - 1 \in 1..Len(t) /\ t[i - 1] = Cmd(op, v) BY <2>2, <1>2, <1>5
    <3>2. \A j \in 1..Len(t) : j > i - 1 => t[j].op # op BY <1>1, <1>3, <1>5
    <3> QED BY <3>1, <3>2 DEF Will
  <2> QED BY <2>1, <2>2
<1> QED BY <1>4, <1>5 DEF Will, t

\* With an empty queue the outcome is there.
LEMMA WillDone == ASSUME NEW op, NEW has, NEW v, Will(<<>>, op, has, v) PROVE has = v
<1>1. \A i \in 1..Len(<<>>) : FALSE BY SMTT(30)
<1> QED BY <1>1 DEF Will

\* Log stores a row, or loses it.
LEMMA LogType ==
  ASSUME SmsTypeOK, NEW r \in Texts \cup Words, Log(r)
  PROVE  row' \in {0, 1} /\ rows' \in Seq(Texts \cup Words) /\ got' \in Texts \cup Words
<1>1. CASE reader # "alive" BY <1>1 DEF Log, log, SmsTypeOK
<1>2. CASE reader = "alive"
  <2>1. row' \in {0, 1} /\ got' \in Texts \cup Words BY <1>2 DEF Log, SmsTypeOK
  <2>2. rows' = <<>> \/ rows' = Append(rows, r) \/ rows' = rows BY <1>2 DEF Log
  <2>3. Append(rows, r) \in Seq(Texts \cup Words) /\ <<>> \in Seq(Texts \cup Words)
    BY SMTT(30) DEF SmsTypeOK
  <2> QED BY <2>1, <2>2, <2>3 DEF SmsTypeOK
<1> QED BY <1>1, <1>2

\* Writing one of the daemon's commands.
LEMMA WriteType ==
  ASSUME queue \in Seq(Commands), NEW op \in {"CMGR", "CMGD1", "CMGDALL", "CGDCONT", "CGEQREQ"},
         NEW m \in Texts
  PROVE  Cmd(op, m) \in Commands /\ Append(queue, Cmd(op, m)) \in Seq(Commands)
<1>1. Cmd(op, m) \in Commands BY SMTT(30) DEF Cmd, Commands
<1> HIDE DEF Commands
<1> QED BY <1>1, SMTT(30)

\* Execute keeps the types.
LEMMA ExecuteType == ASSUME SmsTypeOK, Execute PROVE SmsTypeOK'
<1> DEFINE c == Head(queue)
<1>1. c \in Commands /\ Tail(queue) \in Seq(Commands)
  <2> HIDE DEF Commands
  <2> QED BY SMTT(30) DEF SmsTypeOK, Execute
<1>2. out' \in Seq(Texts \cup Words)
  <2>1. out' \in {Answer(c)} \cup Errors BY DEF Execute
  <2>2. Answer(c) \in {<<"AT", "CMGR", slot1, "OK">>, <<"AT", "OK">>, <<"other">>} BY DEF Answer
  <2>3. {"AT", "CMGR", "OK", "CME", "other", slot1} \subseteq Texts \cup Words BY DEF SmsTypeOK, Words
  <2> DEFINE S == Texts \cup Words
  <2>4. {"AT", "CMGR", "OK", "CME", "other", slot1} \subseteq S BY <2>3
  <2> HIDE DEF S
  <2>5. /\ <<"AT", "CMGR", slot1, "OK">> \in Seq(S) /\ <<"AT", "OK">> \in Seq(S) /\ <<"other">> \in Seq(S)
        /\ <<"AT", "CME">> \in Seq(S) /\ <<"AT", "other">> \in Seq(S)
    BY <2>4, SMTT(30)
  <2> QED BY <2>1, <2>2, <2>5 DEF Errors, S
<1>3. slot1' \in Texts /\ rest' \subseteq Msgs BY DEF Execute, SmsTypeOK, Texts
<1>4. applied' \in [Msgs -> 0..2]
  <2>1. applied' = [m \in Msgs |-> IF c = Cmd("CGEQREQ", m) /\ applied[m] < 2
                                   THEN applied[m] + 1 ELSE applied[m]]
    BY DEF Execute
  <2>2. \A m \in Msgs : applied[m] \in 0..2 BY DEF SmsTypeOK
  <2>3. \A m \in Msgs : applied[m] < 2 => applied[m] + 1 \in 0..2 BY <2>2, SMTT(30)
  <2> QED BY <2>1, <2>2, <2>3
<1>5. queue' \in Seq(Commands) BY <1>1 DEF Execute
<1>6. UNCHANGED << state, text, row, rows, got, reader, sent >> BY DEF Execute, daemon, log
<1> QED BY <1>2, <1>3, <1>4, <1>5, <1>6 DEF SmsTypeOK

\* The modem and the log, apart from Execute, and the daemon, keep the types.
LEMMA TypeNext == ASSUME SmsTypeOK, [Next]_vars PROVE SmsTypeOK'
<1>n. NoMsg \in Texts /\ <<>> \in Seq(Texts \cup Words) /\ <<>> \in Seq(Commands)
  <2>1. NoMsg \in Texts BY DEF Texts
  <2> HIDE DEF Texts, Words, Commands
  <2> QED BY <2>1, SMTT(30)
<1>q. queue \in Seq(Commands) BY DEF SmsTypeOK
<1>1. CASE Execute BY <1>1, ExecuteType
<1>2. CASE Deliver
  <2>1. Head(out) \in Texts \cup Words /\ Tail(out) \in Seq(Texts \cup Words)
    <3> DEFINE S == Texts \cup Words
    <3>1. out \in Seq(S) /\ out # <<>> BY <1>2 DEF SmsTypeOK, Deliver
    <3> HIDE DEF S
    <3>2. Head(out) \in S /\ Tail(out) \in Seq(S) BY <3>1, SMTT(30)
    <3> QED BY <3>2 DEF S
  <2>2. row' \in {0, 1} /\ rows' \in Seq(Texts \cup Words) /\ got' \in Texts \cup Words
    BY <2>1, <1>2, LogType DEF Deliver
  <2> QED BY <2>1, <2>2, <1>2 DEF Deliver, daemon, store, settings, history, SmsTypeOK
<1>3. CASE Noise
  <2>1. "other" \in Texts \cup Words BY DEF Words
  <2>2. row' \in {0, 1} /\ rows' \in Seq(Texts \cup Words) /\ got' \in Texts \cup Words
    BY <2>1, <1>3, LogType DEF Noise
  <2> QED BY <2>2, <1>3 DEF Noise, daemon, store, settings, SmsTypeOK
<1>4. CASE RotateKill BY <1>4 DEF RotateKill, daemon, store, log, settings, SmsTypeOK
<1>5. CASE RotateRestart BY <1>5, <1>n DEF RotateRestart, daemon, store, settings, history, SmsTypeOK
<1>6. CASE KillCats BY <1>6 DEF KillCats, daemon, store, log, settings, SmsTypeOK
<1>7. ASSUME NEW m \in Msgs, Receive(m) PROVE SmsTypeOK'
  <2>1. m \in Texts BY DEF Texts
  <2> QED BY <2>1, <1>7 DEF Receive, daemon, log, settings, SmsTypeOK
<1>8. CASE Uninitialize \/ SetTextMode \/ Wait
  BY <1>8 DEF Uninitialize, SetTextMode, Wait, store, log, settings, history, SmsTypeOK, States
<1>9. CASE CheckSms
  <2>1. queue' \in Seq(Commands) BY <1>n, <1>q, <1>9, WriteType DEF CheckSms, Write
  <2> QED BY <2>1, <1>9 DEF CheckSms, store, log, settings, SmsTypeOK, States
<1>10. CASE ReadHeader
  <2>1. queue' \in Seq(Commands) BY <1>n, <1>q, <1>10, WriteType DEF ReadHeader, ReadHeaderDeleting, Write
  <2>2. rows \in Seq(Texts \cup Words) BY DEF SmsTypeOK
  <2>3. Len(rows) = 2 => rows[2] \in Texts \cup Words
    <3> DEFINE S == Texts \cup Words
    <3>1. rows \in Seq(S) BY <2>2
    <3> HIDE DEF S
    <3>2. Len(rows) = 2 => rows[2] \in S BY <3>1, SMTT(30)
    <3> QED BY <3>2 DEF S
  <2>4. got' \in Texts \cup Words
    BY <2>3, <1>10 DEF ReadHeader, ReadHeaderDeleting, SmsTypeOK, Words
  <2> QED BY <2>1, <2>4, <1>10 DEF ReadHeader, ReadHeaderDeleting, store, settings, SmsTypeOK, States
<1>11. CASE ReadText
  <2> DEFINE q == <<Cmd("CMGDALL", NoMsg)>>
  <2>1. Cmd("CMGDALL", NoMsg) \in Commands BY <1>n, <1>q, WriteType
  <2>2. queue \o q \in Seq(Commands)
    <3> DEFINE d == Cmd("CMGDALL", NoMsg)
    <3>1. d \in Commands BY <2>1
    <3> HIDE DEF d, Commands
    <3>2. queue \o <<d>> \in Seq(Commands) BY <3>1, <1>q, SMTT(30)
    <3> QED BY <3>2 DEF d
  <2>3. queue' \in Seq(Commands) BY <2>2, <1>q, <1>11 DEF ReadText, ReadTextOf
  <2>4. text' \in Texts BY <1>11, MsgAssumption DEF ReadText, ReadTextOf, SmsTypeOK, Texts
  <2> QED BY <2>3, <2>4, <1>n, <1>11 DEF ReadText, ReadTextOf, store, settings, SmsTypeOK, States
<1>12. CASE SettingApn
  <2>1. queue' \in Seq(Commands) BY <1>q, <1>12, WriteType DEF SettingApn, Write, SmsTypeOK
  <2> QED BY <2>1, <1>12 DEF SettingApn, store, log, settings, history, SmsTypeOK, States
<1>13. CASE SettingQos
  <2>1. queue' \in Seq(Commands) BY <1>q, <1>13, WriteType DEF SettingQos, Write, SmsTypeOK
  <2> QED BY <2>1, <1>13 DEF SettingQos, store, log, settings, history, SmsTypeOK, States
<1>14. CASE KillPppd BY <1>14 DEF KillPppd, store, log, settings, SmsTypeOK, States
<1>15. CASE DeleteSms
  <2>1. queue' \in Seq(Commands) BY <1>n, <1>q, <1>15, WriteType DEF DeleteSms, Write
  <2> QED BY <2>1, <1>n, <1>15 DEF DeleteSms, store, log, settings, history, SmsTypeOK, States
<1>16. CASE UNCHANGED vars BY <1>16 DEF vars, SmsTypeOK
<1> QED BY <1>1, <1>2, <1>3, <1>4, <1>5, <1>6, <1>7, <1>8, <1>9, <1>10, <1>11, <1>12, <1>13,
           <1>14, <1>15, <1>16 DEF Next, DaemonStep, ModemStep

\* A step that leaves the daemon, its commands and the settings alone.
LEMMA SameSettings ==
  ASSUME Settings, UNCHANGED << state, text, queue, apn, qos >>, accidents \subseteq accidents'
  PROVE  Settings'
BY DEF Settings

\* The modem executes a command: what it sets is set, the rest is still to come.
LEMMA ExecuteSettings == ASSUME SmsTypeOK, Settings, Execute PROVE Settings'
<1>1. /\ queue \in Seq(Commands) /\ queue # <<>> /\ queue' = Tail(queue)
      /\ apn' = IF Head(queue).op = "CGDCONT" THEN Head(queue).msg ELSE apn
      /\ qos' = IF Head(queue).op = "CGEQREQ" THEN Head(queue).msg ELSE qos
      /\ accidents \subseteq accidents' /\ UNCHANGED << state, text >>
  BY DEF SmsTypeOK, Execute, daemon
<1>2. Will(queue, "CGDCONT", apn, text) => Will(queue', "CGDCONT", apn', text') BY <1>1, WillHead
<1>3. Will(queue, "CGEQREQ", qos, text) => Will(queue', "CGEQREQ", qos', text') BY <1>1, WillHead
<1> QED BY <1>1, <1>2, <1>3 DEF Settings

\* Every step keeps the promise of the commands that wait.
LEMMA SettingsNext == ASSUME SmsTypeOK, Settings, [Next]_vars PROVE Settings'
<1>q. queue \in Seq(Commands) /\ text \in Texts BY DEF SmsTypeOK
<1>1. CASE Execute BY <1>1, ExecuteSettings
<1>2. CASE Deliver \/ RotateRestart
  BY <1>2, SameSettings DEF Deliver, RotateRestart, daemon, settings, history
<1>3. CASE Noise \/ RotateKill \/ KillCats
  BY <1>3, SameSettings DEF Noise, RotateKill, KillCats, daemon, settings
<1>4. ASSUME NEW m \in Msgs, Receive(m) PROVE Settings'
  BY <1>4, SameSettings DEF Receive, daemon, settings
<1>5. CASE Uninitialize \/ SetTextMode \/ CheckSms \/ ReadHeader \/ ReadText \/ DeleteSms \/ Wait
  <2>1. state' \notin {"setting_qos", "kill", "delete_sms"}
    BY <1>5 DEF Uninitialize, SetTextMode, CheckSms, ReadHeader, ReadHeaderDeleting, ReadText,
                ReadTextOf, DeleteSms, Wait
  <2> QED BY <2>1 DEF Settings
<1>6. CASE SettingApn
  <2>1. queue' = Append(queue, Cmd("CGDCONT", text)) /\ state' = "setting_qos" /\ UNCHANGED << text, apn >>
    BY <1>6 DEF SettingApn, Write, settings
  <2>2. Will(Append(queue, Cmd("CGDCONT", text)), "CGDCONT", apn, text) BY <1>q, WillLast
  <2> QED BY <2>1, <2>2 DEF Settings
<1>7. CASE SettingQos
  <2> DEFINE c == Cmd("CGEQREQ", text)
  <2>1. /\ queue' = Append(queue, c) /\ state = "setting_qos" /\ state' = "kill"
        /\ UNCHANGED << text, apn, qos >>
    BY <1>7 DEF SettingQos, Write, settings
  <2>2. c \in Commands BY <1>q, WriteType
  <2>5. c.op # "CGDCONT" BY SMTT(30) DEF Cmd
  <2>3. Will(Append(queue, c), "CGEQREQ", qos, text) BY <1>q, WillLast
  <2>4. Will(Append(queue, c), "CGDCONT", apn, text) BY <2>1, <2>2, <2>5, <1>q, WillAppend DEF Settings
  <2> QED BY <2>1, <2>3, <2>4 DEF Settings
<1>8. CASE KillPppd
  <2>1. /\ state = "kill" /\ state' = "delete_sms" /\ UNCHANGED << text, apn, qos, queue >>
        /\ Late => "late" \in accidents'
    BY <1>8 DEF KillPppd, settings
  <2>2. ~Late => queue = <<>> BY DEF Late
  <2>3. queue = <<>> => apn = text /\ qos = text BY <2>1, WillDone DEF Settings
  <2> QED BY <2>1, <2>2, <2>3 DEF Settings
<1>9. CASE UNCHANGED vars BY <1>9, SameSettings DEF vars
<1> QED BY <1>1, <1>2, <1>3, <1>4, <1>5, <1>6, <1>7, <1>8, <1>9 DEF Next, DaemonStep, ModemStep

----------------------------------------------------------------------------
\* AppliedOnce: what holds while no answer comes late, no log is started over under the
\* daemon's eyes and no reader is killed.

Clean == accidents \cap {"late", "rotation", "cats"} = {}
Quiet == state \in {"uninitialize", "set_text_mode", "check_sms", "wait"}
Busy == state \in {"setting_apn", "setting_qos", "kill", "delete_sms"}

Ask == Cmd("CMGR", NoMsg)
Apn == Cmd("CGDCONT", text)
Qos == Cmd("CGEQREQ", text)
Deletes == {Cmd("CMGD1", NoMsg), Cmd("CMGDALL", NoMsg)}
Doomed == queue # <<>> /\ Head(queue) \in Deletes

\* The commands that may wait.
Shape ==
  /\ Quiet => queue = <<>> \/ \E d \in Deletes : queue = <<d>>
  /\ state = "asked" => queue = <<>> \/ queue = <<Ask>> \/ \E d \in Deletes : queue = <<d, Ask>>
  /\ state \in {"header", "setting_apn", "delete_sms"} => queue = <<>>
  /\ state = "setting_qos" => queue = <<>> \/ queue = <<Apn>>
  /\ state = "kill" => queue = <<>> \/ queue = <<Qos>> \/ queue = <<Apn, Qos>>
  /\ state = "header" => out = <<>>

\* How far the answer to AT+CMGR=1 has come, when it has been executed.
Found == slot1 # NoMsg
Noisy == rows = <<"CMGR", "other">> /\ "noise" \in accidents
Last(w) == w = "OK" \/ (w \in {"CME", "other"} /\ "error" \in accidents)
OnTheWay == \/ Found /\ out = <<"AT", "CMGR", slot1, "OK">>
            \/ \E w \in Words : Last(w) /\ out = <<"AT", w>>
Echoed == row = 1 /\ rows = <<>> /\ \/ Found /\ out = <<"CMGR", slot1, "OK">>
                                    \/ \E w \in Words : Last(w) /\ out = <<w>>
Headed == row = 1 /\ Found /\ out = <<slot1, "OK">> /\ (rows = <<"CMGR">> \/ Noisy)
Whole == row = 1 /\ Found /\ (out = <<"OK">> \/ out = <<>>) /\ (rows = <<"CMGR", slot1>> \/ Noisy)
Missed == /\ row = 1 /\ rows # <<>> /\ rows[1] # "CMGR" /\ (rows[1] = "CME" => "error" \in accidents)
          /\ \A i \in 1..Len(out) : out[i] # "AT"
Exchange == OnTheWay \/ Echoed \/ Headed \/ Whole \/ Missed

Asked ==
  /\ reader # "dead" /\ (Checking => reader = "alive")
  /\ state = "asked" /\ queue = <<>> => Exchange
  /\ state = "header" => Found /\ (got = slot1 \/ (got = "other" /\ "noise" \in accidents))
  /\ Busy => text = slot1 /\ text \in Config

Counts ==
  /\ slot1 \in sent \cup {NoMsg} /\ rest \subseteq behind
  /\ \A m \in Msgs : applied[m] \in {0, 1} /\ (applied[m] = 1 => m \in sent)
  /\ slot1 # NoMsg /\ applied[slot1] = 1 => state \in {"kill", "delete_sms"} \/ Doomed
  /\ state = "kill" => (applied[text] = 1 <=> queue = <<>>)
  /\ state = "delete_sms" => applied[text] = 1

CleanInv == Clean => Shape /\ Asked /\ Counts

\* A step without accidents follows states without accidents.
LEMMA Accidents == ASSUME [Next]_vars PROVE accidents \subseteq accidents'
BY DEF Next, DaemonStep, ModemStep, vars, history, Execute, Deliver, Noise, RotateKill, RotateRestart,
       KillCats, Receive, Uninitialize, SetTextMode, CheckSms, ReadHeader, ReadHeaderDeleting, ReadText,
       ReadTextOf, SettingApn, SettingQos, KillPppd, DeleteSms, Wait

\* No message is a row of the modem's own.
LEMMA Distinct == /\ \A m \in Msgs : m # NoMsg /\ m \notin Words
                  /\ NoMsg \notin Words /\ Config \subseteq Msgs
BY MsgAssumption

\* The commands differ.
LEMMA CmdKinds ==
  /\ \A d \in Deletes : d # Ask /\ d # Apn /\ d # Qos /\ d.op \in {"CMGD1", "CMGDALL"}
  /\ Ask.op = "CMGR" /\ Apn.op = "CGDCONT" /\ Qos.op = "CGEQREQ"
  /\ Apn # Qos /\ Ask # Apn /\ Ask # Qos
  /\ \A m : Cmd("CGEQREQ", m) \notin Deletes /\ Cmd("CGEQREQ", m) # Ask /\ Cmd("CGEQREQ", m) # Apn
  /\ \A m : Cmd("CGEQREQ", m) = Qos => m = text
BY SMTT(30) DEF Deletes, Ask, Apn, Qos, Cmd

\* A new message: slot 1 is taken only when it is free, and the message has not been applied.
LEMMA ReceiveClean ==
  ASSUME SmsTypeOK, Shape, Asked, Counts, NEW m \in Msgs, Receive(m) PROVE Shape' /\ Asked' /\ Counts'
<1>1. /\ UNCHANGED << state, text, queue, out, row, rows, got, reader, applied, accidents >>
      /\ m \notin sent /\ sent' = sent \cup {m}
  BY DEF Receive, daemon, log
<1>2. Shape' BY <1>1 DEF Shape, Quiet, Apn, Qos
<1>3. Doomed' <=> Doomed BY <1>1 DEF Doomed
<1>4. CASE slot1' = slot1 /\ rest' \subseteq behind'
  <2>1. Exchange => Exchange'
    BY <1>1, <1>4 DEF Exchange, OnTheWay, Echoed, Headed, Whole, Missed, Found, Noisy, Last
  <2>2. Asked' BY <2>1, <1>1, <1>4 DEF Asked, Checking, Busy, Found
  <2>3. Counts' BY <1>1, <1>3, <1>4 DEF Counts
  <2> QED BY <2>2, <2>3, <1>2
<1>5. CASE slot1 = NoMsg /\ slot1' = m /\ UNCHANGED << rest, behind >>
  <2>1. Exchange => Exchange'
    BY <1>1, <1>5 DEF Exchange, OnTheWay, Echoed, Headed, Whole, Missed, Found, Noisy, Last
  <2>2. ~Busy BY <1>5, Distinct DEF Asked
  <2>3. Asked' BY <2>1, <2>2, <1>1, <1>5 DEF Asked, Checking, Busy, Found
  <2>4. applied[m] # 1 BY <1>1 DEF Counts
  <2>5. Counts' BY <2>4, <1>1, <1>3, <1>5 DEF Counts
  <2> QED BY <2>3, <2>5, <1>2
<1> QED BY <1>4, <1>5 DEF Receive, Counts

\* A step that only touches the log, or nothing, when the daemon is not looking.
LEMMA AsideClean ==
  ASSUME Shape, Asked, Counts, ~Checking, reader' # "dead",
         UNCHANGED << state, text, slot1, rest, queue, sent, behind, applied >>
  PROVE  Shape' /\ Asked' /\ Counts'
<1>1. state \notin {"asked", "header"} BY DEF Checking
<1>2. Shape' BY <1>1 DEF Shape, Quiet, Apn, Qos
<1>3. Asked' BY <1>1 DEF Asked, Checking, Busy
<1>4. Doomed' <=> Doomed BY DEF Doomed
<1>5. Counts' BY <1>4 DEF Counts
<1> QED BY <1>2, <1>3, <1>5

\* What Log does for a daemon that looks.
LEMMA LogRow ==
  ASSUME reader = "alive", NEW r, Log(r), r # "AT", row = 1
  PROVE  /\ row' = 1 /\ (got # "pending" => got' = got)
         /\ Len(rows) < 2 => rows' = Append(rows, r)
         /\ ~(Len(rows) < 2) => rows' = rows
BY DEF Log

\* Answers of two words.
LEMMA LenTwo == ASSUME NEW a PROVE ~(Len(<<a, "other">>) < 2) /\ ~(Len(<<"CMGR", a>>) < 2)
                                   /\ Len(<<a>>) < 2 /\ Len(<<>>) < 2
BY SMTT(30)

\* The first row stays the first row.
LEMMA FirstRow ==
  ASSUME SmsTypeOK, rows # <<>>, NEW r \in Texts \cup Words, rows' = Append(rows, r) \/ rows' = rows
  PROVE  rows' # <<>> /\ rows'[1] = rows[1]
<1> DEFINE S == Texts \cup Words
<1>1. rows \in Seq(S) /\ r \in S BY DEF SmsTypeOK
<1> HIDE DEF S
<1>2. Append(rows, r) # <<>> /\ Append(rows, r)[1] = rows[1] BY <1>1, SMTT(30)
<1> QED BY <1>2

\* A row of another user: between the header and the text it is taken for the text.
LEMMA NoiseClean ==
  ASSUME SmsTypeOK, Shape, Asked, Counts, Noise PROVE Shape' /\ Asked' /\ Counts'
<1>1. /\ UNCHANGED << state, text, slot1, rest, queue, out, reader, sent, behind, applied >>
      /\ Log("other") /\ accidents' = accidents \cup (IF rows = <<"CMGR">> THEN {"noise"} ELSE {})
  BY DEF Noise, daemon, store
<1>2. CASE ~Checking BY <1>1, <1>2, AsideClean DEF Asked
<1>3. CASE Checking
  <2>1. reader = "alive" BY <1>3 DEF Asked
  <2>2. Shape' BY <1>1 DEF Shape, Quiet, Apn, Qos
  <2>3. Counts' BY <1>1 DEF Counts, Doomed
  <2>4. got # "pending" => got' = got BY <2>1, <1>1 DEF Log, log
  <2>5. Found => slot1 # "pending" BY Distinct DEF Found, SmsTypeOK, Texts, Words
  <2>6. row = 1 => /\ row' = 1
                   /\ Len(rows) < 2 => rows' = Append(rows, "other")
                   /\ ~(Len(rows) < 2) => rows' = rows
    BY <2>1, <1>1, LogRow
  <2>7. OnTheWay => OnTheWay' BY <1>1 DEF OnTheWay, Found, Last
  <2>8. Echoed => Missed'
    <3> SUFFICES ASSUME Echoed PROVE Missed' OBVIOUS
    <3>1. row' = 1 /\ rows' = <<"other">> BY <2>6, LenTwo, One DEF Echoed
    <3>2. rows' # <<>> /\ rows'[1] = "other" BY <3>1, One
    <3>3. \A i \in 1..Len(out) : out[i] # "AT"
      <4>1. CASE Found /\ out = <<"CMGR", slot1, "OK">>
        <5>1. slot1 # "AT" BY <4>1, Distinct DEF Found, SmsTypeOK, Texts, Words
        <5> QED BY <4>1, <5>1, SMTT(30)
      <4>2. ASSUME NEW w \in Words, Last(w), out = <<w>> PROVE \A i \in 1..Len(out) : out[i] # "AT"
        BY <4>2, SMTT(30) DEF Last
      <4> QED BY <4>1, <4>2 DEF Echoed
    <3> QED BY <3>1, <3>2, <3>3, <1>1 DEF Missed
  <2>9. Headed => Headed'
    <3>1. ASSUME row = 1, rows = <<"CMGR">> PROVE rows' = <<"CMGR", "other">>
      <4>1. rows' = Append(rows, "other") BY <3>1, <2>6, LenTwo
      <4>2. Append(<<"CMGR">>, "other") = <<"CMGR", "other">> BY Two
      <4> QED BY <4>1, <4>2, <3>1
    <3>2. rows = <<"CMGR", "other">> => rows' = rows \/ row # 1 BY <2>6, LenTwo
    <3> QED BY <3>1, <3>2, <2>6, <1>1 DEF Headed, Noisy, Found
  <2>10. Whole => Whole'
    <3>1. rows = <<"CMGR", slot1>> => rows' = rows \/ row # 1 BY <2>6, LenTwo
    <3>2. rows = <<"CMGR", "other">> => rows' = rows \/ row # 1 BY <2>6, LenTwo
    <3> QED BY <3>1, <3>2, <2>6, <1>1 DEF Whole, Noisy, Found
  <2>11. Missed => Missed'
    <3>1. row = 1 /\ rows # <<>> => row' = 1 /\ rows' # <<>> /\ rows'[1] = rows[1]
      BY <2>6, FirstRow DEF Words
    <3> QED BY <3>1, <1>1 DEF Missed
  <2>12. Exchange => Exchange' BY <2>7, <2>8, <2>9, <2>10, <2>11 DEF Exchange
  <2>13. Asked' BY <2>4, <2>5, <2>12, <2>1, <1>1 DEF Asked, Checking, Busy, Found
  <2> QED BY <2>2, <2>3, <2>13
<1> QED BY <1>2, <1>3

\* A row of the answer reaches the log.
LEMMA DeliverClean ==
  ASSUME SmsTypeOK, Shape, Asked, Counts, Deliver PROVE Shape' /\ Asked' /\ Counts'
<1>1. /\ UNCHANGED << state, text, slot1, rest, queue, reader, sent, behind, applied, accidents >>
      /\ out # <<>> /\ Log(Head(out)) /\ out' = Tail(out)
  BY DEF Deliver, daemon, store, history
<1>2. CASE ~Checking BY <1>1, <1>2, AsideClean DEF Asked
<1>3. CASE Checking
  <2>1. reader = "alive" /\ state = "asked" BY <1>1, <1>3 DEF Asked, Checking, Shape
  <2>2. Shape' BY <2>1, <1>1 DEF Shape, Quiet
  <2>3. Counts' BY <1>1 DEF Counts, Doomed
  <2>4. row = 1 /\ Head(out) # "AT" => /\ row' = 1
                                       /\ Len(rows) < 2 => rows' = Append(rows, Head(out))
                                       /\ ~(Len(rows) < 2) => rows' = rows
    BY <2>1, <1>1, LogRow
  <2>5. Found => slot1 # "AT" BY Distinct DEF Found, SmsTypeOK, Texts, Words
  <2>6. Head(out) = "AT" => row' = 1 /\ rows' = <<>> BY <2>1, <1>1 DEF Log
  <2>7. OnTheWay => Echoed'
    <3>1. CASE Found /\ out = <<"AT", "CMGR", slot1, "OK">>
      <4>1. Head(out) = "AT" BY <3>1, SMTT(30)
      <4>2. out' = <<"CMGR", slot1, "OK">> BY <3>1, <1>1, SMTT(30)
      <4> QED BY <4>1, <4>2, <3>1, <2>6, <1>1 DEF Echoed, Found
    <3>2. ASSUME NEW w \in Words, Last(w), out = <<"AT", w>> PROVE Echoed'
      BY <3>2, <2>6, <1>1, Two DEF Echoed, Last
    <3> QED BY <3>1, <3>2 DEF OnTheWay
  <2>8. Echoed => Headed' \/ Missed'
    <3> SUFFICES ASSUME Echoed PROVE Headed' \/ Missed' OBVIOUS
    <3>1. CASE Found /\ out = <<"CMGR", slot1, "OK">>
      <4>1. Head(out) = "CMGR" /\ out' = <<slot1, "OK">> BY <3>1, <1>1, Three
      <4>2. row' = 1 /\ rows' = <<"CMGR">> BY <4>1, <2>4, LenTwo, One DEF Echoed
      <4> QED BY <4>1, <4>2, <3>1, <1>1 DEF Headed, Found
    <3>2. ASSUME NEW w \in Words, Last(w), out = <<w>> PROVE Missed'
      <4>1. Head(out) = w /\ out' = <<>> /\ w # "AT" /\ w # "CMGR" BY <3>2, <1>1, One DEF Last
      <4>2. row' = 1 /\ rows' = <<w>> BY <4>1, <2>4, LenTwo, One DEF Echoed
      <4>3. rows' # <<>> /\ rows'[1] = w BY <4>2, One
      <4>4. \A i \in 1..Len(out') : out'[i] # "AT" BY <4>1, SMTT(30)
      <4>5. w = "CME" => "error" \in accidents' BY <3>2, <1>1 DEF Last
      <4> QED BY <4>1, <4>2, <4>3, <4>4, <4>5 DEF Missed
    <3> QED BY <3>1, <3>2 DEF Echoed
  <2>9. Headed => Whole'
    <3> SUFFICES ASSUME Headed PROVE Whole' OBVIOUS
    <3>1. Head(out) = slot1 /\ out' = <<"OK">> /\ slot1 # "AT" BY <2>5, <1>1, Two DEF Headed
    <3>2. CASE rows = <<"CMGR">>
      <4>2. row' = 1 /\ rows' = Append(rows, slot1) BY <3>1, <3>2, <2>4, LenTwo DEF Headed
      <4>3. Append(<<"CMGR">>, slot1) = <<"CMGR", slot1>> BY Two
      <4>1. row' = 1 /\ rows' = <<"CMGR", slot1>> BY <4>2, <4>3, <3>2
      <4> QED BY <4>1, <3>1, <1>1 DEF Whole, Headed, Found
    <3>3. CASE Noisy
      <4>1. row' = 1 /\ rows' = rows BY <3>1, <3>3, <2>4, LenTwo DEF Headed, Noisy
      <4> QED BY <4>1, <3>1, <3>3, <1>1 DEF Whole, Headed, Found, Noisy
    <3> QED BY <3>2, <3>3 DEF Headed
  <2>10. Whole => Whole'
    <3> SUFFICES ASSUME Whole PROVE Whole' OBVIOUS
    <3>1. Head(out) = "OK" /\ out' = <<>> BY <1>1, One DEF Whole
    <3>2. ~(Len(rows) < 2) BY LenTwo DEF Whole, Noisy
    <3>3. row' = 1 /\ rows' = rows BY <3>1, <3>2, <2>4 DEF Whole
    <3> QED BY <3>1, <3>3, <1>1 DEF Whole, Found, Noisy
  <2>11. Missed => Missed'
    <3> SUFFICES ASSUME Missed PROVE Missed' OBVIOUS
    <3> DEFINE S == Texts \cup Words
    <3>1. out \in Seq(S) BY DEF SmsTypeOK
    <3> HIDE DEF S
    <3>2. Head(out) \in S /\ Head(out) # "AT" /\ \A i \in 1..Len(Tail(out)) : Tail(out)[i] # "AT"
      BY <3>1, <1>1, SMTT(30) DEF Missed
    <3>3. row' = 1 /\ (rows' = Append(rows, Head(out)) \/ rows' = rows) BY <3>2, <2>4 DEF Missed
    <3>4. rows' # <<>> /\ rows'[1] = rows[1] BY <3>2, <3>3, FirstRow DEF Missed, S
    <3> QED BY <3>2, <3>3, <3>4, <1>1 DEF Missed
  <2>12. Exchange => Exchange' BY <2>7, <2>8, <2>9, <2>10, <2>11 DEF Exchange
  <2>13. Asked' BY <2>12, <2>1, <1>1 DEF Asked, Checking, Busy
  <2> QED BY <2>2, <2>3, <2>13
<1> QED BY <1>2, <1>3

\* The daemon asks, and waits: a deletion that is still to come comes before the question.
LEMMA AskClean == ASSUME SmsTypeOK, Shape, Asked, Counts, CheckSms, Clean' PROVE Shape' /\ Asked' /\ Counts'
<1>1. /\ state = "check_sms" /\ state' = "asked" /\ queue' = Append(queue, Ask)
      /\ UNCHANGED << text, slot1, rest, out, reader, sent, behind, applied >>
      /\ reader # "restarting"
  BY DEF CheckSms, Write, Ask, store, log, settings, Clean
<1>2. queue = <<>> \/ \E d \in Deletes : queue = <<d>> BY <1>1 DEF Shape, Quiet
<1>3. CASE queue = <<>>
  <2>1. queue' = <<Ask>> /\ queue' # <<>> BY <1>1, <1>3, One
  <2>2. Shape' BY <2>1, <1>1 DEF Shape, Quiet, Ask
  <2>3. Asked' BY <2>1, <1>1 DEF Asked, Checking, Busy, SmsTypeOK
  <2>4. ~Doomed BY <1>3 DEF Doomed
  <2>5. Counts' BY <2>4, <1>1 DEF Counts
  <2> QED BY <2>2, <2>3, <2>5
<1>4. ASSUME NEW d \in Deletes, queue = <<d>> PROVE Shape' /\ Asked' /\ Counts'
  <2>1. queue' = <<d, Ask>> BY <1>1, <1>4, Two
  <2>2. queue' # <<>> /\ Head(queue') = d BY <2>1, Two
  <2>3. Shape' BY <2>1, <1>1 DEF Shape, Quiet, Ask, Deletes
  <2>4. Asked' BY <2>2, <1>1 DEF Asked, Checking, Busy, SmsTypeOK
  <2>5. Doomed' BY <2>2 DEF Doomed, Deletes
  <2>6. Counts' BY <2>5, <1>1 DEF Counts
  <2> QED BY <2>3, <2>4, <2>6
<1> QED BY <1>2, <1>3, <1>4

\* The daemon reads the log when the answer is there: a header is the header of slot 1.
LEMMA HeaderClean == ASSUME SmsTypeOK, Shape, Asked, Counts, ReadHeader, Clean' PROVE Shape' /\ Asked' /\ Counts'
<1>1. /\ state = "asked" /\ queue = <<>> /\ out = <<>>
      /\ UNCHANGED << text, slot1, rest, out, row, rows, reader, sent, behind, applied >>
      /\ accidents \subseteq accidents'
  BY DEF ReadHeader, ReadHeaderDeleting, store, settings, Late, Clean
<1>2. reader = "alive" /\ Exchange BY <1>1 DEF Asked, Checking
<1>3. Whole \/ Missed BY <1>1, <1>2, One, Two, Three, Four DEF Exchange, OnTheWay, Echoed, Headed
<1>4. ~(slot1 # NoMsg /\ applied[slot1] = 1) BY <1>1 DEF Counts, Doomed
<1>5. CASE state' = "header" /\ queue' = queue /\ rows[1] = "CMGR" /\ rows # <<>>
           /\ got' = IF Len(rows) = 2 THEN rows[2] ELSE "pending"
  <2>1. Whole BY <1>3, <1>5 DEF Missed
  <2>2. Len(rows) = 2 /\ (rows[2] = slot1 \/ (rows[2] = "other" /\ "noise" \in accidents))
    BY <2>1, SMTT(30) DEF Whole, Noisy
  <2>3. got' = rows[2] BY <2>2, <1>5
  <2>4. Shape' BY <1>1, <1>5 DEF Shape, Quiet
  <2>5. Asked' BY <2>1, <2>2, <2>3, <1>1, <1>2, <1>5 DEF Asked, Checking, Busy, Found, Whole
  <2>6. Counts' BY <1>1, <1>4, <1>5 DEF Counts
  <2> QED BY <2>4, <2>5, <2>6
<1>6. CASE state' = "wait" /\ (queue' = queue \/ queue' = Append(queue, Cmd("CMGDALL", NoMsg)))
  <2>1. queue' = <<>> \/ queue' = <<Cmd("CMGDALL", NoMsg)>> BY <1>1, <1>6, One
  <2>2. Shape' BY <2>1, <1>6 DEF Shape, Quiet, Deletes
  <2>3. Asked' BY <1>1, <1>2, <1>6 DEF Asked, Checking, Busy
  <2>4. Counts' BY <1>1, <1>4, <1>6 DEF Counts
  <2> QED BY <2>2, <2>3, <2>4
<1> QED BY <1>5, <1>6 DEF ReadHeader, ReadHeaderDeleting, Write

\* The text is that of the message in slot 1, or a row of somebody else.
LEMMA TextClean == ASSUME SmsTypeOK, Shape, Asked, Counts, ReadText, Clean' PROVE Shape' /\ Asked' /\ Counts'
<1>1. /\ state = "header" /\ queue = <<>> /\ UNCHANGED << slot1, rest, out, reader, sent, behind, applied >>
      /\ \/ got \in Config /\ text' = got /\ state' = "setting_apn" /\ queue' = queue
         \/ state' = "wait" /\ queue' = queue \o <<Cmd("CMGDALL", NoMsg)>> /\ text' = text
  BY DEF ReadText, ReadTextOf, store, settings, Shape
<1>2. ~(slot1 # NoMsg /\ applied[slot1] = 1) BY <1>1 DEF Counts, Doomed
<1>3. CASE got \in Config /\ text' = got /\ state' = "setting_apn" /\ queue' = queue
  <2>1. got = slot1 BY <1>1, <1>3, Distinct DEF Asked, Words
  <2>2. Shape' BY <1>1, <1>3 DEF Shape, Quiet
  <2>3. Asked' BY <2>1, <1>1, <1>3 DEF Asked, Checking, Busy
  <2>4. Counts' BY <1>1, <1>2, <1>3 DEF Counts
  <2> QED BY <2>2, <2>3, <2>4
<1>4. CASE state' = "wait" /\ queue' = queue \o <<Cmd("CMGDALL", NoMsg)>>
  <2>1. queue' = <<Cmd("CMGDALL", NoMsg)>>
    <3> DEFINE d == Cmd("CMGDALL", NoMsg)
    <3> HIDE DEF d
    <3>1. <<>> \o <<d>> = <<d>> BY SMTT(30)
    <3> QED BY <3>1, <1>1, <1>4 DEF d
  <2>2. Shape' BY <2>1, <1>4 DEF Shape, Quiet, Deletes
  <2>3. Asked' BY <1>1, <1>4 DEF Asked, Checking, Busy
  <2>4. Counts' BY <1>1, <1>2, <1>4 DEF Counts
  <2> QED BY <2>2, <2>3, <2>4
<1> QED BY <1>1, <1>3, <1>4

\* The settings are written in order, and pppd is killed when the modem has them.
LEMMA BusyClean ==
  ASSUME SmsTypeOK, Shape, Asked, Counts, SettingApn \/ SettingQos \/ KillPppd \/ DeleteSms, Clean'
  PROVE  Shape' /\ Asked' /\ Counts'
<1>0. /\ UNCHANGED << slot1, rest, out, reader, sent, behind, applied >> /\ Busy /\ ~Checking
      /\ slot1 # NoMsg /\ text = slot1 /\ text \in Config
  BY Distinct DEF SettingApn, SettingQos, KillPppd, DeleteSms, store, log, settings, history, Busy,
                  Checking, Asked
<1>1. CASE SettingApn
  <2>1. state = "setting_apn" /\ state' = "setting_qos" /\ text' = text /\ queue' = Append(queue, Apn)
    BY <1>1 DEF SettingApn, Write, Apn
  <2>2. queue' = <<Apn>> /\ queue = <<>> BY <2>1, One DEF Shape
  <2>3. Shape' BY <2>1, <2>2 DEF Shape, Quiet, Apn
  <2>4. Asked' BY <2>1, <1>0 DEF Asked, Checking, Busy
  <2>5. Counts' BY <2>1, <2>2, <1>0 DEF Counts, Doomed
  <2> QED BY <2>3, <2>4, <2>5
<1>2. CASE SettingQos
  <2>1. state = "setting_qos" /\ state' = "kill" /\ text' = text /\ queue' = Append(queue, Qos)
    BY <1>2 DEF SettingQos, Write, Qos
  <2>2. queue = <<>> \/ queue = <<Apn>> BY <2>1 DEF Shape
  <2>a. queue = <<>> => queue' = <<Qos>> BY <2>1, One
  <2>b. queue = <<Apn>> => queue' = <<Apn, Qos>> BY <2>1, Two
  <2>3. queue' = <<Qos>> \/ queue' = <<Apn, Qos>> BY <2>2, <2>a, <2>b
  <2>4. queue' # <<>> BY <2>3, One, Two
  <2>5. ~Doomed BY <2>2, One, CmdKinds DEF Doomed
  <2>6. applied[text] # 1 BY <2>1, <2>5, <1>0 DEF Counts
  <2>7. Shape' BY <2>1, <2>3 DEF Shape, Quiet, Apn, Qos
  <2>8. Asked' BY <2>1, <1>0 DEF Asked, Checking, Busy
  <2>9. Counts' BY <2>1, <2>4, <2>6, <1>0 DEF Counts
  <2> QED BY <2>7, <2>8, <2>9
<1>3. CASE KillPppd
  <2>1. state = "kill" /\ state' = "delete_sms" /\ UNCHANGED << text, queue >> /\ queue = <<>>
    BY <1>3 DEF KillPppd, Late, Clean
  <2>2. Shape' BY <2>1 DEF Shape, Quiet
  <2>3. Asked' BY <2>1, <1>0 DEF Asked, Checking, Busy
  <2>4. Counts' BY <2>1, <1>0 DEF Counts
  <2> QED BY <2>2, <2>3, <2>4
<1>4. CASE DeleteSms
  <2> DEFINE d == Cmd("CMGD1", NoMsg)
  <2>1. state = "delete_sms" /\ state' = "wait" /\ queue' = Append(queue, d) /\ queue = <<>>
    BY <1>4 DEF DeleteSms, Write, Shape
  <2>2. queue' = <<d>> BY <2>1, One
  <2>3. queue' # <<>> /\ Head(queue') = d BY <2>2, One
  <2>4. Shape' BY <2>1, <2>2 DEF Shape, Quiet, Deletes
  <2>5. Asked' BY <2>1, <1>0 DEF Asked, Checking, Busy
  <2>6. Doomed' BY <2>3 DEF Doomed, Deletes
  <2>7. Counts' BY <2>1, <2>6, <1>0 DEF Counts
  <2> QED BY <2>4, <2>5, <2>7
<1> QED BY <1>1, <1>2, <1>3, <1>4

\* The modem deletes: slot 1 is free.
LEMMA ExecuteDelete ==
  ASSUME SmsTypeOK, Shape, Asked, Counts, Execute, NEW d \in Deletes,
         (Quiet /\ queue = <<d>>) \/ (state = "asked" /\ queue = <<d, Ask>>)
  PROVE  Shape' /\ Asked' /\ Counts'
<1>1. Head(queue) = d /\ (queue' = <<>> \/ queue' = <<Ask>>) /\ (Quiet => queue' = <<>>)
      /\ (state = "asked" => queue' = <<Ask>>) /\ (Quiet => state # "asked")
  <2>1. queue' = Tail(queue) BY DEF Execute
  <2>2. queue = <<d>> => Head(queue) = d /\ queue' = <<>> BY <2>1, One
  <2>3. queue = <<d, Ask>> => Head(queue) = d /\ queue' = <<Ask>> BY <2>1, Two
  <2>4. Quiet => state # "asked" BY DEF Quiet
  <2> QED BY <2>2, <2>3, <2>4
<1>2. UNCHANGED << state, text, reader, sent, behind >> BY DEF Execute, daemon, log
<1>3. d.op \in {"CMGD1", "CMGDALL"} /\ \A m : d # Cmd("CGEQREQ", m) BY CmdKinds
<1>4. slot1' = NoMsg /\ rest' \subseteq rest BY <1>1, <1>3 DEF Execute
<1>5. \A m \in Msgs : applied'[m] = applied[m] BY <1>1, <1>3 DEF Execute
<1>6. Shape' BY <1>1, <1>2 DEF Shape, Quiet, Ask, Deletes
<1>7. <<Ask>> # <<>> BY One
<1>8. Asked' BY <1>1, <1>2, <1>7 DEF Asked, Checking, Busy, Quiet
<1>9. Counts' BY <1>2, <1>4, <1>5 DEF Counts, Quiet
<1> QED BY <1>6, <1>8, <1>9

\* It answers AT+CMGR=1.
LEMMA ExecuteAsk ==
  ASSUME SmsTypeOK, Shape, Asked, Counts, Execute, state = "asked", queue = <<Ask>>
  PROVE  Shape' /\ Asked' /\ Counts'
<1>1. Head(queue) = Ask /\ queue' = <<>> BY One DEF Execute
<1>2. UNCHANGED << state, text, reader, sent, behind >> BY DEF Execute, daemon, log
<1>3. Ask.op = "CMGR" /\ \A m : Ask # Cmd("CGEQREQ", m) BY CmdKinds
<1>4. slot1' = slot1 /\ rest' = rest BY <1>1, <1>3 DEF Execute
<1>5. \A m \in Msgs : applied'[m] = applied[m] BY <1>1, <1>3 DEF Execute
<1>6. out' \in {Answer(Ask)} \cup Errors /\ (out' \in Errors => "error" \in accidents')
  BY <1>1 DEF Execute
<1>7. OnTheWay'
  <2>1. CASE out' = Answer(Ask)
    <3>1. out' = IF slot1 # NoMsg THEN <<"AT", "CMGR", slot1, "OK">> ELSE <<"AT", "OK">>
      BY <2>1, <1>3 DEF Answer
    <3>2. "OK" \in Words /\ Last("OK")' BY DEF Words, Last
    <3> QED BY <3>1, <3>2, <1>4 DEF OnTheWay, Found
  <2>2. CASE out' \in Errors
    <3>1. "error" \in accidents' /\ {"CME", "other"} \subseteq Words BY <2>2, <1>6 DEF Words
    <3>2. Last("CME")' /\ Last("other")' BY <3>1 DEF Last
    <3>3. out' = <<"AT", "CME">> \/ out' = <<"AT", "other">> BY <2>2 DEF Errors
    <3> QED BY <3>1, <3>2, <3>3 DEF OnTheWay
  <2> QED BY <2>1, <2>2, <1>6
<1>8. Shape' BY <1>1, <1>2 DEF Shape, Quiet
<1>9. Asked' BY <1>2, <1>7 DEF Asked, Checking, Busy, Exchange
<1>10. ~(slot1 # NoMsg /\ applied[slot1] = 1)
  <2>1. ~Doomed BY <1>1, CmdKinds DEF Doomed
  <2> QED BY <2>1 DEF Counts
<1>11. slot1 # NoMsg => slot1 \in Msgs BY DEF SmsTypeOK, Texts
<1>12. Counts' BY <1>2, <1>4, <1>5, <1>10, <1>11 DEF Counts
<1> QED BY <1>8, <1>9, <1>12

\* It sets the access point or the quality of service: the message is applied, once.
LEMMA ExecuteSet ==
  ASSUME SmsTypeOK, Shape, Asked, Counts, Execute, state \in {"setting_qos", "kill"}
  PROVE  Shape' /\ Asked' /\ Counts'
<1>1. UNCHANGED << state, text, reader, sent, behind >> BY DEF Execute, daemon, log
<1>2. text = slot1 /\ text \in Msgs /\ slot1 # NoMsg BY Distinct DEF Asked, Busy
<1>3. \/ state = "setting_qos" /\ Head(queue) = Apn /\ queue' = <<>>
      \/ state = "kill" /\ Head(queue) = Apn /\ queue' = <<Qos>>
      \/ state = "kill" /\ Head(queue) = Qos /\ queue' = <<>>
  <2>1. queue # <<>> /\ queue' = Tail(queue) BY DEF Execute
  <2>2. \/ state = "setting_qos" /\ queue = <<Apn>>
        \/ state = "kill" /\ (queue = <<Qos>> \/ queue = <<Apn, Qos>>)
    BY <2>1 DEF Shape
  <2>3. queue = <<Apn>> => Head(queue) = Apn /\ queue' = <<>> BY <2>1, One
  <2>4. queue = <<Qos>> => Head(queue) = Qos /\ queue' = <<>> BY <2>1, One
  <2>5. queue = <<Apn, Qos>> => Head(queue) = Apn /\ queue' = <<Qos>> BY <2>1, Two
  <2> QED BY <2>2, <2>3, <2>4, <2>5
<1>4. slot1' = slot1 /\ rest' = rest BY <1>3, CmdKinds DEF Execute
<1>5. Asked' BY <1>1, <1>4 DEF Asked, Checking, Busy
<1>6. CASE Head(queue) = Apn
  <2>1. \A m \in Msgs : applied'[m] = applied[m] BY <1>6, CmdKinds DEF Execute
  <2>2. (state = "setting_qos" /\ queue' = <<>>) \/ (state = "kill" /\ queue' = <<Qos>> /\ queue # <<>>)
    BY <1>3, <1>6, CmdKinds DEF Execute
  <2>3. <<Qos>> # <<>> /\ ~Doomed BY <1>6, One, CmdKinds DEF Doomed
  <2>4. Shape' BY <2>2, <1>1 DEF Shape, Quiet, Qos
  <2>6. state = "setting_qos" => applied[text] # 1 BY <2>3, <1>2 DEF Counts
  <2>7. state = "kill" => applied[text] # 1 /\ queue' # <<>> BY <2>2, <2>3 DEF Counts
  <2>8. applied'[text] = applied[text] /\ state # "delete_sms" BY <2>1, <1>2
  <2>5. Counts' BY <2>1, <2>6, <2>7, <2>8, <1>1, <1>2, <1>4 DEF Counts
  <2> QED BY <2>4, <2>5, <1>5
<1>7. CASE Head(queue) = Qos
  <2>1. state = "kill" /\ queue # <<>> /\ queue' = <<>> BY <1>3, <1>7, CmdKinds DEF Execute
  <2>2. applied[text] = 0 BY <2>1, <1>2 DEF Counts
  <2>3. applied' = [m \in Msgs |-> IF Qos = Cmd("CGEQREQ", m) /\ applied[m] < 2
                                   THEN applied[m] + 1 ELSE applied[m]]
    BY <1>7 DEF Execute
  <2>4. applied'[text] = 1
    <3>1. 0 < 2 /\ 0 + 1 = 1 BY SMTT(30)
    <3> QED BY <3>1, <2>2, <2>3, <1>2 DEF Qos
  <2>5. \A m \in Msgs : m # text => applied'[m] = applied[m] BY <2>3, CmdKinds
  <2>6. Shape' BY <2>1, <1>1 DEF Shape, Quiet
  <2>7. text \in sent BY <1>2 DEF Counts
  <2>8. Counts' BY <2>1, <2>4, <2>5, <2>7, <1>1, <1>2, <1>4 DEF Counts
  <2> QED BY <2>6, <2>8, <1>5
<1> QED BY <1>3, <1>6, <1>7

\* Execute applies a message once.
LEMMA ExecuteClean ==
  ASSUME SmsTypeOK, Shape, Asked, Counts, Execute PROVE Shape' /\ Asked' /\ Counts'
<1>1. queue # <<>> BY DEF Execute
<1>2. Quiet \/ Busy \/ Checking BY DEF SmsTypeOK, States, Quiet, Busy, Checking
<1>3. CASE state \in {"setting_qos", "kill"} BY <1>3, ExecuteSet
<1>4. CASE state = "asked" /\ queue = <<Ask>> BY <1>4, ExecuteAsk
<1>5. CASE \E d \in Deletes : (Quiet /\ queue = <<d>>) \/ (state = "asked" /\ queue = <<d, Ask>>)
  BY <1>5, ExecuteDelete
<1> QED BY <1>1, <1>2, <1>3, <1>4, <1>5 DEF Shape, Busy, Checking

\* Every step keeps CleanInv.
LEMMA CleanNext == ASSUME SmsTypeOK, CleanInv, [Next]_vars PROVE CleanInv'
<1> SUFFICES ASSUME Clean' PROVE Shape' /\ Asked' /\ Counts' BY DEF CleanInv
<1>0. Clean BY Accidents DEF Clean
<1>1. Shape /\ Asked /\ Counts BY <1>0 DEF CleanInv
<1>2. CASE Execute BY <1>1, <1>2, ExecuteClean
<1>3. CASE Deliver BY <1>1, <1>3, DeliverClean
<1>4. CASE Noise BY <1>1, <1>4, NoiseClean
<1>5. ASSUME NEW m \in Msgs, Receive(m) PROVE Shape' /\ Asked' /\ Counts' BY <1>1, <1>5, ReceiveClean
<1>6. CASE RotateKill
  <2>1. ~Checking /\ reader' # "dead" BY <1>6 DEF RotateKill, Clean
  <2> QED BY <2>1, <1>1, <1>6, AsideClean DEF RotateKill, daemon, store
<1>7. CASE RotateRestart
  <2>1. ~Checking /\ reader' # "dead" BY <1>1, <1>7 DEF RotateRestart, Asked
  <2> QED BY <2>1, <1>1, <1>7, AsideClean DEF RotateRestart, daemon, store, history
<1>8. CASE KillCats BY <1>8 DEF KillCats, Clean
<1>9. CASE Uninitialize \/ SetTextMode \/ Wait
  <2>1. /\ Quiet /\ Quiet' /\ UNCHANGED << text, slot1, rest, queue, reader, sent, behind, applied >>
    BY <1>9 DEF Uninitialize, SetTextMode, Wait, Quiet, store, log, history
  <2>2. /\ state \notin {"asked", "header", "setting_apn", "setting_qos", "kill", "delete_sms"}
        /\ state' \notin {"asked", "header", "setting_apn", "setting_qos", "kill", "delete_sms"}
    BY <2>1 DEF Quiet
  <2>3. Shape' BY <2>1, <2>2, <1>1 DEF Shape
  <2>4. Asked' BY <2>1, <2>2, <1>1 DEF Asked, Checking, Busy
  <2>5. Counts' BY <2>1, <2>2, <1>1 DEF Counts, Doomed
  <2> QED BY <2>3, <2>4, <2>5
<1>10. CASE CheckSms BY <1>1, <1>10, AskClean
<1>11. CASE ReadHeader BY <1>1, <1>11, HeaderClean
<1>12. CASE ReadText BY <1>1, <1>12, TextClean
<1>13. CASE SettingApn \/ SettingQos \/ KillPppd \/ DeleteSms BY <1>1, <1>13, BusyClean
<1>14. CASE UNCHANGED vars
  <2>1. Exchange => Exchange'
    BY <1>14 DEF vars, Exchange, OnTheWay, Echoed, Headed, Whole, Missed, Found, Noisy, Last
  <2>2. Shape' BY <1>1, <1>14 DEF vars, Shape, Quiet, Apn, Qos
  <2>3. Asked' BY <2>1, <1>1, <1>14 DEF vars, Asked, Checking, Busy, Found
  <2>4. Counts' BY <1>1, <1>14 DEF vars, Counts, Doomed
  <2> QED BY <2>2, <2>3, <2>4
<1> QED BY <1>2, <1>3, <1>4, <1>5, <1>6, <1>7, <1>8, <1>9, <1>10, <1>11, <1>12, <1>13, <1>14
        DEF Next, DaemonStep, ModemStep

----------------------------------------------------------------------------
\* NoConfigLost: a deletion that waits is for a message that was applied or is no
\* configuration.

DoomedRight ==
  Doomed => /\ slot1 # NoMsg
            /\ Head(queue).op = "CMGD1" => applied[slot1] = 1
            /\ Head(queue).op = "CMGDALL" => slot1 \notin Config
Handled == \A m \in Config \cap deleted : applied[m] > 0 \/ m \in behind
KeptInv == accidents = {} => DoomedRight /\ Handled

\* What has been applied stays applied.
LEMMA AppliedStays ==
  ASSUME SmsTypeOK, Execute, NEW m \in Msgs
  PROVE  (applied[m] > 0 => applied'[m] > 0) /\ (applied[m] = 1 => applied'[m] > 0)
<1>1. applied[m] \in 0..2 BY DEF SmsTypeOK
<1>2. applied'[m] = applied[m] \/ applied'[m] = applied[m] + 1 BY DEF Execute
<1> QED BY <1>1, <1>2, SMTT(30)

\* The modem executes a command: what it deletes may go.
LEMMA ExecuteKept ==
  ASSUME SmsTypeOK, Shape, Asked, Counts, DoomedRight, Handled, Execute PROVE DoomedRight' /\ Handled'
<1> DEFINE c == Head(queue)
<1>0. Quiet \/ Busy \/ Checking BY DEF SmsTypeOK, States, Quiet, Busy, Checking
<1>1. UNCHANGED << sent, behind >> /\ queue # <<>> /\ queue' = Tail(queue) BY DEF Execute
<1>2. CASE Doomed
  <2>1. c \in Deletes /\ slot1 # NoMsg BY <1>2 DEF Doomed, DoomedRight
  <2>2. c.op = "CMGD1" \/ c.op = "CMGDALL" BY <2>1, CmdKinds
  <2>3. /\ c.op = "CMGD1" => deleted' \subseteq deleted \cup {slot1}
        /\ c.op = "CMGDALL" => deleted' \subseteq deleted \cup {slot1} \cup rest
    BY DEF Execute
  <2>4. ASSUME NEW m \in Config, m \in deleted' PROVE applied'[m] > 0 \/ m \in behind'
    <3>0. m \in Msgs BY Distinct
    <3>1. CASE m \in deleted BY <3>0, <3>1, <1>1, AppliedStays DEF Handled
    <3>2. CASE m \in rest BY <3>2, <1>1 DEF Counts
    <3>3. CASE m = slot1 /\ c.op = "CMGD1" BY <3>0, <3>3, <1>2, AppliedStays DEF DoomedRight
    <3>4. CASE m = slot1 /\ c.op = "CMGDALL" BY <3>4, <1>2 DEF DoomedRight
    <3> QED BY <3>1, <3>2, <3>3, <3>4, <2>2, <2>3, <2>4
  <2>5. ~Doomed'
    <3>a. \A x, y : (queue = <<x>> \/ queue = <<x, y>>) => c = x BY One, Two
    <3>b. c # Apn /\ c # Qos /\ c # Ask BY <2>1, CmdKinds
    <3>2. queue # <<Apn>> /\ queue # <<Qos>> /\ queue # <<Apn, Qos>> /\ queue # <<Ask>> BY <3>a, <3>b
    <3>3. PICK d \in Deletes : queue = <<d>> \/ queue = <<d, Ask>>
      BY <1>0, <3>2, <1>1 DEF Shape, Busy, Checking
    <3>4. queue = <<d>> => queue' = <<>> BY <1>1, One
    <3>5. queue = <<d, Ask>> => queue' = <<Ask>> BY <1>1, Two
    <3>6. queue' = <<>> \/ Head(queue') = Ask BY <3>3, <3>4, <3>5, One
    <3> QED BY <3>6, CmdKinds DEF Doomed, Deletes, Ask
  <2> QED BY <2>4, <2>5 DEF Handled, DoomedRight
<1>3. CASE ~Doomed
  <2>1. state \in {"setting_qos", "kill"} \/ queue = <<Ask>>
    <3>a. \A x, y : (queue = <<x>> \/ queue = <<x, y>>) => c = x BY One, Two
    <3>b. c \notin Deletes BY <1>1, <1>3 DEF Doomed
    <3>2. \A d \in Deletes : queue # <<d>> /\ queue # <<d, Ask>> BY <3>a, <3>b
    <3> QED BY <1>0, <3>2, <1>1 DEF Shape, Busy, Checking
  <2>2. c = Ask \/ c = Apn \/ c = Qos
    <3>1. queue = <<Ask>> \/ queue = <<Apn>> \/ queue = <<Qos>> \/ queue = <<Apn, Qos>>
      BY <2>1, <1>1 DEF Shape
    <3>2. \A x, y : (queue = <<x>> \/ queue = <<x, y>>) => c = x BY One, Two
    <3> QED BY <3>1, <3>2
  <2>3. queue' = <<>> \/ queue' = <<Qos>>
    <3>1. queue = <<Ask>> \/ queue = <<Apn>> \/ queue = <<Qos>> \/ queue = <<Apn, Qos>>
      BY <2>1, <1>1 DEF Shape
    <3>2. \A d : queue = <<d>> => queue' = <<>> BY <1>1, One
    <3>3. queue = <<Apn, Qos>> => queue' = <<Qos>> BY <1>1, Two
    <3> QED BY <3>1, <3>2, <3>3
  <2>4. ~Doomed'
    <3>1. queue' = <<>> \/ Head(queue') = Qos BY <2>3, One
    <3> QED BY <3>1, CmdKinds DEF Doomed, Deletes, Qos
  <2>5. deleted' = deleted BY <2>2, CmdKinds DEF Execute
  <2>6. Handled' BY <2>5, <1>1, AppliedStays, Distinct DEF Handled
  <2> QED BY <2>4, <2>6 DEF DoomedRight
<1> QED BY <1>2, <1>3

\* Every step keeps KeptInv.
LEMMA KeptNext == ASSUME SmsTypeOK, CleanInv, KeptInv, [Next]_vars PROVE KeptInv'
<1> SUFFICES ASSUME accidents' = {} PROVE DoomedRight' /\ Handled' BY DEF KeptInv
<1>0. accidents = {} BY Accidents
<1>1. Shape /\ Asked /\ Counts /\ DoomedRight /\ Handled BY <1>0 DEF CleanInv, KeptInv, Clean
<1>2. CASE Execute BY <1>1, <1>2, ExecuteKept
<1>3. CASE UNCHANGED << queue, slot1, applied, deleted, behind >>
  BY <1>1, <1>3 DEF DoomedRight, Doomed, Handled
<1>4. ASSUME NEW m \in Msgs, Receive(m) PROVE DoomedRight' /\ Handled'
  BY <1>1, <1>4 DEF Receive, DoomedRight, Doomed, Handled
<1>h. ASSUME UNCHANGED << slot1, applied, deleted, behind >>, DoomedRight' PROVE DoomedRight' /\ Handled'
  BY <1>1, <1>h DEF Handled
<1>5. CASE CheckSms
  <2>1. /\ queue' = Append(queue, Ask) /\ state = "check_sms"
        /\ UNCHANGED << slot1, applied, deleted, behind >>
    BY <1>5 DEF CheckSms, Write, Ask, store
  <2>2. queue = <<>> \/ \E d \in Deletes : queue = <<d>> BY <2>1, <1>1 DEF Shape, Quiet
  <2>3. CASE queue = <<>>
    <3>1. Head(queue') = Ask BY <2>1, <2>3, One
    <3> QED BY <3>1, <2>1, <1>h, CmdKinds DEF DoomedRight, Doomed, Deletes, Ask
  <2>4. ASSUME NEW d \in Deletes, queue = <<d>> PROVE DoomedRight' /\ Handled'
    <3>1. queue' = <<d, Ask>> BY <2>1, <2>4, Two
    <3>2. Head(queue') = d /\ Head(queue) = d /\ queue # <<>> BY <3>1, <2>4, One, Two
    <3> QED BY <3>2, <2>1, <1>1, <1>h DEF DoomedRight, Doomed
  <2> QED BY <2>2, <2>3, <2>4
<1>6. CASE ReadHeader
  <2>1. /\ state = "asked" /\ queue = <<>> /\ out = <<>>
        /\ UNCHANGED << slot1, applied, deleted, behind >>
    BY <1>6 DEF ReadHeader, ReadHeaderDeleting, store, Late
  <2>2. Exchange BY <2>1, <1>1 DEF Asked
  <2>3. Whole \/ Missed BY <2>1, <2>2, One, Two, Three, Four DEF Exchange, OnTheWay, Echoed, Headed
  <2>4. row = 1 /\ rows # <<>> /\ rows[1] # "CME"
    <3>1. Whole => rows = <<"CMGR", slot1>> BY <1>0 DEF Whole, Noisy
    <3>2. rows = <<"CMGR", slot1>> => rows # <<>> /\ rows[1] = "CMGR" BY SMTT(30)
    <3> QED BY <3>1, <3>2, <2>3, <1>0 DEF Whole, Missed
  <2>a. 0 # 1 BY SMTT(30)
  <2>5. queue' = queue BY <2>4, <2>a, <1>6 DEF ReadHeader, ReadHeaderDeleting
  <2> QED BY <2>1, <2>5, <1>h DEF DoomedRight, Doomed
<1>7. CASE ReadText
  <2>1. /\ state = "header" /\ UNCHANGED << slot1, applied, deleted, behind >>
        /\ queue' = queue \/ (queue' = queue \o <<Cmd("CMGDALL", NoMsg)>> /\ got \notin Config)
    BY <1>7 DEF ReadText, ReadTextOf, store
  <2>2. queue = <<>> /\ got = slot1 /\ slot1 # NoMsg BY <2>1, <1>0, <1>1 DEF Asked, Found, Shape
  <2>3. CASE queue' = queue BY <2>1, <2>2, <2>3, <1>h DEF DoomedRight, Doomed
  <2>4. CASE queue' = queue \o <<Cmd("CMGDALL", NoMsg)>> /\ got \notin Config
    <3> DEFINE d == Cmd("CMGDALL", NoMsg)
    <3>1. d.op = "CMGDALL" BY CmdFields
    <3> HIDE DEF d
    <3>2. Head(<<>> \o <<d>>) = d BY SMTT(30)
    <3>3. Head(queue') = d BY <3>2, <2>2, <2>4 DEF d
    <3> QED BY <3>1, <3>3, <2>1, <2>2, <2>4, <1>h DEF DoomedRight
  <2> QED BY <2>1, <2>3, <2>4
<1>8. CASE SettingApn \/ SettingQos
  <2>1. /\ state \in {"setting_apn", "setting_qos"} /\ UNCHANGED << slot1, applied, deleted, behind >>
        /\ queue' = Append(queue, Apn) \/ queue' = Append(queue, Qos)
    BY <1>8 DEF SettingApn, SettingQos, Write, Apn, Qos, store, history
  <2>2. queue = <<>> \/ queue = <<Apn>> BY <2>1, <1>1 DEF Shape
  <2>3. Head(queue') = Apn \/ Head(queue') = Qos
    <3>1. PICK x \in {Apn, Qos} : queue' = Append(queue, x) BY <2>1
    <3>2. CASE queue = <<>>
      <4>1. Head(queue') = x BY <3>1, <3>2, One
      <4> QED BY <4>1
    <3>3. CASE queue = <<Apn>>
      <4>1. queue' = <<Apn, x>> BY <3>1, <3>3, Two
      <4> QED BY <4>1, Two
    <3> QED BY <3>2, <3>3, <2>2
  <2>4. ~Doomed' BY <2>3, CmdKinds DEF Doomed, Deletes
  <2> QED BY <2>1, <2>4, <1>h DEF DoomedRight
<1>9. CASE DeleteSms
  <2> DEFINE d == Cmd("CMGD1", NoMsg)
  <2>1. /\ state = "delete_sms" /\ UNCHANGED << slot1, applied, deleted, behind >>
        /\ queue' = Append(queue, d)
    BY <1>9 DEF DeleteSms, Write, store, history
  <2>2. queue = <<>> /\ applied[slot1] = 1 /\ slot1 # NoMsg
    BY <2>1, <1>1, Distinct DEF Shape, Counts, Asked, Busy
  <2>3. Head(queue') = d BY <2>1, <2>2, One
  <2>4. d.op # "CMGDALL" BY SMTT(30) DEF Cmd
  <2> QED BY <2>1, <2>2, <2>3, <2>4, <1>h DEF DoomedRight
<1> QED BY <1>2, <1>3, <1>4, <1>5, <1>6, <1>7, <1>8, <1>9
        DEF Next, DaemonStep, ModemStep, vars, store, history, Deliver, Noise, RotateKill, RotateRestart,
            KillCats, Uninitialize, SetTextMode, KillPppd, Wait

----------------------------------------------------------------------------
SmsInv == SmsTypeOK /\ Settings /\ CleanInv /\ KeptInv

\* An idle daemon and an empty modem.
LEMMA SmsInit == Init => SmsInv
<1> SUFFICES ASSUME Init PROVE SmsInv OBVIOUS
<1>1. SmsTypeOK
  <2>1. <<>> \in Seq(Commands) /\ <<>> \in Seq(Texts \cup Words)
    <3> HIDE DEF Commands, Texts, Words
    <3> QED BY SMTT(30)
  <2>2. applied \in [Msgs -> 0..2]
    <3>1. 0 \in 0..2 BY SMTT(30)
    <3> QED BY <3>1 DEF Init
  <2> QED BY <2>1, <2>2 DEF Init, SmsTypeOK, States, Texts
<1>2. Settings BY DEF Init, Settings
<1>3. CleanInv
  <2>1. Shape BY DEF Init, Shape
  <2>2. Asked BY DEF Init, Asked, Checking, Busy
  <2>a. 0 # 1 BY SMTT(30)
  <2>3. Counts BY <2>a DEF Init, Counts
  <2> QED BY <2>1, <2>2, <2>3 DEF CleanInv
<1>4. KeptInv BY DEF Init, KeptInv, DoomedRight, Doomed, Handled
<1> QED BY <1>1, <1>2, <1>3, <1>4 DEF SmsInv

\* The invariant holds throughout.
LEMMA SmsInvAlways == Spec => []SmsInv
<1>1. SmsInv /\ [Next]_vars => SmsInv' BY TypeNext, SettingsNext, CleanNext, KeptNext DEF SmsInv
<1> QED BY <1>1, SmsInit, PTL DEF Spec

\* pppd is restarted with the access point and the quality of service of one message, unless
\* the modem is late: however many commands wait.
THEOREM PppdRestartsWithSettings == Spec => []RestartsWithSettings
<1>1. SmsInv => RestartsWithSettings BY DEF SmsInv, Settings, RestartsWithSettings
<1> QED BY <1>1, SmsInvAlways, PTL

\* The daemon applies a configuration message at most once, whatever rows and errors come in
\* between.
THEOREM MessagesAppliedOnce == Spec => []AppliedOnce
<1>1. SmsInv => AppliedOnce
  <2> SUFFICES ASSUME SmsInv, Clean, NEW m \in Msgs PROVE applied[m] <= 1 BY DEF AppliedOnce, Clean
  <2>1. applied[m] \in {0, 1} BY DEF SmsInv, CleanInv, Counts
  <2> QED BY <2>1, SMTT(30)
<1> QED BY <1>1, SmsInvAlways, PTL

\* No configuration message is deleted before it was applied, except one that came behind an
\* ordinary message.
THEOREM ConfigurationsAreKept == Spec => []NoConfigLost
<1>1. SmsInv => NoConfigLost BY DEF SmsInv, KeptInv, Handled, NoConfigLost
<1> QED BY <1>1, SmsInvAlways, PTL
=============================================================================
