----------------------------- MODULE FlashProofs ----------------------------
(***************************************************************************)
(* Proofs about what is kept in the flash: the firmware images, the        *)
(* configuration tree, and the files that the pages of the web interface   *)
(* save there. The three are independent of each other.                    *)
(***************************************************************************)
EXTENDS FwUpgrade, BootConfig, WebConfig, TLAPS

USE ZenonT(30)

-----------------------------------------------------------------------------
(***************************************************************************)
(* The firmware upgrade, for any pages, images and partitions, images of   *)
(* any length and any bounds.                                              *)
(***************************************************************************)
Steps == Script \cup {"idle", "upload", "check", "ready", "done"}

\* Types of the variables; only an idle page has no image.
FwTypeOK ==
    /\ pc \in [Pages -> Steps]
    /\ img \in [Pages -> Images \cup {None}]
    /\ k \in [Pages -> 1..(N + 1)]
    /\ newFw \in [1..N -> Images \cup {None, Zero}]
    /\ flash \in [Parts -> [1..N -> Images \cup {Zero, Old, Bad}]]
    /\ txt \in Pages \cup {None}
    /\ fd \in [Pages -> Pages \cup {None}]
    /\ last \in [Pages -> {"none", "failed", "success"}]
    /\ overlap \subseteq Running \cup {p \in Pages : pc[p] = "done"}
    /\ \A p \in Pages :
          /\ pc[p] # "idle" => img[p] \in Images
          /\ pc[p] \in Script \cup {"done"} => Part[img[p]] \in Parts
          /\ pc[p] = "upload" => k[p] # N + 1
          /\ pc[p] \in {"write", "verify", "read"} => fd[p] \in Pages

\* The upload of page p is the last one, and no other is still going on.
Owner(p) == pc[p] # "idle" /\ p \notin replaced

\* /tmp/new_fw is the file of the page that owns it, checked after the check.
OwnFile(p) ==
    /\ \A q \in Pages : pc[q] = "upload" => q = p
    /\ pc[p] = "upload" => newFw = [n \in 1..N |-> IF n < k[p] THEN img[p] ELSE None]
    /\ pc[p] # "upload" => newFw = Whole(img[p])
    /\ pc[p] \notin {"upload", "check"} => img[p] \in Valid

FileInv == \A p \in Pages : Owner(p) => OwnFile(p)

\* A script that no other one ran beside is alone, writes its result into the
\* file it will look at, and says "success" only of what it has compared.
Ended(p) == pc[p] \in {"finish", "done"} \/ (pc[p] = "read" /\ last[fd[p]] = "success")

OwnScript(p) ==
    /\ \A q \in Running : q = p
    /\ pc[p] \in {"write", "verify", "read"} => txt = fd[p]
    /\ p \notin replaced /\ pc[p] = "verify" =>
          \A n \in 1..N : n < k[p] => flash[Part[img[p]]][n] = img[p]
    /\ p \notin replaced /\ Ended(p) => flash[Part[img[p]]] = Whole(img[p])

Alone(p) == pc[p] \in Script \cup {"done"} /\ p \notin overlap

ScriptInv == \A p \in Pages : Alone(p) => OwnScript(p)

\* Without a swapped file every running script has a checked image of its own.
SwapInv ==
    "swapped" \notin mishaps =>
        /\ \A p \in Running : Owner(p)
        /\ \A d \in Parts, n \in 1..N : flash[d][n] \notin Images \ Valid

\* Without any mishap a partition is whole unless the one script writes to it.
PartInv ==
    mishaps = {} =>
        /\ \A p \in Running : p \notin overlap
        /\ \A d \in Parts :
              \/ \E p \in Running : d = Part[img[p]]
              \/ \E b \in Valid \cup {Old} : flash[d] = Whole(b)

FwInv == FwTypeOK /\ FileInv /\ ScriptInv /\ SwapInv /\ PartInv

-----------------------------------------------------------------------------

\* The blocks of an upload are written in order.
LEMMA NextBlock ==
    ASSUME NEW n \in 1..N PROVE (n % N) + 1 \in 1..N /\ (n # N => (n % N) + 1 = n + 1)
<1>1. N \in Nat \ {0} /\ n \in Nat /\ n <= N
  BY FwAssumption, SMTT(30)
<1>2. CASE n = N
  <2>1. n % N = 0
    BY <1>1, <1>2, SMTT(30)
  <2> QED
    BY <1>1, <1>2, <2>1, SMTT(30)
<1>3. CASE n # N
  <2>1. n % N = n
    BY <1>1, <1>3, SMTT(30)
  <2> QED
    BY <1>1, <1>3, <2>1, SMTT(30)
<1> QED
  BY <1>2, <1>3

\* A write changes one block of one partition.
LEMMA OneBlock ==
    ASSUME NEW S, NEW f \in [Parts -> [1..N -> S]], NEW d \in Parts, NEW n \in 1..N, NEW b \in S
    PROVE  [f EXCEPT ![d][n] = b] \in [Parts -> [1..N -> S]]
<1>1. [f[d] EXCEPT ![n] = b] \in [1..N -> S]
  OBVIOUS
<1> QED
  OBVIOUS

\* Every step keeps the types.
LEMMA TypeNext ==
    ASSUME FwTypeOK, [Next]_vars PROVE FwTypeOK'
<1>1. CASE PowerCut
  BY <1>1, FwAssumption, SMTT(30)
  DEF PowerCut, Restart, Running, Empty, Script, Whole, FwTypeOK, Steps
<1>2. ASSUME NEW p \in Pages, NEW i \in Images, Upload(p, i) PROVE FwTypeOK'
  BY <1>2, FwAssumption, SMTT(30)
  DEF Upload, tool, Running, Empty, Goto, Block, Script, Whole, FwTypeOK, Steps
<1>3. ASSUME NEW p \in Pages, UploadBlock(p) PROVE FwTypeOK'
  <2>1. k[p] \in 1..N /\ img[p] \in Images
    BY <1>3, FwAssumption, SMTT(30) DEF UploadBlock, FwTypeOK
  <2>2. (k[p] % N) + 1 \in 1..N
    BY <2>1, NextBlock
  <2> DEFINE next == (k[p] % N) + 1
  <2>3. k' = [k EXCEPT ![p] = next]
    BY <1>3 DEF UploadBlock, Block
  <2> HIDE DEF next
  <2>4. newFw' \in [1..N -> Images \cup {None, Zero}]
    BY <1>3, <2>1 DEF UploadBlock, FwTypeOK
  <2>5. next \in 1..N
    BY <2>2 DEF next
  <2>6. /\ k' \in [Pages -> 1..(N + 1)] /\ k'[p] # N + 1
        /\ \A q \in Pages : q # p => k'[q] = k[q]
    BY <2>3, <2>5, FwAssumption, SMTT(30) DEF FwTypeOK
  <2>7. /\ pc' \in [Pages -> Steps] /\ pc'[p] \in {"upload", "check"} /\ pc[p] = "upload"
        /\ \A q \in Pages : q # p => pc'[q] = pc[q]
    BY <1>3 DEF UploadBlock, Goto, FwTypeOK, Steps
  <2>8. UNCHANGED <<img, flash, txt, fd, last, overlap>>
    BY <1>3 DEF UploadBlock, tool
  <2> QED
    BY <2>1, <2>4, <2>6, <2>7, <2>8, FwAssumption DEF FwTypeOK, Running, Script
<1>4. ASSUME NEW p \in Pages, UploadFails(p) PROVE FwTypeOK'
  BY <1>4, FwAssumption, SMTT(30)
  DEF UploadFails, tool, bounds, Leave, Goto, FwTypeOK, Steps, Script, Running
<1>5. ASSUME NEW p \in Pages, CheckHeader(p) PROVE FwTypeOK'
  <2>1. CASE Goto(p, "ready") /\ UNCHANGED <<img, k, replaced, overlap>>
    BY <1>5, <2>1 DEF CheckHeader, Goto, tool, FwTypeOK, Steps, Script, Running
  <2>2. CASE Leave(p)
    BY <1>5, <2>2, FwAssumption, SMTT(30)
    DEF CheckHeader, Leave, Goto, tool, FwTypeOK, Steps, Script, Running
  <2> QED
    BY <1>5, <2>1, <2>2 DEF CheckHeader
<1>6. ASSUME NEW p \in Pages, Confirm(p) PROVE FwTypeOK'
  BY <1>6, FwAssumption, SMTT(30)
  DEF Confirm, tool, bounds, Running, Goto, Script, FwTypeOK, Steps
<1>7. ASSUME NEW p \in Pages, Cancel(p) PROVE FwTypeOK'
  BY <1>7, FwAssumption, SMTT(30)
  DEF Cancel, tool, bounds, Leave, Goto, FwTypeOK, Steps, Script, Running
<1>8. ASSUME NEW p \in Pages, StartFwmng(p) PROVE FwTypeOK'
  BY <1>8, FwAssumption, SMTT(30)
  DEF StartFwmng, OpenTxt, bounds, Goto, Block, FwTypeOK, Steps, Script, Running
<1>9. ASSUME NEW p \in Pages, WriteBlock(p) PROVE FwTypeOK'
  <2>0. pc[p] = "write" /\ img[p] \in Images /\ Part[img[p]] \in Parts
    BY <1>9 DEF WriteBlock, FwTypeOK, Script
  <2>1. /\ pc[p] = "write" /\ img[p] \in Images /\ Part[img[p]] \in Parts
        /\ k[p] \in 1..N /\ newFw[k[p]] \in Images \cup {Zero}
    BY <1>9, <2>0, FwAssumption, SMTT(30) DEF WriteBlock, AtEnd, FwTypeOK
  <2>2. flash' \in [Parts -> [1..N -> Images \cup {Zero, Old, Bad}]]
    <3> DEFINE S == Images \cup {Zero, Old, Bad}
    <3>1. PICK b \in S : flash' = [flash EXCEPT ![Part[img[p]]][k[p]] = b]
      BY <1>9, <2>1 DEF WriteBlock
    <3>2. flash \in [Parts -> [1..N -> S]]
      BY DEF FwTypeOK
    <3> HIDE DEF S
    <3>3. flash' \in [Parts -> [1..N -> S]]
      BY <3>1, <3>2
    <3> QED
      BY <3>3 DEF S
  <2>3. /\ k' \in [Pages -> 1..(N + 1)] /\ \A q \in Pages : q # p => k'[q] = k[q]
        /\ UNCHANGED <<pc, img, newFw, txt, fd, last, overlap>>
    BY <1>9, <2>1, FwAssumption, SMTT(30) DEF WriteBlock, Block, tool, FwTypeOK
  <2>4. Running' = Running
    BY <2>3 DEF Running
  <2> QED
    BY <2>1, <2>2, <2>3, <2>4 DEF FwTypeOK
<1>10. ASSUME NEW p \in Pages, WriteEnd(p) PROVE FwTypeOK'
  BY <1>10, FwAssumption, SMTT(30)
  DEF WriteEnd, tool, bounds, Goto, Block, AtEnd, FwTypeOK, Steps, Script, Running
<1>11. ASSUME NEW p \in Pages, VerifyBlock(p) PROVE FwTypeOK'
  <2>1. pc[p] = "verify" /\ fd[p] \in Pages /\ (~ AtEnd(p) => k[p] \in 1..N)
    BY <1>11, FwAssumption, SMTT(30) DEF VerifyBlock, AtEnd, FwTypeOK
  <2>2. UNCHANGED <<img, newFw, flash, txt, fd, overlap>>
    BY <1>11 DEF VerifyBlock, Result, tool
  <2>3. CASE ~ AtEnd(p) /\ Block(p, k[p] + 1) /\ UNCHANGED <<pc, tool>>
    BY <2>1, <2>2, <2>3, FwAssumption, SMTT(30) DEF Block, tool, FwTypeOK, Script, Running
  <2>4. ASSUME NEW r \in {"failed", "success"}, Block(p, 1), Result(p, r) PROVE FwTypeOK'
    BY <2>1, <2>2, <2>4, FwAssumption, SMTT(30)
    DEF Block, Result, Goto, FwTypeOK, Steps, Script, Running
  <2> QED
    BY <1>11, <2>3, <2>4 DEF VerifyBlock
<1>12. ASSUME NEW p \in Pages, ReadResult(p) PROVE FwTypeOK'
  BY <1>12 DEF ReadResult, tool, bounds, Goto, FwTypeOK, Steps, Script, Running
<1>13. ASSUME NEW p \in Pages, RemoveResult(p) PROVE FwTypeOK'
  BY <1>13 DEF RemoveResult, bounds, Goto, Unlink, FwTypeOK, Steps, Script, Running
<1>14. ASSUME NEW p \in Pages, Reboot(p) PROVE FwTypeOK'
  BY <1>14, FwAssumption, SMTT(30)
  DEF Reboot, Restart, Running, Empty, Script, Whole, FwTypeOK, Steps
<1>15. CASE UNCHANGED vars
  BY <1>15 DEF vars, FwTypeOK, Running
<1>16. ASSUME NEW p \in Pages, FwmngFails(p) PROVE FwTypeOK'
  BY <1>16, FwAssumption, SMTT(30)
  DEF FwmngFails, OpenTxt, Goto, Block, FwTypeOK, Steps, Script, Running
<1> QED
  BY <1>1, <1>2, <1>3, <1>4, <1>5, <1>6, <1>7, <1>8, <1>9, <1>10, <1>11, <1>12, <1>13,
     <1>14, <1>15, <1>16
  DEF Next, Page, Upgrade, ConfirmOther, Cancel

\* The file stays as it is while scripts go on.
LEMMA FileFrame ==
    ASSUME FileInv, UNCHANGED <<newFw, replaced, img>>,
           \A q \in Pages : \/ pc'[q] = pc[q] /\ (pc[q] = "upload" => k'[q] = k[q])
                            \/ /\ pc[q] \notin {"idle", "upload", "check"}
                               /\ pc'[q] \notin {"idle", "upload", "check"}
    PROVE  FileInv'
<1> SUFFICES ASSUME NEW q \in Pages, Owner(q)' PROVE OwnFile(q)'
  BY DEF FileInv
<1>1. OwnFile(q)
  BY DEF FileInv, Owner
<1> QED
  BY <1>1 DEF OwnFile

\* Every step keeps FileInv.
LEMMA FileNext ==
    ASSUME FwTypeOK, FileInv, [Next]_vars PROVE FileInv'
<1>1. CASE PowerCut
  BY <1>1 DEF PowerCut, Restart, FileInv, Owner
<1>2. ASSUME NEW p \in Pages, NEW i \in Images, Upload(p, i) PROVE FileInv'
  BY <1>2, FwAssumption, SMTT(30)
  DEF Upload, tool, Running, Empty, Goto, Block, Script, Whole, FwTypeOK, FileInv, OwnFile,
      Owner
<1>3. ASSUME NEW p \in Pages, UploadBlock(p) PROVE FileInv'
  <2>1. /\ pc[p] = "upload" /\ k[p] \in 1..N /\ img[p] \in Images
        /\ UNCHANGED <<img, replaced>>
    BY <1>3, FwAssumption, SMTT(30) DEF UploadBlock, FwTypeOK
  <2> DEFINE next == (k[p] % N) + 1
  <2>2. k[p] # N => next = k[p] + 1
    BY <2>1, NextBlock
  <2>3. k' = [k EXCEPT ![p] = next]
    BY <1>3 DEF UploadBlock, Block
  <2> HIDE DEF next
  <2>4. /\ \A q \in Pages : pc'[q] = "upload" => pc[q] = "upload"
        /\ pc'[p] = IF k[p] = N THEN "check" ELSE "upload"
        /\ \A q \in Pages : pc'[q] # "idle" => pc[q] # "idle"
    BY <1>3 DEF UploadBlock, Goto, FwTypeOK
  <2> SUFFICES ASSUME NEW q \in Pages, Owner(q)' PROVE OwnFile(q)'
    BY DEF FileInv
  <2>5. OwnFile(q) /\ q = p
    BY <2>1, <2>4 DEF FileInv, Owner, OwnFile
  <2>6. newFw = [n \in 1..N |-> IF n < k[p] THEN img[p] ELSE None] /\ img[p] # None
    BY <2>1, <2>5, FwAssumption DEF OwnFile
  <2>7. newFw' = [n \in 1..N |-> IF n = k[p] \/ n < k[p] THEN img[p] ELSE None]
    BY <1>3, <2>6 DEF UploadBlock
  <2>8. CASE k[p] = N
    <3>1. newFw' = Whole(img[p])
      BY <2>1, <2>7, <2>8, FwAssumption, SMTT(30) DEF Whole
    <3> QED
      BY <3>1, <2>1, <2>4, <2>5, <2>8 DEF OwnFile
  <2>9. CASE k[p] # N
    <3>1. k'[p] = k[p] + 1
      BY <2>2, <2>3, <2>9 DEF FwTypeOK
    <3>2. newFw' = [n \in 1..N |-> IF n < k'[p] THEN img[p] ELSE None]
      BY <2>1, <2>7, <3>1, FwAssumption, SMTT(30)
    <3> QED
      BY <3>2, <2>1, <2>4, <2>5, <2>9 DEF OwnFile
  <2> QED
    BY <2>8, <2>9
<1>4. ASSUME NEW p \in Pages, UploadFails(p) PROVE FileInv'
  BY <1>4, FwAssumption
  DEF UploadFails, tool, bounds, Leave, Goto, FwTypeOK, FileInv, OwnFile, Owner
<1>5. ASSUME NEW p \in Pages, CheckHeader(p) PROVE FileInv'
  <2>1. pc[p] = "check" /\ newFw' = newFw
    BY <1>5 DEF CheckHeader
  <2>2. CASE newFw[1] \in Valid /\ Goto(p, "ready") /\ UNCHANGED <<img, k, replaced, overlap>>
    <3> SUFFICES ASSUME NEW q \in Pages, Owner(q)' PROVE OwnFile(q)'
      BY DEF FileInv
    <3>1. OwnFile(q) /\ (q # p => pc'[q] = pc[q]) /\ pc'[p] = "ready"
      BY <2>1, <2>2 DEF FileInv, Owner, Goto, FwTypeOK
    <3>2. \A r \in Pages : pc'[r] = "upload" => r = q
      BY <2>1, <2>2, <3>1 DEF OwnFile, Goto, FwTypeOK
    <3>3. newFw[1] = img[p] \/ q # p
      BY <2>1, <3>1, FwAssumption, SMTT(30) DEF OwnFile, Whole
    <3> QED
      BY <2>1, <2>2, <3>1, <3>2, <3>3 DEF OwnFile
  <2>3. CASE Leave(p)
    <3> SUFFICES ASSUME NEW q \in Pages, Owner(q)' PROVE OwnFile(q)'
      BY DEF FileInv
    <3>1. q # p /\ pc'[q] = pc[q] /\ img'[q] = img[q] /\ k'[q] = k[q] /\ OwnFile(q)
      BY <2>3 DEF Leave, Goto, FileInv, Owner, FwTypeOK
    <3>2. \A r \in Pages : pc'[r] = "upload" => r = q
      BY <2>3, <3>1 DEF OwnFile, Leave, Goto, FwTypeOK
    <3> QED
      BY <2>1, <3>1, <3>2 DEF OwnFile
  <2> QED
    BY <1>5, <2>2, <2>3 DEF CheckHeader
<1>6. ASSUME NEW p \in Pages, Confirm(p) PROVE FileInv'
  BY <1>6, FileFrame DEF Confirm, Goto, FwTypeOK
<1>7. ASSUME NEW p \in Pages, Cancel(p) PROVE FileInv'
  BY <1>7, FwAssumption, SMTT(30)
  DEF Cancel, tool, bounds, Leave, Goto, FwTypeOK, FileInv, OwnFile, Owner
<1>8. ASSUME NEW p \in Pages, StartFwmng(p) PROVE FileInv'
  BY <1>8, FileFrame DEF StartFwmng, OpenTxt, Goto, Block, FwTypeOK
<1>9. ASSUME NEW p \in Pages, WriteBlock(p) PROVE FileInv'
  BY <1>9, FileFrame DEF WriteBlock, Block, FwTypeOK
<1>10. ASSUME NEW p \in Pages, WriteEnd(p) PROVE FileInv'
  BY <1>10, FileFrame DEF WriteEnd, Goto, Block, FwTypeOK
<1>11. ASSUME NEW p \in Pages, VerifyBlock(p) PROVE FileInv'
  BY <1>11, FileFrame, FwAssumption, SMTT(30) DEF VerifyBlock, Result, Goto, Block, FwTypeOK
<1>12. ASSUME NEW p \in Pages, ReadResult(p) PROVE FileInv'
  BY <1>12, FileFrame DEF ReadResult, Goto, FwTypeOK
<1>13. ASSUME NEW p \in Pages, RemoveResult(p) PROVE FileInv'
  BY <1>13, FileFrame DEF RemoveResult, Goto, FwTypeOK
<1>14. ASSUME NEW p \in Pages, Reboot(p) PROVE FileInv'
  BY <1>14 DEF Reboot, Restart, FileInv, Owner
<1>15. CASE UNCHANGED vars
  BY <1>15, FileFrame DEF vars
<1>16. ASSUME NEW p \in Pages, FwmngFails(p) PROVE FileInv'
  BY <1>16, FileFrame DEF FwmngFails, OpenTxt, Goto, Block, FwTypeOK
<1> QED
  BY <1>1, <1>2, <1>3, <1>4, <1>5, <1>6, <1>7, <1>8, <1>9, <1>10, <1>11, <1>12, <1>13,
     <1>14, <1>15, <1>16
  DEF Next, Page, Upgrade, ConfirmOther, Cancel

\* Nothing changes for the scripts while pages upload.
LEMMA ScriptFrame ==
    ASSUME ScriptInv, UNCHANGED <<flash, txt, fd, last>>,
           \A q \in Pages :
              \/ pc[q] \notin Script \cup {"done"} /\ pc'[q] \notin Script \cup {"done"}
              \/ /\ pc'[q] = pc[q] /\ img'[q] = img[q] /\ k'[q] = k[q]
                 /\ q \in overlap => q \in overlap'
                 /\ q \in replaced => q \in replaced'
    PROVE  ScriptInv'
<1>1. \A q \in Pages : q \in Running' => q \in Running
  BY DEF Running
<1> SUFFICES ASSUME NEW q \in Pages, Alone(q)' PROVE OwnScript(q)'
  BY DEF ScriptInv
<1>2. OwnScript(q) /\ pc'[q] = pc[q] /\ img'[q] = img[q] /\ k'[q] = k[q]
      /\ (q \in replaced => q \in replaced')
  BY DEF ScriptInv, Alone
<1> QED
  BY <1>2 DEF OwnScript, Ended, Running

\* Every step keeps ScriptInv.
LEMMA ScriptNext ==
    ASSUME FwTypeOK, FileInv, ScriptInv, [Next]_vars PROVE ScriptInv'
<1>1. CASE PowerCut
  BY <1>1 DEF PowerCut, Restart, Running, Script, ScriptInv, Alone
<1>2. ASSUME NEW p \in Pages, NEW i \in Images, Upload(p, i) PROVE ScriptInv'
  BY <1>2, ScriptFrame DEF Upload, Goto, Block, tool, FwTypeOK, Script
<1>3. ASSUME NEW p \in Pages, UploadBlock(p) PROVE ScriptInv'
  BY <1>3, ScriptFrame, FwAssumption, SMTT(30)
  DEF UploadBlock, Goto, Block, tool, FwTypeOK, Script
<1>4. ASSUME NEW p \in Pages, UploadFails(p) PROVE ScriptInv'
  BY <1>4, ScriptFrame DEF UploadFails, Leave, Goto, tool, FwTypeOK, Script
<1>5. ASSUME NEW p \in Pages, CheckHeader(p) PROVE ScriptInv'
  BY <1>5, ScriptFrame, FwAssumption, SMTT(30)
  DEF CheckHeader, Leave, Goto, tool, FwTypeOK, Script
<1>6. ASSUME NEW p \in Pages, Confirm(p) PROVE ScriptInv'
  BY <1>6, FwAssumption, SMTT(30)
  DEF Confirm, tool, bounds, Running, Goto, Script, FwTypeOK, FileInv, OwnFile, Owner,
      ScriptInv, OwnScript, Alone, Ended, Whole
<1>7. ASSUME NEW p \in Pages, Cancel(p) PROVE ScriptInv'
  BY <1>7, ScriptFrame DEF Cancel, Leave, Goto, tool, FwTypeOK, Script
<1>8. ASSUME NEW p \in Pages, StartFwmng(p) PROVE ScriptInv'
  BY <1>8, FwAssumption, SMTT(30)
  DEF StartFwmng, OpenTxt, bounds, Goto, Block, FwTypeOK, Script, Running, FileInv, OwnFile, Owner,
      ScriptInv, OwnScript, Alone, Ended, Whole
<1>9. ASSUME NEW p \in Pages, WriteBlock(p) PROVE ScriptInv'
  BY <1>9, FwAssumption
  DEF WriteBlock, tool, AtEnd, FwTypeOK, Script, Running, FileInv, OwnFile, Owner,
      ScriptInv, OwnScript, Alone, Ended, Whole
<1>10. ASSUME NEW p \in Pages, WriteEnd(p) PROVE ScriptInv'
  BY <1>10, FwAssumption, SMTT(30)
  DEF WriteEnd, tool, bounds, Goto, Block, AtEnd, FwTypeOK, Script, Running, FileInv,
      OwnFile, Owner, ScriptInv, OwnScript, Alone, Ended, Whole
<1>11. ASSUME NEW p \in Pages, VerifyBlock(p) PROVE ScriptInv'
  <2>1. pc[p] = "verify" /\ UNCHANGED <<img, newFw, flash, txt, fd, replaced, overlap>>
    BY <1>11 DEF VerifyBlock, Result, tool
  <2>2. \A q \in Pages : Alone(q) => q = p
    BY <2>1 DEF ScriptInv, OwnScript, Running, Script
  <2>3. /\ \A q \in Pages : Alone(q)' => Alone(q)
        /\ \A q \in Pages : q \in Running' => q \in Running
    BY <1>11, FwAssumption
    DEF VerifyBlock, Result, Alone, Running, Script, Goto, FwTypeOK
  <2> SUFFICES ASSUME Alone(p)' PROVE OwnScript(p)'
    BY <2>2, <2>3 DEF ScriptInv
  <2>4. OwnScript(p)
    BY <2>3 DEF ScriptInv
  <2>5. /\ txt = fd[p] /\ fd[p] \in Pages /\ k[p] \in 1..(N + 1)
        /\ p \notin replaced => newFw = Whole(img[p]) /\ img[p] # None
    BY <2>1, <2>4, FwAssumption DEF OwnScript, FileInv, OwnFile, Owner, FwTypeOK
  <2>6. CASE ~ AtEnd(p) /\ Same(p) /\ Block(p, k[p] + 1) /\ UNCHANGED <<pc, tool>>
    <3>1. k'[p] = k[p] + 1 /\ k[p] \in 1..N /\ pc' = pc
      BY <2>5, <2>6, FwAssumption, SMTT(30) DEF AtEnd, Block, FwTypeOK
    <3>2. p \notin replaced => flash[Part[img[p]]][k[p]] = img[p]
      BY <2>5, <2>6, <3>1 DEF Same, Whole
    <3>3. p \notin replaced => \A n \in 1..N : n < k'[p] => flash[Part[img[p]]][n] = img[p]
      BY <2>1, <2>4, <3>1, <3>2, FwAssumption, SMTT(30) DEF OwnScript
    <3> QED
      BY <2>1, <2>4, <3>1, <3>3 DEF OwnScript, Ended, Running
  <2>7. CASE Result(p, "failed")
    <3>1. pc'[p] = "read" /\ last'[fd[p]] = "failed"
      BY <2>5, <2>7 DEF Result, Goto, FwTypeOK
    <3> QED
      BY <2>1, <2>3, <2>4, <3>1 DEF OwnScript, Ended, Running
  <2>8. CASE AtEnd(p) /\ Result(p, "success")
    <3>1. pc'[p] = "read"
      BY <2>8 DEF Result, Goto, FwTypeOK
    <3>2. p \notin replaced => k[p] = N + 1
      BY <2>5, <2>8, FwAssumption, SMTT(30) DEF AtEnd, Whole
    <3>3. Part[img[p]] \in Parts
      BY <2>1 DEF FwTypeOK, Script
    <3>4. p \notin replaced => flash[Part[img[p]]] = Whole(img[p])
      BY <2>1, <2>4, <3>2, <3>3, FwAssumption, SMTT(30) DEF OwnScript, FwTypeOK, Whole
    <3> QED
      BY <2>1, <2>3, <2>4, <3>1, <3>4 DEF OwnScript, Running
  <2> QED
    BY <1>11, <2>6, <2>7, <2>8 DEF VerifyBlock
<1>12. ASSUME NEW p \in Pages, ReadResult(p) PROVE ScriptInv'
  <2>1. pc[p] = "read" /\ UNCHANGED <<img, k, flash, txt, fd, last, replaced, overlap>>
    BY <1>12 DEF ReadResult, tool
  <2>2. \A q \in Pages : Alone(q) => q = p
    BY <1>12, <2>1 DEF ScriptInv, OwnScript, Running, Script
  <2>3. /\ \A q \in Pages : Alone(q)' => Alone(q)
        /\ \A q \in Pages : q \in Running' => q \in Running
    BY <1>12 DEF ReadResult, Alone, Running, Script, Goto, FwTypeOK
  <2> SUFFICES ASSUME Alone(p)' PROVE OwnScript(p)'
    BY <2>2, <2>3 DEF ScriptInv
  <2>4. OwnScript(p)
    BY <2>3 DEF ScriptInv
  <2>5. pc'[p] = IF txt # None /\ last[txt] = "success" THEN "finish" ELSE "again"
    BY <1>12 DEF ReadResult, Goto, FwTypeOK
  <2> QED
    BY <2>1, <2>3, <2>4, <2>5 DEF OwnScript, Ended, Running
<1>13. ASSUME NEW p \in Pages, RemoveResult(p) PROVE ScriptInv'
  <2>1. pc[p] \in {"finish", "again"} /\ UNCHANGED <<img, k, flash, replaced, overlap>>
    BY <1>13 DEF RemoveResult
  <2>2. \A q \in Pages : Alone(q) => q = p
    BY <2>1 DEF ScriptInv, OwnScript, Running, Script
  <2>3. /\ \A q \in Pages : Alone(q)' => Alone(q)
        /\ \A q \in Pages : q \in Running' => q \in Running
    BY <1>13 DEF RemoveResult, Alone, Running, Script, Goto, FwTypeOK
  <2> SUFFICES ASSUME Alone(p)' PROVE OwnScript(p)'
    BY <2>2, <2>3 DEF ScriptInv
  <2>4. OwnScript(p)
    BY <2>3 DEF ScriptInv
  <2>5. pc'[p] = IF pc[p] = "finish" THEN "done" ELSE "start"
    BY <1>13 DEF RemoveResult, Goto, FwTypeOK
  <2> QED
    BY <2>1, <2>3, <2>4, <2>5 DEF OwnScript, Ended, Running
<1>14. ASSUME NEW p \in Pages, Reboot(p) PROVE ScriptInv'
  BY <1>14 DEF Reboot, Restart, Script, ScriptInv, Alone
<1>15. CASE UNCHANGED vars
  BY <1>15, ScriptFrame DEF vars
<1>16. ASSUME NEW p \in Pages, FwmngFails(p) PROVE ScriptInv'
  BY <1>16, FwAssumption, SMTT(30)
  DEF FwmngFails, OpenTxt, Goto, Block, FwTypeOK, Script, Running, FileInv, OwnFile, Owner,
      ScriptInv, OwnScript, Alone, Ended, Whole
<1> QED
  BY <1>1, <1>2, <1>3, <1>4, <1>5, <1>6, <1>7, <1>8, <1>9, <1>10, <1>11, <1>12, <1>13,
     <1>14, <1>15, <1>16
  DEF Next, Page, Upgrade, ConfirmOther, Cancel

\* Every step keeps SwapInv.
LEMMA SwapNext ==
    ASSUME FwTypeOK, FileInv, SwapInv, [Next]_vars PROVE SwapInv'
<1>1. CASE PowerCut
  BY <1>1 DEF PowerCut, Restart, Running, Script, SwapInv
<1>2. ASSUME NEW p \in Pages, NEW i \in Images, Upload(p, i) PROVE SwapInv'
  BY <1>2 DEF Upload, Running, Empty, Goto, Script, Whole, FwTypeOK, SwapInv
<1>3. ASSUME NEW p \in Pages, UploadBlock(p) PROVE SwapInv'
  BY <1>3, FwAssumption, SMTT(30)
  DEF UploadBlock, tool, bounds, Goto, Block, FwTypeOK, Script, Running, FileInv, OwnFile,
      Owner, SwapInv
<1>4. ASSUME NEW p \in Pages, UploadFails(p) PROVE SwapInv'
  BY <1>4, FwAssumption
  DEF UploadFails, tool, bounds, Leave, Goto, FwTypeOK, Script, Running, FileInv, OwnFile,
      Owner, SwapInv
<1>5. ASSUME NEW p \in Pages, CheckHeader(p) PROVE SwapInv'
  BY <1>5, FwAssumption, SMTT(30)
  DEF CheckHeader, tool, bounds, Goto, Leave, FwTypeOK, Script, Running, FileInv, OwnFile,
      Owner, SwapInv
<1>6. ASSUME NEW p \in Pages, Confirm(p) PROVE SwapInv'
  BY <1>6 DEF Confirm, tool, bounds, Running, Goto, FwTypeOK, FileInv, Owner, SwapInv
<1>7. ASSUME NEW p \in Pages, Cancel(p) PROVE SwapInv'
  BY <1>7 DEF Cancel, tool, bounds, Leave, Goto, FwTypeOK, Script, Running, Owner, SwapInv
<1>8. ASSUME NEW p \in Pages, StartFwmng(p) PROVE SwapInv'
  BY <1>8, FwAssumption
  DEF StartFwmng, OpenTxt, bounds, Goto, Block, FwTypeOK, Script, Running, FileInv, OwnFile, Owner,
      SwapInv
<1>9. ASSUME NEW p \in Pages, WriteBlock(p) PROVE SwapInv'
  <2> SUFFICES ASSUME "swapped" \notin mishaps
               PROVE  /\ \A q \in Running' : Owner(q)'
                      /\ \A d \in Parts, n \in 1..N : flash'[d][n] \notin Images \ Valid
    BY <1>9 DEF SwapInv, WriteBlock
  <2>1. /\ p \in Running /\ pc[p] = "write" /\ k[p] \in 1..N /\ Part[img[p]] \in Parts
        /\ UNCHANGED <<pc, replaced>>
    BY <1>9, FwAssumption, SMTT(30) DEF WriteBlock, AtEnd, FwTypeOK, Running, Script
  <2>2. newFw[k[p]] \in Valid
    BY <2>1, FwAssumption, SMTT(30) DEF SwapInv, FileInv, OwnFile, Whole
  <2>3. \E b \in Valid \cup {Bad} : flash' = [flash EXCEPT ![Part[img[p]]][k[p]] = b]
    BY <1>9, <2>2 DEF WriteBlock
  <2>4. \A d \in Parts, n \in 1..N : flash'[d][n] \notin Images \ Valid
    BY <2>1, <2>3, FwAssumption, SMTT(30) DEF SwapInv, FwTypeOK
  <2> QED
    BY <2>1, <2>4 DEF SwapInv, Running, Owner
<1>10. ASSUME NEW p \in Pages, WriteEnd(p) PROVE SwapInv'
  BY <1>10, FwAssumption
  DEF WriteEnd, tool, bounds, Goto, Block, AtEnd, FwTypeOK, Script, Running, FileInv,
      OwnFile, Owner, SwapInv
<1>11. ASSUME NEW p \in Pages, VerifyBlock(p) PROVE SwapInv'
  BY <1>11, FwAssumption, SMTT(30)
  DEF VerifyBlock, tool, bounds, Block, AtEnd, Same, Result, Goto, FwTypeOK, Script,
      Running, FileInv, OwnFile, Owner, SwapInv
<1>12. ASSUME NEW p \in Pages, ReadResult(p) PROVE SwapInv'
  BY <1>12
  DEF ReadResult, tool, bounds, Goto, FwTypeOK, Script, Running, OwnFile, Owner, SwapInv
<1>13. ASSUME NEW p \in Pages, RemoveResult(p) PROVE SwapInv'
  BY <1>13
  DEF RemoveResult, bounds, Goto, Unlink, FwTypeOK, Script, Running, OwnFile, Owner, SwapInv
<1>14. ASSUME NEW p \in Pages, Reboot(p) PROVE SwapInv'
  BY <1>14 DEF Reboot, Restart, Running, Script, SwapInv
<1>15. CASE UNCHANGED vars
  BY <1>15 DEF vars, Running, Owner, SwapInv
<1>16. ASSUME NEW p \in Pages, FwmngFails(p) PROVE SwapInv'
  BY <1>16, FwAssumption
  DEF FwmngFails, OpenTxt, Goto, Block, FwTypeOK, Script, Running, FileInv, OwnFile, Owner,
      SwapInv
<1> QED
  BY <1>1, <1>2, <1>3, <1>4, <1>5, <1>6, <1>7, <1>8, <1>9, <1>10, <1>11, <1>12, <1>13,
     <1>14, <1>15, <1>16
  DEF Next, Page, Upgrade, ConfirmOther, Cancel

\* A partition stays whole when neither the flash nor the scripts change.
LEMMA PartFrame ==
    ASSUME PartInv, mishaps' = {} => mishaps = {}, Running' = Running, flash' = flash,
           \A q \in Running : img'[q] = img[q] /\ (q \in overlap' => q \in overlap)
    PROVE  PartInv'
BY DEF PartInv

\* Every step keeps PartInv.
LEMMA PartNext ==
    ASSUME FwTypeOK, FileInv, ScriptInv, SwapInv, PartInv, [Next]_vars PROVE PartInv'
<1>1. CASE PowerCut
  <2>1. flash' = flash /\ (mishaps' = {} => mishaps = {} /\ Running = {})
    BY <1>1 DEF PowerCut, Restart
  <2>2. Running' = {}
    BY <1>1 DEF PowerCut, Restart, Running, Script
  <2> QED
    BY <2>1, <2>2, FwAssumption, SMTT(30) DEF PartInv, Whole
<1>2. ASSUME NEW p \in Pages, NEW i \in Images, Upload(p, i) PROVE PartInv'
  <2>1. Running' = Running
    BY <1>2 DEF Upload, Goto, Running, Script, FwTypeOK
  <2>2. \A q \in Running : img'[q] = img[q] /\ (q \in overlap' => q \in overlap)
    BY <1>2 DEF Upload, Running, Script, FwTypeOK
  <2> QED
    BY <1>2, <2>1, <2>2, PartFrame DEF Upload
<1>3. ASSUME NEW p \in Pages, UploadBlock(p) PROVE PartInv'
  <2>1. Running' = Running
    BY <1>3, FwAssumption DEF UploadBlock, Goto, Running, Script, FwTypeOK
  <2>2. \A q \in Running : img'[q] = img[q] /\ (q \in overlap' => q \in overlap)
    BY <1>3 DEF UploadBlock
  <2> QED
    BY <1>3, <2>1, PartFrame DEF UploadBlock
<1>4. ASSUME NEW p \in Pages, UploadFails(p) PROVE PartInv'
  <2>1. Running' = Running
    BY <1>4 DEF UploadFails, Leave, Goto, Running, Script, FwTypeOK
  <2>2. \A q \in Running : img'[q] = img[q] /\ (q \in overlap' => q \in overlap)
    BY <1>4 DEF UploadFails, Leave, Running, Script, FwTypeOK
  <2> QED
    BY <1>4, <2>1, <2>2, PartFrame DEF UploadFails
<1>5. ASSUME NEW p \in Pages, CheckHeader(p) PROVE PartInv'
  <2>1. Running' = Running
    BY <1>5, FwAssumption DEF CheckHeader, Leave, Goto, Running, Script, FwTypeOK
  <2>2. \A q \in Running : img'[q] = img[q] /\ (q \in overlap' => q \in overlap)
    BY <1>5 DEF CheckHeader, Leave, Running, Script, FwTypeOK
  <2> QED
    BY <1>5, <2>1, <2>2, PartFrame DEF CheckHeader
<1>6. ASSUME NEW p \in Pages, Confirm(p) PROVE PartInv'
  <2> SUFFICES ASSUME mishaps' = {}
               PROVE  /\ \A q \in Running' : q \notin overlap'
                      /\ \A d \in Parts : \E b \in Valid \cup {Old} : flash'[d] = Whole(b)
    BY DEF PartInv
  <2>1. Running = {} /\ mishaps = {} /\ flash' = flash /\ pc[p] = "ready"
    BY <1>6 DEF Confirm
  <2>2. p \notin overlap /\ \A q \in Running' : q = p
    BY <1>6 DEF Confirm, Goto, Running, FwTypeOK
  <2>3. p \notin overlap'
    BY <1>6, <2>2 DEF Confirm
  <2> QED
    BY <2>1, <2>2, <2>3 DEF PartInv
<1>7. ASSUME NEW p \in Pages, Cancel(p) PROVE PartInv'
  <2>1. Running' = Running
    BY <1>7 DEF Cancel, Leave, Goto, Running, Script, FwTypeOK
  <2>2. \A q \in Running : img'[q] = img[q] /\ (q \in overlap' => q \in overlap)
    BY <1>7 DEF Cancel, Leave, Running, Script, FwTypeOK
  <2> QED
    BY <1>7, <2>1, <2>2, PartFrame DEF Cancel
<1>8. ASSUME NEW p \in Pages, StartFwmng(p) PROVE PartInv'
  <2>1. Running' = Running
    BY <1>8 DEF StartFwmng, OpenTxt, Goto, Running, Script, FwTypeOK
  <2>2. \A q \in Running : img'[q] = img[q] /\ (q \in overlap' => q \in overlap)
    BY <1>8 DEF StartFwmng, OpenTxt
  <2> QED
    BY <1>8, <2>1, PartFrame DEF StartFwmng, OpenTxt
<1>9. ASSUME NEW p \in Pages, WriteBlock(p) PROVE PartInv'
  <2> SUFFICES ASSUME mishaps = {}
               PROVE  /\ \A q \in Running' : q \notin overlap'
                      /\ \A d \in Parts : \/ \E q \in Running' : d = Part[img'[q]]
                                          \/ \E b \in Valid \cup {Old} : flash'[d] = Whole(b)
    BY <1>9 DEF WriteBlock, PartInv
  <2>1. p \in Running /\ UNCHANGED <<pc, img, overlap>>
    BY <1>9 DEF WriteBlock, Running, Script
  <2>2. Running' = Running
    BY <2>1 DEF Running
  <2>3. \A d \in Parts : d # Part[img[p]] => flash'[d] = flash[d]
    BY <1>9 DEF WriteBlock, FwTypeOK
  <2> QED
    BY <2>1, <2>2, <2>3, FwAssumption, SMTT(30) DEF PartInv
<1>10. ASSUME NEW p \in Pages, WriteEnd(p) PROVE PartInv'
  <2>1. Running' = Running
    BY <1>10 DEF WriteEnd, Goto, Running, Script, FwTypeOK
  <2>2. \A q \in Running : img'[q] = img[q] /\ (q \in overlap' => q \in overlap)
    BY <1>10 DEF WriteEnd
  <2> QED
    BY <1>10, <2>1, PartFrame DEF WriteEnd
<1>11. ASSUME NEW p \in Pages, VerifyBlock(p) PROVE PartInv'
  <2>1. Running' = Running
    BY <1>11 DEF VerifyBlock, Result, Goto, Running, Script, FwTypeOK
  <2>2. \A q \in Running : img'[q] = img[q] /\ (q \in overlap' => q \in overlap)
    BY <1>11 DEF VerifyBlock
  <2> QED
    BY <1>11, <2>1, PartFrame DEF VerifyBlock
<1>12. ASSUME NEW p \in Pages, ReadResult(p) PROVE PartInv'
  <2>1. Running' = Running
    BY <1>12 DEF ReadResult, Goto, Running, Script, FwTypeOK
  <2>2. \A q \in Running : img'[q] = img[q] /\ (q \in overlap' => q \in overlap)
    BY <1>12 DEF ReadResult
  <2> QED
    BY <1>12, <2>1, PartFrame DEF ReadResult
<1>13. ASSUME NEW p \in Pages, RemoveResult(p) PROVE PartInv'
  <2>1. /\ p \in Running /\ pc[p] \in {"finish", "again"}
        /\ UNCHANGED <<img, flash, overlap, mishaps>>
    BY <1>13 DEF RemoveResult, Running, Script
  <2>2. CASE pc[p] = "again"
    <3>1. Running' = Running
      BY <1>13, <2>2 DEF RemoveResult, Goto, Running, Script, FwTypeOK
    <3> QED
      BY <2>1, <3>1, PartFrame
  <2>3. CASE pc[p] = "finish"
    <3> SUFFICES ASSUME mishaps = {}
                 PROVE  Running' = {} /\ \A d \in Parts : \E b \in Valid \cup {Old} : flash[d] = Whole(b)
      BY <2>1, FwAssumption, SMTT(30) DEF PartInv, Whole
    <3>1. Alone(p) /\ Owner(p)
      BY <2>1 DEF PartInv, SwapInv, Alone, Running
    <3>2. /\ \A q \in Running : q = p
          /\ flash[Part[img[p]]] = Whole(img[p]) /\ img[p] \in Valid
      BY <2>3, <3>1 DEF ScriptInv, OwnScript, Ended, FileInv, OwnFile, Owner
    <3>3. Running' = {}
      BY <1>13, <2>3, <3>2 DEF RemoveResult, Goto, Running, Script, FwTypeOK
    <3> QED
      BY <3>2, <3>3 DEF PartInv
  <2> QED
    BY <2>1, <2>2, <2>3
<1>14. ASSUME NEW p \in Pages, Reboot(p) PROVE PartInv'
  <2>1. flash' = flash /\ (mishaps' = {} => mishaps = {} /\ Running = {})
    BY <1>14 DEF Reboot, Restart
  <2>2. Running' = {}
    BY <1>14 DEF Reboot, Restart, Running, Script
  <2> QED
    BY <2>1, <2>2, FwAssumption, SMTT(30) DEF PartInv, Whole
<1>15. CASE UNCHANGED vars
  <2>1. Running' = Running
    BY <1>15 DEF vars, Running
  <2>2. \A q \in Running : img'[q] = img[q] /\ (q \in overlap' => q \in overlap)
    BY <1>15 DEF vars
  <2> QED
    BY <1>15, <2>1, PartFrame DEF vars
<1>16. ASSUME NEW p \in Pages, FwmngFails(p) PROVE PartInv'
  <2>1. Running' = Running
    BY <1>16 DEF FwmngFails, OpenTxt, Goto, Running, Script, FwTypeOK
  <2>2. \A q \in Running : img'[q] = img[q] /\ (q \in overlap' => q \in overlap)
    BY <1>16 DEF FwmngFails, OpenTxt
  <2> QED
    BY <1>16, <2>1, PartFrame DEF FwmngFails, OpenTxt
<1> QED
  BY <1>1, <1>2, <1>3, <1>4, <1>5, <1>6, <1>7, <1>8, <1>9, <1>10, <1>11, <1>12, <1>13,
     <1>14, <1>15, <1>16
  DEF Next, Page, Upgrade, ConfirmOther, Cancel

\* The invariant of a device.
LEMMA FwInvariant == Spec => []FwInv
<1>1. Init => FwInv
  BY FwAssumption, SMTT(30)
  DEF Init, FwInv, FwTypeOK, Steps, Script, Running, FileInv, Owner, ScriptInv, Alone,
      SwapInv, PartInv, Whole, Empty
<1>2. FwInv /\ [Next]_vars => FwInv'
  BY TypeNext, FileNext, ScriptNext, SwapNext, PartNext DEF FwInv
<1> QED
  BY <1>1, <1>2, PTL DEF Spec

\* The page says that an upgrade is complete only when the image is in the flash.
THEOREM DoneMeansInstalled == Spec => []DoneIsInstalled
<1>1. FwInv => DoneIsInstalled
  BY DEF FwInv, ScriptInv, Alone, OwnScript, Ended, DoneIsInstalled
<1> QED
  BY <1>1, FwInvariant, PTL

\* A file that fw_upload refuses stays out of the flash.
THEOREM RefusedFilesStayOut == Spec => []RefusedStaysOut
<1>1. FwInv => RefusedStaysOut
  BY DEF FwInv, SwapInv, RefusedStaysOut
<1> QED
  BY <1>1, FwInvariant, PTL

\* Without a mishap the partitions are whole whenever no script is running.
THEOREM DeviceCanStart == Spec => []PartitionsAreWhole
<1>1. FwInv => PartitionsAreWhole
  BY DEF FwInv, PartInv, PartitionsAreWhole
<1> QED
  BY <1>1, FwInvariant, PTL

-----------------------------------------------------------------------------
(***************************************************************************)
(* The configuration tree, for any set of files, any number of callers of  *)
(* init.sh and any number of power losses.                                 *)
(***************************************************************************)

(***************************************************************************)
(* The invariants of BootConfig say nothing about most steps of the        *)
(* scripts. BootIInv says what the tree is at every one of them: whole or  *)
(* absent whenever power may go without damage, and otherwise complete     *)
(* outside the files that the running cp or rm has still to handle.        *)
(***************************************************************************)
Present == top = "present" /\ \A f \in Files : entry[f] # "none"
Absent == top = "absent" /\ \A f \in Files : entry[f] = "none"

\* Resets run only in a device that is up, one at a time.
BootAlone ==
    /\ \A r \in Resets : rcPc # "up" => rpc[r] = "idle"
    /\ damage = {} => \A q, r \in Resets :
          rpc[q] # "idle" /\ rpc[r] # "idle" => q = r

\* An absent directory has no files; cp writes only files that were not there.
Fresh ==
    /\ top = "absent" => \A f \in Files : entry[f] = "none"
    /\ hidden.top = "absent" => \A f \in Files : hidden.entry[f] = "none"
    /\ rcPc = "mkdir" => top = "absent"
    /\ rcPc = "copy" => top = "present" /\ \A f \in todo : entry[f] = "none"

\* What is mounted, and the flash behind a failed mount.
Mounted ==
    /\ mounted = "none" <=> rcPc \in {"off", "mounts", "user", "aborted"}
    /\ damage = {} /\ mounted = "tmpfs" /\ hidden.top = "present" =>
          \A f \in Files : hidden.entry[f] # "none"

\* The tree at each step of rc.sysinit.
BootTree ==
    damage = {} =>
        /\ rcPc \in {"off", "mounts", "user", "check", "aborted"} => Present \/ Absent
        /\ rcPc = "copy" => \A f \in Files \ todo : entry[f] # "none"
        /\ rcPc \in {"link", "source", "services"} => Present
        /\ rcPc = "up" /\ (\A r \in Resets : rpc[r] = "idle") => Present
        /\ rcPc # "dead"

\* /etc.init is the default tree but for the file that is kept.
Source ==
    /\ \A f \in Files \ {QosFile} : etcInit[f] = "default"
    /\ damage = {} => \A r \in Resets :
          rpc[r] \notin {"idle", "qos"} => etcInit[QosFile] = kept

\* The tree at each step of init.sh.
ResetTree ==
    damage = {} => \A r \in Resets :
        /\ rpc[r] \in {"qos", "list"} => Present
        /\ rpc[r] \in {"rm", "rmdir"} =>
              top = "present" /\ \A f \in Files \ rtodo[r] : entry[f] = "none"
        /\ rpc[r] = "rmdir" => rtodo[r] = {}
        /\ rpc[r] = "cp" => Absent
        /\ rpc[r] = "copy" =>
              /\ top = "present"
              /\ \A f \in Files \ rtodo[r] : entry[f] # "none"
              /\ \A f \in Files \ rtodo[r] : f \notin late => entry[f] = etcInit[f]
        /\ rpc[r] = "reboot" =>
              Present /\ \A f \in Files : f \notin late => entry[f] = etcInit[f]

BootIInv == TypeOK /\ BootAlone /\ Fresh /\ Mounted /\ BootTree /\ Source /\ ResetTree

-----------------------------------------------------------------------------
\* The router off, with the tree of the factory.
LEMMA InitIInv == BootInit => BootIInv
BY TreeAssumption, SMTT(30)
  DEF BootInit, BootIInv, TypeOK, BootAlone, Fresh, Mounted, BootTree, Source, ResetTree,
      Absent, NoFiles, Default, PCs, RPCs, Contents

\* PowerOn keeps the invariant.
LEMMA PowerOnIInv == ASSUME BootIInv, PowerOn PROVE BootIInv'
<1>1. TypeOK'
  BY DEF PowerOn, BootIInv, TypeOK, PCs, tree, reset, history
<1>2. BootAlone'
  BY DEF PowerOn, BootIInv, BootAlone, reset
<1>3. Fresh'
  BY DEF PowerOn, BootIInv, Fresh, tree
<1>4. Mounted'
  BY DEF PowerOn, BootIInv, Mounted
<1>5. BootTree'
  BY DEF PowerOn, BootIInv, BootTree, Present, Absent, tree
<1>6. Source'
  BY DEF PowerOn, BootIInv, Source, reset, history
<1>7. ResetTree'
  BY DEF PowerOn, BootIInv, BootAlone, ResetTree, reset
<1> QED
  BY <1>1, <1>2, <1>3, <1>4, <1>5, <1>6, <1>7 DEF BootIInv

\* Mounts keeps the invariant.
LEMMA MountsIInv == ASSUME BootIInv, Mounts PROVE BootIInv'
<1>1. TypeOK'
  BY DEF Mounts, BootIInv, TypeOK, PCs, tree, reset, history
<1>2. BootAlone'
  BY DEF Mounts, BootIInv, BootAlone, reset
<1>3. Fresh'
  BY DEF Mounts, BootIInv, Fresh, tree
<1>4. Mounted'
  BY DEF Mounts, BootIInv, Mounted
<1>5. BootTree'
  BY DEF Mounts, BootIInv, BootTree, Present, Absent, PCs, tree
<1>6. Source'
  BY DEF Mounts, BootIInv, Source, reset, history
<1>7. ResetTree'
  BY DEF Mounts, BootIInv, ResetTree, Present, Absent, PCs, tree, reset, history
<1> QED
  BY <1>1, <1>2, <1>3, <1>4, <1>5, <1>6, <1>7 DEF BootIInv

\* MountUser keeps the invariant.
LEMMA MountUserIInv == ASSUME BootIInv, MountUser PROVE BootIInv'
<1>1. TypeOK'
  BY SMTT(30) DEF MountUser, BootIInv, TypeOK, NoFiles, PCs, Contents, tree, reset, history
<1>2. BootAlone'
  BY DEF MountUser, BootIInv, BootAlone, reset
<1>3. Fresh'
  BY SMTT(30) DEF MountUser, BootIInv, Fresh, NoFiles, PCs, tree
<1>4. Mounted'
  BY SMTT(30) DEF MountUser, BootIInv, Mounted, BootTree, Present, Absent, NoFiles
<1>5. BootTree'
  BY DEF MountUser, BootIInv, BootTree, Present, Absent, NoFiles, tree
<1>6. Source'
  BY DEF MountUser, BootIInv, Source, reset, history
<1>7. ResetTree'
  BY DEF MountUser, BootIInv, BootAlone, ResetTree, Contents, reset
<1> QED
  BY <1>1, <1>2, <1>3, <1>4, <1>5, <1>6, <1>7 DEF BootIInv

\* CheckEtc keeps the invariant.
LEMMA CheckEtcIInv == ASSUME BootIInv, CheckEtc PROVE BootIInv'
<1>1. TypeOK'
  BY DEF CheckEtc, BootIInv, TypeOK, PCs, tree, reset, history
<1>2. BootAlone'
  BY DEF CheckEtc, BootIInv, BootAlone, reset
<1>3. Fresh'
  BY DEF CheckEtc, BootIInv, Fresh, tree
<1>4. Mounted'
  BY DEF CheckEtc, BootIInv, Mounted
<1>5. BootTree'
  BY DEF CheckEtc, BootIInv, BootTree, Present, Absent, tree
<1>6. Source'
  BY DEF CheckEtc, BootIInv, Source, reset, history
<1>7. ResetTree'
  BY DEF CheckEtc, BootIInv, ResetTree, Present, Absent, tree, reset, history
<1> QED
  BY <1>1, <1>2, <1>3, <1>4, <1>5, <1>6, <1>7 DEF BootIInv

\* mkdir of the tree.
LEMMA MakeEtcIInv == ASSUME BootIInv, MakeEtc PROVE BootIInv'
<1>1. TypeOK'
  BY TreeAssumption DEF MakeEtc, BootIInv, TypeOK, PCs, reset, history
<1>2. BootAlone'
  BY DEF MakeEtc, BootIInv, BootAlone, reset
<1>3. Fresh'
  BY DEF MakeEtc, BootIInv, Fresh
<1>4. Mounted'
  BY DEF MakeEtc, BootIInv, Mounted
<1>5. BootTree'
  BY DEF MakeEtc, BootTree
<1>6. Source'
  BY DEF MakeEtc, BootIInv, Source, reset, history
<1>7. ResetTree'
  BY DEF MakeEtc, BootIInv, BootAlone, ResetTree, reset
<1> QED
  BY <1>1, <1>2, <1>3, <1>4, <1>5, <1>6, <1>7 DEF BootIInv

\* CopyEtc keeps the invariant.
LEMMA CopyEtcIInv == ASSUME BootIInv, CopyEtc PROVE BootIInv'
<1>1. CASE todo = {} /\ rcPc' = "link" /\ UNCHANGED <<entry, todo>>
  BY <1>1, SMTT(30)
  DEF CopyEtc, BootIInv, TypeOK, BootAlone, Fresh, Mounted, BootTree, Source, ResetTree, Present,
      PCs, reset, history
<1>2. ASSUME NEW f \in todo,
             entry' = [entry EXCEPT ![f] = etcInit[f]],
             todo' = todo \ {f},
             rcPc' = rcPc
      PROVE  BootIInv'
  <2>1. f \in Files /\ etcInit[f] \in {"default", "user"}
    BY DEF BootIInv, TypeOK
  <2>2. entry' \in [Files -> Contents] /\ \A g \in Files \ {f} : entry'[g] = entry[g]
    BY <1>2 DEF BootIInv, TypeOK, Contents
  <2>3. entry'[f] # "none"
    BY <1>2 DEF BootIInv, TypeOK
  <2>4. /\ rcPc = "copy"
        /\ UNCHANGED <<mounted, top, hidden, etcInit, rpc, rtodo, offs, kept, late, damage>>
    BY DEF CopyEtc, reset, history
  <2>5. TypeOK' /\ BootAlone' /\ Mounted' /\ Source'
    BY <1>2, <2>2, <2>4 DEF BootIInv, TypeOK, BootAlone, Mounted, Source
  <2>6. Fresh'
    BY <1>2, <2>4 DEF BootIInv, Fresh, TypeOK
  <2>7. BootTree'
    BY <1>2, <2>3, <2>4 DEF BootIInv, BootTree, TypeOK
  <2>8. ResetTree'
    BY <2>4 DEF BootIInv, BootAlone, ResetTree
  <2> QED
    BY <2>5, <2>6, <2>7, <2>8 DEF BootIInv
<1> QED
  BY <1>1, <1>2 DEF CopyEtc

\* LinkEtc keeps the invariant.
LEMMA LinkEtcIInv == ASSUME BootIInv, LinkEtc PROVE BootIInv'
<1>1. TypeOK'
  BY DEF LinkEtc, BootIInv, TypeOK, PCs, tree, reset, history
<1>2. BootAlone'
  BY DEF LinkEtc, BootIInv, BootAlone, reset
<1>3. Fresh'
  BY DEF LinkEtc, BootIInv, Fresh, tree
<1>4. Mounted'
  BY DEF LinkEtc, BootIInv, Mounted
<1>5. BootTree'
  BY DEF LinkEtc, BootIInv, BootTree, Present, tree
<1>6. Source'
  BY DEF LinkEtc, BootIInv, Source, reset, history
<1>7. ResetTree'
  BY DEF LinkEtc, BootIInv, ResetTree, Present, Absent, tree, reset, history, TypeOK, BootAlone
<1> QED
  BY <1>1, <1>2, <1>3, <1>4, <1>5, <1>6, <1>7 DEF BootIInv

\* rc.sysinit again, after the copy.
LEMMA SourceAgainIInv == ASSUME BootIInv, SourceAgain PROVE BootIInv'
<1>1. TypeOK'
  BY DEF SourceAgain, BootIInv, TypeOK, PCs, tree, reset, history
<1>2. BootAlone'
  BY DEF SourceAgain, BootIInv, BootAlone, reset
<1>3. Fresh'
  BY DEF SourceAgain, BootIInv, Fresh, tree
<1>4. Mounted'
  BY DEF SourceAgain, BootIInv, Mounted
<1>5. BootTree'
  BY TreeAssumption DEF SourceAgain, BootIInv, BootTree, Present, tree
<1>6. Source'
  BY DEF SourceAgain, BootIInv, Source, reset, history
<1>7. ResetTree'
  BY DEF SourceAgain, BootIInv, ResetTree, Present, Absent, tree, reset, history
<1> QED
  BY <1>1, <1>2, <1>3, <1>4, <1>5, <1>6, <1>7 DEF BootIInv

\* Services keeps the invariant.
LEMMA ServicesIInv == ASSUME BootIInv, Services PROVE BootIInv'
<1>1. TypeOK'
  BY DEF Services, BootIInv, TypeOK, PCs, tree, reset, history
<1>2. BootAlone'
  BY DEF Services, BootIInv, BootAlone, reset
<1>3. Fresh'
  BY DEF Services, BootIInv, Fresh, tree
<1>4. Mounted'
  BY DEF Services, BootIInv, Mounted
<1>5. BootTree'
  BY DEF Services, BootIInv, BootTree, Present, tree
<1>6. Source'
  BY DEF Services, BootIInv, Source, reset, history
<1>7. ResetTree'
  BY DEF Services, BootIInv, ResetTree, Present, Absent, tree, boot, reset, history
<1> QED
  BY <1>1, <1>2, <1>3, <1>4, <1>5, <1>6, <1>7 DEF BootIInv

\* Save keeps the invariant.
LEMMA SaveIInv == ASSUME BootIInv, NEW f \in Files, Save(f) PROVE BootIInv'
<1>1. TypeOK'
  BY DEF Save, BootIInv, TypeOK, Contents, boot, reset
<1>2. BootAlone'
  BY DEF Save, BootIInv, BootAlone, boot, reset
<1>3. Fresh'
  BY DEF Save, BootIInv, Fresh, boot
<1>4. Mounted'
  BY DEF Save, BootIInv, Mounted, boot
<1>5. BootTree'
  BY DEF Save, BootIInv, BootTree, Present, PCs, boot, reset, TypeOK
<1>6. Source'
  BY DEF Save, BootIInv, Source, reset
<1>7. ResetTree'
  BY SMTT(30) DEF Save, Removing, BootIInv, ResetTree, Present, Absent, reset
<1> QED
  BY <1>1, <1>2, <1>3, <1>4, <1>5, <1>6, <1>7 DEF BootIInv

\* StartReset keeps the invariant.
LEMMA StartResetIInv == ASSUME BootIInv, NEW r \in Resets, StartReset(r) PROVE BootIInv'
<1>1. TypeOK'
  BY DEF StartReset, ResetGoto, BootIInv, TypeOK, RPCs, tree, boot, history
<1>2. BootAlone'
  BY DEF StartReset, ResetGoto, BootAlone, boot, TypeOK, BootIInv
<1>3. Fresh'
  BY DEF StartReset, BootIInv, Fresh, tree, boot
<1>4. Mounted'
  BY DEF StartReset, BootIInv, Mounted, boot
<1>5. BootTree'
  BY DEF StartReset, ResetGoto, BootIInv, TypeOK, BootTree, boot
<1>6. Source'
  BY DEF StartReset, ResetGoto, BootIInv, Source, TypeOK
<1>7. ResetTree'
  BY SMTT(30) DEF StartReset, ResetGoto, BootIInv, BootTree, Source, ResetTree, Present, tree
<1> QED
  BY <1>1, <1>2, <1>3, <1>4, <1>5, <1>6, <1>7 DEF BootIInv

\* init.sh saves initQos.conf.
LEMMA KeepQosIInv == ASSUME BootIInv, NEW r \in Resets, KeepQos(r) PROVE BootIInv'
<1>1. TypeOK'
  BY TreeAssumption
  DEF KeepQos, ResetGoto, BootIInv, TypeOK, RPCs, Contents, tree, boot
<1>2. BootAlone'
  BY DEF KeepQos, ResetGoto, BootIInv, BootAlone, boot, TypeOK
<1>3. Fresh'
  BY DEF KeepQos, BootIInv, Fresh, tree, boot
<1>4. Mounted'
  BY DEF KeepQos, BootIInv, Mounted, boot
<1>5. BootTree'
  BY DEF KeepQos, ResetGoto, BootIInv, BootAlone, BootTree, boot, TypeOK
<1>6. Source'
  BY DEF KeepQos, BootIInv, Source, TypeOK
<1>7. ResetTree'
  BY SMTT(30) DEF KeepQos, ResetGoto, BootIInv, ResetTree, Present, Absent, tree
<1> QED
  BY <1>1, <1>2, <1>3, <1>4, <1>5, <1>6, <1>7 DEF BootIInv

\* ListEtc keeps the invariant.
LEMMA ListEtcIInv == ASSUME BootIInv, NEW r \in Resets, ListEtc(r) PROVE BootIInv'
<1>1. TypeOK'
  BY DEF ListEtc, ResetGoto, BootIInv, TypeOK, RPCs, tree, boot, history
<1>2. BootAlone'
  BY DEF ListEtc, ResetGoto, BootIInv, BootAlone, boot, TypeOK
<1>3. Fresh'
  BY DEF ListEtc, BootIInv, Fresh, tree, boot
<1>4. Mounted'
  BY DEF ListEtc, BootIInv, Mounted, boot
<1>5. BootTree'
  BY DEF ListEtc, ResetGoto, BootIInv, BootAlone, BootTree, boot, TypeOK
<1>6. Source'
  BY DEF ListEtc, BootIInv, Source, history
<1>7. ResetTree'
  BY SMTT(30)
  DEF ListEtc, ResetGoto, BootIInv, TypeOK, BootAlone, Source, ResetTree, Present, tree
<1> QED
  BY <1>1, <1>2, <1>3, <1>4, <1>5, <1>6, <1>7 DEF BootIInv

\* RemoveFile keeps the invariant.
LEMMA RemoveFileIInv == ASSUME BootIInv, NEW r \in Resets, RemoveFile(r) PROVE BootIInv'
<1>1. TypeOK'
  BY SMTT(30)
  DEF RemoveFile, ResetGoto, BootIInv, TypeOK, RPCs, Contents, boot, reset, history
<1>2. BootAlone'
  BY DEF RemoveFile, ResetGoto, BootIInv, TypeOK, BootAlone, boot, reset
<1>3. Fresh'
  BY SMTT(30) DEF RemoveFile, BootIInv, TypeOK, Fresh, boot
<1>4. Mounted'
  BY DEF RemoveFile, BootIInv, Mounted, boot
<1>5. BootTree'
  BY DEF RemoveFile, ResetGoto, BootIInv, TypeOK, BootAlone, BootTree, boot
<1>6. Source'
  BY DEF RemoveFile, BootIInv, Source, history
<1>7. ResetTree'
  BY SMTT(30) DEF RemoveFile, ResetGoto, BootIInv, TypeOK, BootAlone, ResetTree
<1> QED
  BY <1>1, <1>2, <1>3, <1>4, <1>5, <1>6, <1>7 DEF BootIInv

\* RemoveEtc keeps the invariant.
LEMMA RemoveEtcIInv == ASSUME BootIInv, NEW r \in Resets, RemoveEtc(r) PROVE BootIInv'
<1>1. TypeOK'
  BY DEF RemoveEtc, ResetGoto, BootIInv, TypeOK, RPCs, boot, history
<1>2. BootAlone'
  BY DEF RemoveEtc, ResetGoto, BootIInv, BootAlone, boot, TypeOK
<1>3. Fresh'
  BY DEF RemoveEtc, BootIInv, BootAlone, Fresh, NoFiles, boot
<1>4. Mounted'
  BY DEF RemoveEtc, BootIInv, Mounted, boot
<1>5. BootTree'
  BY DEF RemoveEtc, ResetGoto, BootIInv, BootAlone, BootTree, RPCs, boot, TypeOK
<1>6. Source'
  BY DEF RemoveEtc, BootIInv, Source, history
<1>7. ResetTree'
  BY SMTT(30) DEF RemoveEtc, ResetGoto, BootIInv, TypeOK, BootAlone, ResetTree, Absent, NoFiles
<1> QED
  BY <1>1, <1>2, <1>3, <1>4, <1>5, <1>6, <1>7 DEF BootIInv

\* StartCopy keeps the invariant.
LEMMA StartCopyIInv == ASSUME BootIInv, NEW r \in Resets, StartCopy(r) PROVE BootIInv'
<1>1. TypeOK'
  BY SMTT(30) DEF StartCopy, ResetGoto, BootIInv, TypeOK, PCs, RPCs, boot, reset
<1>2. BootAlone'
  BY DEF StartCopy, ResetGoto, BootIInv, TypeOK, BootAlone, boot
<1>3. Fresh'
  BY DEF StartCopy, BootIInv, BootAlone, Fresh, boot
<1>4. Mounted'
  BY DEF StartCopy, BootIInv, Mounted, boot
<1>5. BootTree'
  BY DEF StartCopy, ResetGoto, BootIInv, TypeOK, BootAlone, BootTree, boot
<1>6. Source'
  BY DEF StartCopy, BootIInv, Source
<1>7. ResetTree'
  BY SMTT(30) DEF StartCopy, ResetGoto, BootIInv, TypeOK, BootAlone, ResetTree, Absent
<1> QED
  BY <1>1, <1>2, <1>3, <1>4, <1>5, <1>6, <1>7 DEF BootIInv

\* CopyInit keeps the invariant.
LEMMA CopyInitIInv == ASSUME BootIInv, NEW r \in Resets, CopyInit(r) PROVE BootIInv'
<1>1. TypeOK'
  BY SMTT(30) DEF CopyInit, ResetGoto, BootIInv, TypeOK, RPCs, Contents, boot, history
<1>2. BootAlone'
  BY DEF CopyInit, ResetGoto, BootIInv, TypeOK, BootAlone, boot, reset
<1>3. Fresh'
  BY DEF CopyInit, BootIInv, BootAlone, Fresh, boot
<1>4. Mounted'
  BY DEF CopyInit, BootIInv, Mounted, boot
<1>5. BootTree'
  BY DEF CopyInit, ResetGoto, BootIInv, TypeOK, BootAlone, BootTree, boot
<1>6. Source'
  BY DEF CopyInit, BootIInv, Source, history
<1>7. ResetTree'
  BY SMTT(30) DEF CopyInit, ResetGoto, BootIInv, TypeOK, BootAlone, ResetTree, Present, history
<1> QED
  BY <1>1, <1>2, <1>3, <1>4, <1>5, <1>6, <1>7 DEF BootIInv

\* The reboot at the end of init.sh.
LEMMA ResetRebootIInv == ASSUME BootIInv, NEW r \in Resets, ResetReboot(r) PROVE BootIInv'
<1>1. TypeOK'
  BY TreeAssumption, SMTT(30)
  DEF ResetReboot, GoOff, BootIInv, TypeOK, NoFiles, Default, PCs, RPCs, Contents
<1>2. BootAlone'
  BY DEF ResetReboot, GoOff, BootAlone
<1>3. Fresh'
  BY DEF ResetReboot, GoOff, BootIInv, Fresh, NoFiles
<1>4. Mounted'
  BY DEF ResetReboot, GoOff, Mounted
<1>5. BootTree'
  BY DEF ResetReboot, GoOff, BootIInv, TypeOK, Fresh, Mounted, BootTree, ResetTree, Present,
         Absent
<1>6. Source'
  BY DEF ResetReboot, GoOff, Mounted, Source, Default
<1>7. ResetTree'
  BY DEF ResetReboot, GoOff, ResetTree
<1> QED
  BY <1>1, <1>2, <1>3, <1>4, <1>5, <1>6, <1>7 DEF BootIInv

\* Power goes at any step.
LEMMA PowerOffIInv == ASSUME BootIInv, PowerOff PROVE BootIInv'
<1>1. TypeOK'
  BY TreeAssumption, SMTT(30)
  DEF PowerOff, GoOff, BootIInv, TypeOK, NoFiles, Default, PCs, RPCs, Contents
<1>2. BootAlone'
  BY DEF PowerOff, GoOff, BootAlone
<1>3. Fresh'
  BY DEF PowerOff, GoOff, BootIInv, Fresh, NoFiles
<1>4. Mounted'
  BY DEF PowerOff, GoOff, Mounted
<1>5. BootTree'
  BY SMTT(30)
  DEF PowerOff, GoOff, HalfDone, BootIInv, TypeOK, Fresh, Mounted, BootTree, ResetTree,
      Present, Absent, PCs, RPCs
<1>6. Source'
  BY DEF PowerOff, GoOff, Source, Default
<1>7. ResetTree'
  BY DEF PowerOff, GoOff, ResetTree
<1> QED
  BY <1>1, <1>2, <1>3, <1>4, <1>5, <1>6, <1>7 DEF BootIInv

\* A step of nobody.
LEMMA StutterIInv == ASSUME BootIInv, UNCHANGED bootVars PROVE BootIInv'
<1>1. TypeOK'
  BY DEF bootVars, BootIInv, TypeOK
<1>2. BootAlone'
  BY DEF bootVars, BootIInv, BootAlone
<1>3. Fresh'
  BY DEF bootVars, BootIInv, Fresh
<1>4. Mounted'
  BY DEF bootVars, BootIInv, Mounted
<1>5. BootTree'
  BY DEF bootVars, BootIInv, BootTree, Present, Absent
<1>6. Source'
  BY DEF bootVars, BootIInv, Source
<1>7. ResetTree'
  BY DEF bootVars, BootIInv, ResetTree, Present, Absent
<1> QED
  BY <1>1, <1>2, <1>3, <1>4, <1>5, <1>6, <1>7 DEF BootIInv

\* Every step keeps the invariant.
LEMMA NextIInv == BootIInv /\ [BootNext]_bootVars => BootIInv'
BY PowerOnIInv, MountsIInv, MountUserIInv, CheckEtcIInv, MakeEtcIInv, CopyEtcIInv,
   LinkEtcIInv, SourceAgainIInv, ServicesIInv, SaveIInv, StartResetIInv, KeepQosIInv,
   ListEtcIInv, RemoveFileIInv, RemoveEtcIInv, StartCopyIInv, CopyInitIInv,
   ResetRebootIInv, PowerOffIInv, StutterIInv
  DEF BootNext, BootStep, ResetStep

\* The invariant holds throughout.
LEMMA SpecIInv == BootSpec => []BootIInv
BY InitIInv, NextIInv, PTL DEF BootSpec

-----------------------------------------------------------------------------
\* The scripts, the trees and the history keep their types.
THEOREM BootTypeCorrect == BootSpec => []TypeOK
<1>1. BootIInv => TypeOK
  BY DEF BootIInv
<1> QED
  BY <1>1, SpecIInv, PTL

\* However often power goes, rc.sysinit finds itself and every other file on
\* flash unless the tree was interrupted half done, written to during rm -rf
\* or reset twice at once.
THEOREM BootsUnlessDamaged == BootSpec => []BootFindsTree
<1>1. BootIInv => BootFindsTree
  BY DEF BootIInv, BootTree, Present, BootFindsTree
<1> QED
  BY <1>1, SpecIInv, PTL

\* An undamaged init.sh leaves the default tree with initQos.conf kept on a
\* flash that was mounted.
THEOREM ResetsRestoreDefaults == BootSpec => []ResetRestores
<1>1. BootIInv => ResetRestores
  BY SMTT(30) DEF BootIInv, ResetTree, Source, Present, ResetRestores
<1> QED
  BY <1>1, SpecIInv, PTL

\* Only a factory reset of a mounted flash takes a saved file from it.
THEOREM OnlyResetsLoseFiles == BootSpec => SavedFilesStay
<1> DEFINE Lost == \A f \in Files : FlashEntry[f] = "user" /\ FlashEntry'[f] # "user" =>
                      mounted = "jffs2" /\ \E r \in Resets : rpc[r] \in {"rm", "copy"}
<1>1. ASSUME BootIInv, BootNext PROVE Lost
  <2>1. CASE PowerOn \/ Mounts \/ CheckEtc \/ MakeEtc \/ LinkEtc \/ SourceAgain \/ Services
    BY <2>1
    DEF PowerOn, Mounts, CheckEtc, MakeEtc, LinkEtc, SourceAgain, Services, tree,
        FlashEntry
  <2>2. CASE MountUser
    <3>1. FlashEntry = entry /\ FlashEntry' = entry
      BY <1>1, <2>2, SMTT(30) DEF MountUser, tree, BootIInv, Mounted, FlashEntry
    <3> QED
      BY <3>1
  <2>3. CASE CopyEtc
    BY <1>1, <2>3 DEF CopyEtc, BootIInv, TypeOK, Fresh, FlashEntry
  <2>4. CASE \E f \in Files : Save(f)
    BY <2>4, SMTT(30) DEF Save, boot, FlashEntry
  <2>5. CASE \E r \in Resets : RemoveFile(r) \/ CopyInit(r)
    <3>1. PICK r \in Resets : rpc[r] \in {"rm", "copy"} /\ UNCHANGED <<mounted, hidden>>
      BY <2>5 DEF RemoveFile, CopyInit, boot
    <3>2. rcPc = "up" /\ mounted \in {"jffs2", "tmpfs"}
      BY <1>1, <3>1 DEF BootIInv, TypeOK, BootAlone, Mounted
    <3> QED
      BY <3>1, <3>2 DEF FlashEntry
  <2>6. CASE \E r \in Resets : StartReset(r) \/ KeepQos(r) \/ ListEtc(r) \/ RemoveEtc(r)
                                \/ StartCopy(r)
    BY <2>6 DEF StartReset, KeepQos, ListEtc, RemoveEtc, StartCopy, boot, tree, FlashEntry
  <2>7. CASE PowerOff \/ \E r \in Resets : ResetReboot(r)
    BY <2>7 DEF PowerOff, ResetReboot, GoOff, FlashEntry
  <2> QED
    BY <1>1, <2>1, <2>2, <2>3, <2>4, <2>5, <2>6, <2>7 DEF BootNext, BootStep, ResetStep
<1>2. BootIInv /\ [BootNext]_bootVars => [Lost]_bootVars
  BY <1>1
<1> QED
  BY <1>2, SpecIInv, PTL DEF BootSpec, SavedFilesStay

-----------------------------------------------------------------------------
(***************************************************************************)
(* The pages, for any processes and values.                                *)
(***************************************************************************)
Touch == {"open", "write", "state", "writestate", "cp", "copy"}
Dhcp == {"install", "installcopy", "start", "launch", "restart", "relaunch", "stop", "remove"}
Firewall == {"service", "restore", "accept"}
Copied == Dhcp \cup Firewall
Words == Values \cup {Initial, Blank}
File == [head : Words, tail : Words, timeout : Nat]

Labels == {"idle", "load"} \cup Touch \cup Copied
Request == [text : File, switch : {"on", "off", "missing", "none"}]
Goal == [etc : File, switch : {"on", "off", "missing", "none", "unknown"}]

WebTypeOK ==
    /\ page \in CgiPages
    /\ tmp \in File
    /\ etc \in File
    /\ cgiPc \in [CgiProcs -> Labels]
    /\ req \in [CgiProcs -> Request]
    /\ goal \in [CgiProcs -> Goal]
    /\ settled \in Goal

\* Which steps belong to which page, and to which of its requests.
PageInv ==
    \A p \in CgiProcs :
        /\ cgiPc[p] = "load" => page = "profile"
        /\ cgiPc[p] \in Dhcp => page = "dhcp"
        /\ cgiPc[p] \in Firewall \cup {"state", "writestate"} => page = "firewall"
        /\ cgiPc[p] \in Dhcp \ {"stop", "remove"} => req[p].switch = "on"
        /\ cgiPc[p] \in {"stop", "remove"} => req[p].switch = "off"
        /\ cgiPc[p] # "idle" /\ page # "profile" => WholeFile(req[p].text)
        /\ cgiPc[p] # "idle" => req[p].switch \in Switches(page)

\* A request that runs alone finds in /tmp and in /etc what it has written.
WebAlone(p) == ~ Idle(p) /\ (goal[p] # NoGoal \/ torn = "no")

OwnFiles(p) ==
    /\ \A q \in CgiProcs : ~ Idle(q) => q = p
    /\ cgiPc[p] = "write" => tmp = Nothing
    /\ cgiPc[p] \in {"state", "writestate", "cp", "copy"} => tmp = req[p].text
    /\ cgiPc[p] = "copy" => etc = Nothing
    /\ cgiPc[p] \in Copied => etc = req[p].text

WebFileInv == \A p \in CgiProcs : WebAlone(p) => OwnFiles(p)

\* The file in /etc is one text, and will be.
WholeInv ==
    torn = "no" =>
        /\ (\A p \in CgiProcs : cgiPc[p] \notin {"copy"} \cup Copied) => WholeFile(etc)
        /\ \A p \in CgiProcs : cgiPc[p] \notin {"idle", "load"} => WholeFile(req[p].text)

\* A request that has run alone so far, step by step.
OnTheWay(p) ==
    /\ ~ Idle(p)
    /\ goal[p].switch = req[p].switch
    /\ goal[p].switch # "missing"
    /\ goal[p].etc = IF cgiPc[p] = "load" THEN Edited(etc, req[p].text) ELSE req[p].text
    /\ page = "firewall" /\ cgiPc[p] \in {"cp", "copy"} \cup Firewall => stateFile = req[p].switch
    /\ cgiPc[p] = "restore" => stateFile = "on"
    /\ cgiPc[p] = "accept" => stateFile # "on"
    /\ cgiPc[p] \in {"start", "launch", "restart", "relaunch"} => script = "present"
    /\ cgiPc[p] \in {"relaunch", "remove"} => run = {}
    /\ page = "dhcp" /\ req[p].switch = "off" => script = "present" \/ run = {}

GoalInv == \A p \in CgiProcs : goal[p] # NoGoal => OnTheWay(p)

\* Since the last request nothing has changed.
Applied(g) ==
    /\ etc = g.etc
    /\ run = Wanted(g)
    /\ page \in {"dhcp", "firewall"} => Boots(etc, stateFile, script) = run

SettledInv == settled # NoGoal /\ (\A p \in CgiProcs : cgiPc[p] \in {"idle", "load"}) => Applied(settled)

WebInv == WebTypeOK /\ PageInv /\ WebFileInv /\ WholeInv /\ GoalInv /\ SettledInv

-----------------------------------------------------------------------------

\* Overlay makes a file of two, and of nothing and a text that text.
LEMMA OverlayFile ==
    ASSUME NEW f \in File, NEW t \in File
    PROVE  Overlay(f, t) \in File /\ Overlay(Nothing, t) = t
<1>1. f.head \in Words /\ f.tail \in Words /\ f.timeout \in Nat
  BY DEF File
<1>2. /\ t.head \in Words /\ t.tail \in Words /\ t.timeout \in Nat
      /\ t = [head |-> t.head, tail |-> t.tail, timeout |-> t.timeout]
  BY DEF File
<1>3. Overlay(f, t) \in File
  BY <1>1, <1>2 DEF Overlay, Text, File
<1>4. Overlay(Nothing, t) = [head |-> t.head, tail |-> t.tail, timeout |-> t.timeout]
  BY DEF Overlay, Text, Nothing
<1> QED
  BY <1>2, <1>3, <1>4

\* The profile that FTMC_LoadProfileConfig reads, with a field replaced, is the
\* one to be saved, as no timeout is negative.
LEMMA LoadedFile ==
    ASSUME NEW f \in File, NEW t \in File
    PROVE  Edited(f, t) \in File /\ Loaded(f, t) = Edited(f, t)
<1>1. Overlay(f, t) \in File
  BY OverlayFile
<1>2. ~ (f.timeout < 0)
  BY SMTT(30) DEF File
<1>3. 0 \in Nat
  BY SMTT(30)
<1> QED
  BY <1>1, <1>2, <1>3 DEF Edited, Loaded, File

\* A file that was whole is whole with a field of its own replaced.
LEMMA EditedWhole ==
    ASSUME NEW f \in File, NEW t \in File, page = "profile", WholeFile(f)
    PROVE  WholeFile(Edited(f, t))
BY DEF Edited, Overlay, Text, WholeFile

\* What a request asks for.
LEMMA RequestFacts ==
    ASSUME page \in CgiPages, NEW r \in Requests(page)
    PROVE  /\ r \in Request /\ r.text \in File /\ r.switch \in Switches(page)
           /\ page # "profile" => WholeFile(r.text)
<1>1. /\ r.switch \in Switches(page) /\ r = [text |-> r.text, switch |-> r.switch]
      /\ r.switch \in {"on", "off", "missing", "none"}
  BY DEF Requests, Switches
<1>2. r.text \in File /\ (page # "profile" => WholeFile(r.text))
  <2>1. CASE page = "profile"
    <3>1. r.text \in Fields
      BY <2>1 DEF Requests
    <3>2. PICK v \in Values : r.text = Text(v, Blank, 0) \/ r.text = Text(Blank, v, 0)
      BY <3>1 DEF Fields
    <3>3. \A h, t \in Words : Text(h, t, 0) \in File
      BY SMTT(30) DEF Text, File
    <3>4. v \in Words /\ Blank \in Words
      BY DEF Words
    <3>5. r.text \in File
      BY <3>2, <3>3, <3>4
    <3> QED
      BY <2>1, <3>5
  <2>2. CASE page # "profile"
    <3>1. PICK v \in Values : r.text \in {Long(v), Short(v)}
      BY <2>2 DEF Requests
    <3> QED
      BY <2>2, <3>1, WebAssumption, SMTT(30) DEF Long, Short, Text, File, Words, WholeFile
  <2> QED
    BY <2>1, <2>2
<1> QED
  BY <1>1, <1>2 DEF Request

\* What is nothing has its type, too.
LEMMA NothingFacts == Nothing \in File /\ NoReq \in Request /\ NoGoal \in Goal
<1>1. 0 \in Nat
  BY SMTT(30)
<1> QED
  BY <1>1 DEF Nothing, Text, File, Words, NoReq, Request, NoGoal, Goal

\* The end of a request keeps the types.
LEMMA FinishType ==
    ASSUME WebTypeOK, NEW p \in CgiProcs, Finish(p)
    PROVE  /\ cgiPc' \in [CgiProcs -> Labels] /\ req' \in [CgiProcs -> Request]
           /\ goal' \in [CgiProcs -> Goal] /\ settled' \in Goal
<1>1. "idle" \in Labels
  BY DEF Labels
<1> QED
  BY <1>1, NothingFacts DEF Finish, GoOn, WebTypeOK

\* A step to another label keeps the types.
LEMMA GotoType ==
    ASSUME WebTypeOK, NEW p \in CgiProcs, NEW l \in Labels, GoOn(p, l)
    PROVE  cgiPc' \in [CgiProcs -> Labels]
BY DEF GoOn, WebTypeOK

\* Every step keeps the types.
LEMMA WebTypeNext ==
    ASSUME WebTypeOK, [WebNext]_webVars PROVE WebTypeOK'
<1>1. CASE PowerCycle
  <2>1. "idle" \in Labels
    BY DEF Labels
  <2> QED
    BY <1>1, <2>1, NothingFacts DEF PowerCycle, WebTypeOK
<1>2. ASSUME NEW p \in CgiProcs, Begin(p) PROVE WebTypeOK'
  <2>1. "open" \in Labels /\ "load" \in Labels
    BY DEF Labels, Touch
  <2>2. PICK r \in Requests(page) :
          /\ req' = [req EXCEPT ![p] = r]
          /\ \/ goal' = [q \in CgiProcs |-> NoGoal]
             \/ goal' = [goal EXCEPT ![p] =
                  [etc |-> IF page = "profile" THEN Edited(etc, r.text) ELSE r.text,
                   switch |-> r.switch]]
    BY <1>2 DEF Begin
  <2>3. r \in Request /\ r.text \in File
    BY RequestFacts DEF WebTypeOK
  <2> DEFINE e == IF page = "profile" THEN Edited(etc, r.text) ELSE r.text
  <2>4. e \in File
    BY <2>3, LoadedFile DEF WebTypeOK
  <2> HIDE DEF e
  <2>5. [etc |-> e, switch |-> r.switch] \in Goal
    BY <2>3, <2>4 DEF Request, Goal
  <2>6. req' \in [CgiProcs -> Request] /\ goal' \in [CgiProcs -> Goal]
    BY <2>2, <2>3, <2>5, NothingFacts DEF WebTypeOK, e
  <2> QED
    BY <1>2, <2>1, <2>6, GotoType DEF Begin, files, WebTypeOK
<1>3. ASSUME NEW p \in CgiProcs, Load(p) PROVE WebTypeOK'
  <2>1. "open" \in Labels
    BY DEF Labels, Touch
  <2>2. req[p] \in Request
    BY DEF WebTypeOK
  <2>3. Loaded(etc, req[p].text) \in File
    BY LoadedFile DEF WebTypeOK, Request
  <2>4. [req[p] EXCEPT !.text = Loaded(etc, @)] \in Request
    BY <2>2, <2>3 DEF Request
  <2>5. req' \in [CgiProcs -> Request]
    BY <1>3, <2>4 DEF Load, WebTypeOK
  <2> QED
    BY <1>3, <2>1, <2>5, GotoType DEF Load, files, webHistory, WebTypeOK
<1>4. ASSUME NEW p \in CgiProcs, Refuse(p) PROVE WebTypeOK'
  <2>1. "idle" \in Labels
    BY DEF Labels
  <2> QED
    BY <1>4, <2>1, NothingFacts, GotoType DEF Refuse, files, WebTypeOK
<1>5. ASSUME NEW p \in CgiProcs, Open(p) PROVE WebTypeOK'
  <2>1. "write" \in Labels
    BY DEF Labels, Touch
  <2> QED
    BY <1>5, <2>1, GotoType, NothingFacts DEF Open, webHistory, WebTypeOK
<1>6. ASSUME NEW p \in CgiProcs, WriteTmp(p) PROVE WebTypeOK'
  <2>1. "state" \in Labels /\ "cp" \in Labels
    BY DEF Labels, Touch
  <2>2. req[p] \in Request
    BY DEF WebTypeOK
  <2>3. Overlay(tmp, req[p].text) \in File
    BY OverlayFile DEF WebTypeOK, Request
  <2> QED
    BY <1>6, <2>1, <2>3, GotoType DEF WriteTmp, webHistory, WebTypeOK
<1>7. ASSUME NEW p \in CgiProcs, OpenState(p) PROVE WebTypeOK'
  <2>1. "writestate" \in Labels
    BY DEF Labels, Touch
  <2> QED
    BY <1>7, <2>1, GotoType DEF OpenState, webHistory, WebTypeOK
<1>8. ASSUME NEW p \in CgiProcs, WriteState(p) PROVE WebTypeOK'
  <2>1. "cp" \in Labels
    BY DEF Labels, Touch
  <2> QED
    BY <1>8, <2>1, GotoType DEF WriteState, webHistory, WebTypeOK
<1>9. ASSUME NEW p \in CgiProcs, CpOpen(p) PROVE WebTypeOK'
  <2>1. "copy" \in Labels
    BY DEF Labels, Touch
  <2> QED
    BY <1>9, <2>1, GotoType, NothingFacts DEF CpOpen, webHistory, WebTypeOK
<1>10. ASSUME NEW p \in CgiProcs, CpCopy(p) PROVE WebTypeOK'
  <2>1. {"service", "install", "stop"} \subseteq Labels
    BY DEF Labels, Copied, Dhcp, Firewall
  <2>2. Overlay(etc, tmp) \in File
    BY OverlayFile DEF WebTypeOK
  <2> QED
    BY <1>10, <2>1, <2>2, FinishType, GotoType DEF CpCopy, webHistory, WebTypeOK
<1>11. ASSUME NEW p \in CgiProcs, InstallOpen(p) PROVE WebTypeOK'
  <2>1. "installcopy" \in Labels
    BY DEF Labels, Copied, Dhcp
  <2> QED
    BY <1>11, <2>1, GotoType DEF InstallOpen, webHistory, WebTypeOK
<1>12. ASSUME NEW p \in CgiProcs, InstallCopy(p) PROVE WebTypeOK'
  <2>1. "start" \in Labels
    BY DEF Labels, Copied, Dhcp
  <2> QED
    BY <1>12, <2>1, GotoType DEF InstallCopy, webHistory, WebTypeOK
<1>13. ASSUME NEW p \in CgiProcs, StartDaemon(p) PROVE WebTypeOK'
  <2>1. "launch" \in Labels /\ "restart" \in Labels
    BY DEF Labels, Copied, Dhcp
  <2> QED
    BY <1>13, <2>1, GotoType DEF StartDaemon, files, webHistory, WebTypeOK
<1>14. ASSUME NEW p \in CgiProcs, Launch(p) PROVE WebTypeOK'
  <2>1. "restart" \in Labels
    BY DEF Labels, Copied, Dhcp
  <2> QED
    BY <1>14, <2>1, GotoType DEF Launch, files, webHistory, WebTypeOK
<1>15. ASSUME NEW p \in CgiProcs, RestartKill(p) PROVE WebTypeOK'
  <2>1. "relaunch" \in Labels
    BY DEF Labels, Copied, Dhcp
  <2> QED
    BY <1>15, <2>1, FinishType, GotoType DEF RestartKill, files, webHistory, WebTypeOK
<1>16. ASSUME NEW p \in CgiProcs, Relaunch(p) PROVE WebTypeOK'
  BY <1>16, FinishType DEF Relaunch, files, WebTypeOK
<1>17. ASSUME NEW p \in CgiProcs, Stop(p) PROVE WebTypeOK'
  <2>1. "remove" \in Labels
    BY DEF Labels, Copied, Dhcp
  <2> QED
    BY <1>17, <2>1, GotoType DEF Stop, files, webHistory, WebTypeOK
<1>18. ASSUME NEW p \in CgiProcs, Remove(p) PROVE WebTypeOK'
  BY <1>18, FinishType DEF Remove, WebTypeOK
<1>19. ASSUME NEW p \in CgiProcs, ReadState(p) PROVE WebTypeOK'
  <2>1. "restore" \in Labels /\ "accept" \in Labels
    BY DEF Labels, Copied, Firewall
  <2> QED
    BY <1>19, <2>1, GotoType DEF ReadState, files, webHistory, WebTypeOK
<1>20. ASSUME NEW p \in CgiProcs, Restore(p) PROVE WebTypeOK'
  BY <1>20, FinishType DEF Restore, files, WebTypeOK
<1>21. CASE UNCHANGED webVars
  BY <1>21 DEF webVars, files, webHistory, WebTypeOK
<1> QED
  BY <1>1, <1>2, <1>3, <1>4, <1>5, <1>6, <1>7, <1>8, <1>9, <1>10, <1>11, <1>12, <1>13,
     <1>14, <1>15, <1>16, <1>17, <1>18, <1>19, <1>20, <1>21
  DEF WebNext, Step

\* Every step keeps PageInv.
LEMMA PageNext ==
    ASSUME WebTypeOK, PageInv, [WebNext]_webVars PROVE PageInv'
<1>1. CASE PowerCycle
  BY <1>1 DEF PowerCycle, Idle, WebTypeOK, PageInv, Touch, Dhcp, Firewall, Copied, WholeFile
<1>2. ASSUME NEW p \in CgiProcs, Begin(p) PROVE PageInv'
  <2>1. PICK r \in Requests(page) : req' = [req EXCEPT ![p] = r]
    BY <1>2 DEF Begin
  <2>2. r.switch \in Switches(page) /\ (page # "profile" => WholeFile(r.text))
    BY RequestFacts DEF WebTypeOK
  <2>3. page' = page /\ cgiPc' = [cgiPc EXCEPT ![p] = IF page = "profile" THEN "load" ELSE "open"]
    BY <1>2 DEF Begin, GoOn
  <2> QED
    BY <2>1, <2>2, <2>3 DEF PageInv, WholeFile, Switches, WebTypeOK, Dhcp, Firewall
<1>3. ASSUME NEW p \in CgiProcs, Load(p) PROVE PageInv'
  BY <1>3, SMTT(30)
  DEF Load, files, webHistory, GoOn, WebTypeOK, PageInv, Touch, Dhcp, Firewall, Copied, WholeFile
<1>4. ASSUME NEW p \in CgiProcs, Refuse(p) PROVE PageInv'
  BY <1>4 DEF Refuse, files, GoOn, WebTypeOK, PageInv, Touch, Dhcp, Firewall
<1>5. ASSUME NEW p \in CgiProcs, Open(p) PROVE PageInv'
  BY <1>5
  DEF Open, webHistory, GoOn, WebTypeOK, PageInv, Touch, Dhcp, Firewall, Copied, WholeFile
<1>6. ASSUME NEW p \in CgiProcs, WriteTmp(p) PROVE PageInv'
  BY <1>6
  DEF WriteTmp, webHistory, GoOn, WebTypeOK, PageInv, Touch, Dhcp, Firewall, Copied, WholeFile
<1>7. ASSUME NEW p \in CgiProcs, OpenState(p) PROVE PageInv'
  BY <1>7
  DEF OpenState, webHistory, GoOn, WebTypeOK, PageInv, Touch, Dhcp, Firewall, Copied, WholeFile
<1>8. ASSUME NEW p \in CgiProcs, WriteState(p) PROVE PageInv'
  BY <1>8
  DEF WriteState, webHistory, GoOn, WebTypeOK, PageInv, Touch, Dhcp, Firewall, Copied, WholeFile
<1>9. ASSUME NEW p \in CgiProcs, CpOpen(p) PROVE PageInv'
  BY <1>9 DEF CpOpen, webHistory, GoOn, WebTypeOK, PageInv, Touch, Dhcp, Firewall, Copied, WholeFile
<1>10. ASSUME NEW p \in CgiProcs, CpCopy(p) PROVE PageInv'
  BY <1>10, SMTT(30)
  DEF CpCopy, webHistory, GoOn, Finish, WebTypeOK, PageInv, Touch, Dhcp, Firewall, Copied, WholeFile
<1>11. ASSUME NEW p \in CgiProcs, InstallOpen(p) PROVE PageInv'
  BY <1>11
  DEF InstallOpen, webHistory, GoOn, WebTypeOK, PageInv, Touch, Dhcp, Firewall, Copied, WholeFile
<1>12. ASSUME NEW p \in CgiProcs, InstallCopy(p) PROVE PageInv'
  BY <1>12
  DEF InstallCopy, webHistory, GoOn, WebTypeOK, PageInv, Touch, Dhcp, Firewall, Copied, WholeFile
<1>13. ASSUME NEW p \in CgiProcs, StartDaemon(p) PROVE PageInv'
  BY <1>13
  DEF StartDaemon, files, webHistory, GoOn, WebTypeOK, PageInv, Touch, Dhcp, Firewall, Copied, WholeFile
<1>14. ASSUME NEW p \in CgiProcs, Launch(p) PROVE PageInv'
  BY <1>14
  DEF Launch, files, webHistory, GoOn, WebTypeOK, PageInv, Touch, Dhcp, Firewall, Copied, WholeFile
<1>15. ASSUME NEW p \in CgiProcs, RestartKill(p) PROVE PageInv'
  BY <1>15, SMTT(30)
  DEF RestartKill, files, webHistory, GoOn, Finish, WebTypeOK, PageInv, Touch, Dhcp, Firewall,
      Copied, WholeFile
<1>16. ASSUME NEW p \in CgiProcs, Relaunch(p) PROVE PageInv'
  BY <1>16
  DEF Relaunch, files, Finish, GoOn, WebTypeOK, PageInv, Touch, Dhcp, Firewall, Copied, WholeFile
<1>17. ASSUME NEW p \in CgiProcs, Stop(p) PROVE PageInv'
  BY <1>17
  DEF Stop, files, webHistory, GoOn, WebTypeOK, PageInv, Touch, Dhcp, Firewall, Copied, WholeFile
<1>18. ASSUME NEW p \in CgiProcs, Remove(p) PROVE PageInv'
  BY <1>18
  DEF Remove, Finish, GoOn, WebTypeOK, PageInv, Touch, Dhcp, Firewall, Copied, WholeFile
<1>19. ASSUME NEW p \in CgiProcs, ReadState(p) PROVE PageInv'
  BY <1>19
  DEF ReadState, files, webHistory, GoOn, WebTypeOK, PageInv, Touch, Dhcp, Firewall, Copied,
      WholeFile
<1>20. ASSUME NEW p \in CgiProcs, Restore(p) PROVE PageInv'
  BY <1>20
  DEF Restore, files, Finish, GoOn, WebTypeOK, PageInv, Touch, Dhcp, Firewall, Copied, WholeFile
<1>21. CASE UNCHANGED webVars
  BY <1>21 DEF webVars, files, PageInv, Touch, Copied, WholeFile
<1> QED
  BY <1>1, <1>2, <1>3, <1>4, <1>5, <1>6, <1>7, <1>8, <1>9, <1>10, <1>11, <1>12, <1>13,
     <1>14, <1>15, <1>16, <1>17, <1>18, <1>19, <1>20, <1>21
  DEF WebNext, Step

\* The end of a request leaves no other one alone.
LEMMA FinishFile ==
    ASSUME WebTypeOK, WebFileInv, NEW p \in CgiProcs, ~ Idle(p), Finish(p)
    PROVE  WebFileInv'
<1> SUFFICES ASSUME NEW q \in CgiProcs, WebAlone(q)' PROVE FALSE
  BY DEF WebFileInv
<1>1. q # p /\ ~ Idle(q) /\ goal'[q] = goal[q]
  BY DEF WebAlone, Idle, Finish, GoOn, WebTypeOK
<1>2. goal[p] = NoGoal
  BY <1>1 DEF WebFileInv, OwnFiles, WebAlone
<1>3. WebAlone(q)
  BY <1>1, <1>2 DEF WebAlone, Finish
<1> QED
  BY <1>1, <1>3 DEF WebFileInv, OwnFiles

\* Every step keeps FileInv.
LEMMA WebFileNext ==
    ASSUME WebTypeOK, PageInv, WebFileInv, [WebNext]_webVars PROVE WebFileInv'
<1>1. CASE PowerCycle
  BY <1>1 DEF PowerCycle, Idle, WebFileInv, WebAlone
<1>2. ASSUME NEW p \in CgiProcs, Begin(p) PROVE WebFileInv'
  BY <1>2, SMTT(30)
  DEF Begin, files, Idle, GoOn, WebTypeOK, WebFileInv, OwnFiles, WebAlone, Dhcp, Firewall, Copied,
      NoGoal
<1>3. ASSUME NEW p \in CgiProcs, Load(p) PROVE WebFileInv'
  BY <1>3
  DEF Load, files, webHistory, GoOn, WebTypeOK, WebFileInv, OwnFiles, WebAlone, Dhcp, Firewall,
      Copied, Idle, NoGoal
<1>4. ASSUME NEW p \in CgiProcs, Refuse(p) PROVE WebFileInv'
  BY <1>4 DEF Refuse, GoOn, WebTypeOK, WebFileInv, OwnFiles, WebAlone, Firewall, Copied, Idle
<1>5. ASSUME NEW p \in CgiProcs, Open(p) PROVE WebFileInv'
  BY <1>5
  DEF Open, webHistory, GoOn, WebTypeOK, WebFileInv, OwnFiles, WebAlone, Dhcp, Firewall, Copied, Idle,
      NoGoal
<1>6. ASSUME NEW p \in CgiProcs, WriteTmp(p) PROVE WebFileInv'
  <2>1. req[p].text \in File
    BY DEF WebTypeOK, Request
  <2>2. tmp = Nothing => tmp' = req[p].text
    BY <1>6, <2>1, OverlayFile DEF WriteTmp
  <2>3. /\ cgiPc[p] = "write" /\ UNCHANGED <<etc, req, goal, torn>>
        /\ cgiPc' = [cgiPc EXCEPT ![p] = IF page = "firewall" THEN "state" ELSE "cp"]
    BY <1>6 DEF WriteTmp, GoOn, webHistory
  <2> QED
    BY <2>2, <2>3
    DEF WebTypeOK, WebFileInv, OwnFiles, WebAlone, Idle, Dhcp, Firewall, Copied
<1>7. ASSUME NEW p \in CgiProcs, OpenState(p) PROVE WebFileInv'
  BY <1>7
  DEF OpenState, webHistory, GoOn, WebTypeOK, WebFileInv, OwnFiles, WebAlone, Dhcp, Firewall, Copied,
      Idle, NoGoal
<1>8. ASSUME NEW p \in CgiProcs, WriteState(p) PROVE WebFileInv'
  BY <1>8
  DEF WriteState, webHistory, GoOn, WebTypeOK, WebFileInv, OwnFiles, WebAlone, Dhcp, Firewall, Copied,
      Idle, NoGoal
<1>9. ASSUME NEW p \in CgiProcs, CpOpen(p) PROVE WebFileInv'
  BY <1>9
  DEF CpOpen, webHistory, GoOn, WebTypeOK, WebFileInv, OwnFiles, WebAlone, Dhcp, Firewall, Copied,
      Idle, NoGoal
<1>10. ASSUME NEW p \in CgiProcs, CpCopy(p) PROVE WebFileInv'
  <2>1. CASE Finish(p)
    BY <1>10, <2>1, FinishFile DEF CpCopy, Idle
  <2>2. CASE UNCHANGED <<req, webHistory>>
    <3>1. /\ cgiPc[p] = "copy" /\ UNCHANGED <<tmp, req, goal, torn>> /\ etc' = Overlay(etc, tmp)
          /\ \E l \in {"service", "install", "stop", "idle"} : cgiPc' = [cgiPc EXCEPT ![p] = l]
      BY <1>10, <2>2 DEF CpCopy, Finish, GoOn, webHistory
    <3>2. etc = Nothing /\ tmp = req[p].text => etc' = req[p].text
      BY <3>1, OverlayFile DEF WebTypeOK
    <3> QED
      BY <3>1, <3>2, SMTT(30)
      DEF WebTypeOK, WebFileInv, OwnFiles, WebAlone, Idle, Dhcp, Firewall, Copied
  <2> QED
    BY <1>10, <2>1, <2>2 DEF CpCopy
<1>11. ASSUME NEW p \in CgiProcs, InstallOpen(p) PROVE WebFileInv'
  BY <1>11
  DEF InstallOpen, webHistory, GoOn, WebTypeOK, WebFileInv, OwnFiles, WebAlone, Dhcp, Firewall,
      Copied, Idle, NoGoal
<1>12. ASSUME NEW p \in CgiProcs, InstallCopy(p) PROVE WebFileInv'
  BY <1>12
  DEF InstallCopy, webHistory, GoOn, WebTypeOK, WebFileInv, OwnFiles, WebAlone, Dhcp, Firewall,
      Copied, Idle, NoGoal
<1>13. ASSUME NEW p \in CgiProcs, StartDaemon(p) PROVE WebFileInv'
  BY <1>13
  DEF StartDaemon, files, webHistory, GoOn, WebTypeOK, WebFileInv, OwnFiles, WebAlone, Dhcp, Firewall,
      Copied, Idle, NoGoal
<1>14. ASSUME NEW p \in CgiProcs, Launch(p) PROVE WebFileInv'
  BY <1>14
  DEF Launch, files, webHistory, GoOn, WebTypeOK, WebFileInv, OwnFiles, WebAlone, Dhcp, Firewall,
      Copied, Idle, NoGoal
<1>15. ASSUME NEW p \in CgiProcs, RestartKill(p) PROVE WebFileInv'
  BY <1>15, SMTT(30)
  DEF RestartKill, files, webHistory, GoOn, Finish, WebTypeOK, WebFileInv, OwnFiles, WebAlone, Dhcp,
      Firewall, Copied, Idle, NoGoal
<1>16. ASSUME NEW p \in CgiProcs, Relaunch(p) PROVE WebFileInv'
  BY <1>16, FinishFile DEF Relaunch, Idle
<1>17. ASSUME NEW p \in CgiProcs, Stop(p) PROVE WebFileInv'
  BY <1>17
  DEF Stop, files, webHistory, GoOn, WebTypeOK, WebFileInv, OwnFiles, WebAlone, Dhcp, Firewall,
      Copied, Idle, NoGoal
<1>18. ASSUME NEW p \in CgiProcs, Remove(p) PROVE WebFileInv'
  BY <1>18, FinishFile DEF Remove, Idle
<1>19. ASSUME NEW p \in CgiProcs, ReadState(p) PROVE WebFileInv'
  BY <1>19
  DEF ReadState, files, webHistory, GoOn, WebTypeOK, WebFileInv, OwnFiles, WebAlone, Dhcp, Firewall,
      Copied, Idle, NoGoal
<1>20. ASSUME NEW p \in CgiProcs, Restore(p) PROVE WebFileInv'
  BY <1>20, FinishFile DEF Restore, Idle
<1>21. CASE UNCHANGED webVars
  BY <1>21 DEF webVars, files, webHistory, WebFileInv, OwnFiles, WebAlone, Firewall, Idle, NoGoal
<1> QED
  BY <1>1, <1>2, <1>3, <1>4, <1>5, <1>6, <1>7, <1>8, <1>9, <1>10, <1>11, <1>12, <1>13,
     <1>14, <1>15, <1>16, <1>17, <1>18, <1>19, <1>20, <1>21
  DEF WebNext, Step

\* The end of a request that was alone leaves a whole file.
LEMMA FinishWhole ==
    ASSUME WebTypeOK, WebFileInv, NEW p \in CgiProcs, ~ Idle(p), Finish(p),
           torn' = "no" /\ WebAlone(p) => WholeFile(etc)'
    PROVE  WholeInv'
<1> SUFFICES ASSUME torn' = "no" PROVE WholeInv'
  BY DEF WholeInv
<1>1. WebAlone(p)
  BY DEF Finish, WebAlone
<1>2. \A q \in CgiProcs : cgiPc'[q] = "idle"
  BY <1>1 DEF WebFileInv, OwnFiles, Idle, Finish, GoOn, WebTypeOK
<1> QED
  BY <1>1, <1>2 DEF WholeInv

\* Every step keeps WholeInv.
LEMMA WholeNext ==
    ASSUME WebTypeOK, PageInv, WebFileInv, GoalInv, WholeInv, [WebNext]_webVars PROVE WholeInv'
<1>1. CASE PowerCycle
  <2>1. UNCHANGED <<page, etc>> /\ \A q \in CgiProcs : cgiPc'[q] = "idle"
    BY <1>1 DEF PowerCycle
  <2> SUFFICES ASSUME torn' = "no" PROVE WholeFile(etc)
    BY <2>1 DEF WholeInv, WholeFile
  <2>2. torn = "no" /\ \A q \in CgiProcs : cgiPc[q] # "copy"
    BY <1>1 DEF PowerCycle
  <2>3. ASSUME NEW q \in CgiProcs, cgiPc[q] \in Copied PROVE WholeFile(etc)
    <3>1. cgiPc[q] \notin {"idle", "load"}
      BY <2>3 DEF Copied, Dhcp, Firewall
    <3> QED
      BY <2>2, <2>3, <3>1 DEF WebFileInv, OwnFiles, WebAlone, Idle, WholeInv
  <2> QED
    BY <2>2, <2>3 DEF WholeInv
<1>2. ASSUME NEW p \in CgiProcs, Begin(p) PROVE WholeInv'
  <2> SUFFICES ASSUME torn' = "no" PROVE WholeInv'
    BY DEF WholeInv
  <2>1. /\ torn = "no" /\ UNCHANGED <<page, etc>> /\ \A q \in CgiProcs : cgiPc[q] = "idle"
        /\ cgiPc' = [cgiPc EXCEPT ![p] = IF page = "profile" THEN "load" ELSE "open"]
    BY <1>2 DEF Begin, Idle, GoOn, files
  <2>2. WholeFile(etc)
    BY <2>1 DEF WholeInv, Copied, Dhcp, Firewall
  <2>3. PICK r \in Requests(page) : req' = [req EXCEPT ![p] = r]
    BY <1>2 DEF Begin
  <2>4. page # "profile" => WholeFile(r.text)
    BY RequestFacts DEF WebTypeOK
  <2> QED
    BY <2>1, <2>2, <2>3, <2>4 DEF WholeInv, WholeFile, WebTypeOK
<1>3. ASSUME NEW p \in CgiProcs, Load(p) PROVE WholeInv'
  <2>1. /\ cgiPc[p] = "load" /\ page = "profile" /\ UNCHANGED <<page, etc, torn>>
        /\ cgiPc' = [cgiPc EXCEPT ![p] = "open"]
    BY <1>3 DEF Load, GoOn, files, webHistory, PageInv
  <2>2. \A q \in CgiProcs : q # p => req'[q] = req[q]
    BY <1>3 DEF Load, WebTypeOK
  <2>3. req'[p].text = Edited(etc, req[p].text) /\ req[p].text \in File
    BY <1>3, LoadedFile DEF Load, WebTypeOK, Request
  <2> SUFFICES ASSUME torn = "no" PROVE WholeInv'
    BY <2>1 DEF WholeInv
  <2>4. \A q \in CgiProcs : q # p => cgiPc[q] = "idle"
    BY <2>1 DEF WebFileInv, OwnFiles, WebAlone, Idle
  <2>5. WholeFile(etc)
    BY <2>1, <2>4 DEF WholeInv, Copied, Dhcp, Firewall
  <2>6. WholeFile(Edited(etc, req[p].text))
    BY <2>1, <2>3, <2>5, EditedWhole DEF WebTypeOK
  <2> QED
    BY <2>1, <2>3, <2>4, <2>5, <2>6 DEF WholeInv, WholeFile, WebTypeOK
<1>4. ASSUME NEW p \in CgiProcs, Refuse(p) PROVE WholeInv'
  BY <1>4 DEF Refuse, files, GoOn, WebTypeOK, WholeInv, Dhcp, Firewall, Copied, WholeFile
<1>5. ASSUME NEW p \in CgiProcs, Open(p) PROVE WholeInv'
  BY <1>5 DEF Open, webHistory, GoOn, WebTypeOK, WholeInv, Dhcp, Firewall, Copied, WholeFile
<1>6. ASSUME NEW p \in CgiProcs, WriteTmp(p) PROVE WholeInv'
  BY <1>6 DEF WriteTmp, webHistory, GoOn, WebTypeOK, WholeInv, Dhcp, Firewall, Copied, WholeFile
<1>7. ASSUME NEW p \in CgiProcs, OpenState(p) PROVE WholeInv'
  BY <1>7 DEF OpenState, webHistory, GoOn, WebTypeOK, WholeInv, Dhcp, Firewall, Copied, WholeFile
<1>8. ASSUME NEW p \in CgiProcs, WriteState(p) PROVE WholeInv'
  BY <1>8 DEF WriteState, webHistory, GoOn, WebTypeOK, WholeInv, Dhcp, Firewall, Copied, WholeFile
<1>9. ASSUME NEW p \in CgiProcs, CpOpen(p) PROVE WholeInv'
  BY <1>9 DEF CpOpen, webHistory, GoOn, WebTypeOK, WholeInv, Dhcp, WholeFile
<1>10. ASSUME NEW p \in CgiProcs, CpCopy(p) PROVE WholeInv'
  <2>1. cgiPc[p] = "copy" /\ ~ Idle(p) /\ page' = page /\ etc' = Overlay(etc, tmp)
    BY <1>10 DEF CpCopy, Idle
  <2>2. WebAlone(p) => etc' = req[p].text
    BY <2>1, OverlayFile DEF WebFileInv, OwnFiles, WebTypeOK
  <2>3. Finish(p) /\ torn' = "no" /\ WebAlone(p) => WholeFile(req[p].text)
    <3>1. CASE page # "profile"
      BY <2>1, <3>1 DEF PageInv
    <3>2. CASE page = "profile"
      BY <2>1, <3>2 DEF Finish, WholeInv
    <3> QED
      BY <3>1, <3>2
  <2>4. CASE Finish(p)
    <3>1. torn' = "no" /\ WebAlone(p) => WholeFile(etc)'
      BY <2>1, <2>2, <2>3, <2>4 DEF WholeFile
    <3> QED
      BY <2>1, <2>4, <3>1, FinishWhole
  <2>5. CASE UNCHANGED <<req, webHistory>> /\ ~ Finish(p)
    <3>1. \E l \in {"service", "install", "stop"} : cgiPc' = [cgiPc EXCEPT ![p] = l]
      BY <1>10, <2>5 DEF CpCopy, GoOn
    <3> QED
      BY <2>1, <2>5, <3>1 DEF webHistory, WebTypeOK, WholeInv, WholeFile, Copied, Dhcp, Firewall
  <2> QED
    BY <1>10, <2>4, <2>5 DEF CpCopy
<1>11. ASSUME NEW p \in CgiProcs, InstallOpen(p) PROVE WholeInv'
  BY <1>11 DEF InstallOpen, webHistory, GoOn, WebTypeOK, WholeInv, Dhcp, Copied, WholeFile
<1>12. ASSUME NEW p \in CgiProcs, InstallCopy(p) PROVE WholeInv'
  BY <1>12 DEF InstallCopy, webHistory, GoOn, WebTypeOK, WholeInv, Dhcp, Firewall, Copied, WholeFile
<1>13. ASSUME NEW p \in CgiProcs, StartDaemon(p) PROVE WholeInv'
  BY <1>13 DEF StartDaemon, webHistory, GoOn, WebTypeOK, WholeInv, Dhcp, Copied, WholeFile
<1>14. ASSUME NEW p \in CgiProcs, Launch(p) PROVE WholeInv'
  BY <1>14 DEF Launch, webHistory, GoOn, WebTypeOK, WholeInv, Dhcp, Copied, WholeFile
<1>15. ASSUME NEW p \in CgiProcs, RestartKill(p) PROVE WholeInv'
  <2>1. /\ cgiPc[p] \in Copied /\ ~ Idle(p) /\ page # "profile" /\ page' = page /\ etc' = etc
    BY <1>15 DEF RestartKill, Idle, Copied, Dhcp, PageInv, files
  <2>2. WebAlone(p) => etc = req[p].text /\ WholeFile(req[p].text)
    BY <2>1 DEF WebFileInv, OwnFiles, PageInv, Idle
  <2>3. WebAlone(p) => WholeFile(etc)'
    BY <2>1, <2>2 DEF WholeFile
  <2>4. CASE Finish(p)
    BY <2>1, <2>3, <2>4, FinishWhole
  <2>5. CASE GoOn(p, "relaunch") /\ UNCHANGED <<req, webHistory>>
    <3>1. /\ cgiPc'[p] = "relaunch" /\ cgiPc[p] = "restart" /\ UNCHANGED <<req, torn>>
          /\ \A q \in CgiProcs : q # p => cgiPc'[q] = cgiPc[q]
      BY <1>15, <2>5 DEF RestartKill, GoOn, webHistory, WebTypeOK
    <3> QED
      BY <2>1, <3>1 DEF WholeInv, WholeFile, Copied, Dhcp
  <2> QED
    BY <1>15, <2>4, <2>5 DEF RestartKill
<1>16. ASSUME NEW p \in CgiProcs, Relaunch(p) PROVE WholeInv'
  <2>1. /\ cgiPc[p] \in Copied /\ ~ Idle(p) /\ page # "profile" /\ page' = page /\ etc' = etc
    BY <1>16 DEF Relaunch, Idle, Copied, Dhcp, PageInv, files
  <2>2. WebAlone(p) => etc = req[p].text /\ WholeFile(req[p].text)
    BY <2>1 DEF WebFileInv, OwnFiles, PageInv, Idle
  <2>3. WebAlone(p) => WholeFile(etc)'
    BY <2>1, <2>2 DEF WholeFile
  <2> QED
    BY <1>16, <2>1, <2>3, FinishWhole DEF Relaunch
<1>17. ASSUME NEW p \in CgiProcs, Stop(p) PROVE WholeInv'
  BY <1>17 DEF Stop, files, webHistory, GoOn, WebTypeOK, WholeInv, Dhcp, Firewall, Copied, WholeFile
<1>18. ASSUME NEW p \in CgiProcs, Remove(p) PROVE WholeInv'
  <2>1. /\ cgiPc[p] \in Copied /\ ~ Idle(p) /\ page # "profile" /\ page' = page /\ etc' = etc
    BY <1>18 DEF Remove, Idle, Copied, Dhcp, PageInv
  <2>2. WebAlone(p) => etc = req[p].text /\ WholeFile(req[p].text)
    BY <2>1 DEF WebFileInv, OwnFiles, PageInv, Idle
  <2>3. WebAlone(p) => WholeFile(etc)'
    BY <2>1, <2>2 DEF WholeFile
  <2> QED
    BY <1>18, <2>1, <2>3, FinishWhole DEF Remove
<1>19. ASSUME NEW p \in CgiProcs, ReadState(p) PROVE WholeInv'
  BY <1>19 DEF ReadState, webHistory, GoOn, WebTypeOK, WholeInv, Dhcp, Firewall, Copied, WholeFile
<1>20. ASSUME NEW p \in CgiProcs, Restore(p) PROVE WholeInv'
  <2>1. /\ cgiPc[p] \in Copied /\ ~ Idle(p) /\ page # "profile" /\ page' = page /\ etc' = etc
    BY <1>20 DEF Restore, Idle, Copied, Firewall, PageInv, files
  <2>2. WebAlone(p) => etc = req[p].text /\ WholeFile(req[p].text)
    BY <2>1 DEF WebFileInv, OwnFiles, PageInv, Idle
  <2>3. WebAlone(p) => WholeFile(etc)'
    BY <2>1, <2>2 DEF WholeFile
  <2> QED
    BY <1>20, <2>1, <2>3, FinishWhole DEF Restore
<1>21. CASE UNCHANGED webVars
  BY <1>21 DEF webVars, files, webHistory, WholeInv, WholeFile
<1> QED
  BY <1>1, <1>2, <1>3, <1>4, <1>5, <1>6, <1>7, <1>8, <1>9, <1>10, <1>11, <1>12, <1>13,
     <1>14, <1>15, <1>16, <1>17, <1>18, <1>19, <1>20, <1>21
  DEF WebNext, Step

\* Only the request that moves can be on its way.
LEMMA GoalStep ==
    ASSUME WebTypeOK, WebFileInv, GoalInv, NEW p \in CgiProcs, ~ Idle(p),
           \A q \in CgiProcs : q # p => goal'[q] = goal[q],
           goal'[p] = NoGoal \/ goal'[p] = goal[p],
           goal[p] # NoGoal /\ goal'[p] = goal[p] /\ OnTheWay(p) /\ OwnFiles(p) => OnTheWay(p)'
    PROVE  GoalInv'
<1> SUFFICES ASSUME NEW q \in CgiProcs, goal'[q] # NoGoal PROVE OnTheWay(q)'
  BY DEF GoalInv
<1>1. goal[q] # NoGoal /\ goal'[q] = goal[q]
  OBVIOUS
<1>2. OnTheWay(q) /\ OwnFiles(q)
  BY <1>1 DEF GoalInv, WebFileInv, WebAlone, OnTheWay
<1>3. q = p
  BY <1>2 DEF OwnFiles
<1> QED
  BY <1>2, <1>3

\* Every step keeps GoalInv.
LEMMA GoalNext ==
    ASSUME WebTypeOK, PageInv, WebFileInv, GoalInv, [WebNext]_webVars PROVE GoalInv'
<1>1. CASE PowerCycle
  BY <1>1 DEF PowerCycle, GoalInv
<1>2. ASSUME NEW p \in CgiProcs, Begin(p) PROVE GoalInv'
  <2>1. Idle(p) /\ UNCHANGED <<page, etc, stateFile, script, run>>
    BY <1>2 DEF Begin, files
  <2>2. PICK r \in Requests(page) :
          /\ req' = [req EXCEPT ![p] = r]
          /\ \/ goal' = [q \in CgiProcs |-> NoGoal]
             \/ /\ \A q \in CgiProcs : Idle(q)
                /\ r.switch # "missing" /\ ~ (Stray /\ r.switch = "off")
                /\ goal' = [goal EXCEPT ![p] =
                     [etc |-> IF page = "profile" THEN Edited(etc, r.text) ELSE r.text,
                      switch |-> r.switch]]
    BY <1>2 DEF Begin
  <2>3. cgiPc'[p] = IF page = "profile" THEN "load" ELSE "open"
    BY <1>2 DEF Begin, GoOn, WebTypeOK
  <2> SUFFICES ASSUME NEW q \in CgiProcs, goal'[q] # NoGoal PROVE OnTheWay(q)'
    BY DEF GoalInv
  <2>4. \A x \in CgiProcs : Idle(x)
    BY <2>2
  <2>5. q = p
    BY <2>2, <2>4 DEF GoalInv, OnTheWay, WebTypeOK
  <2>6. /\ req'[p] = r /\ r.switch # "missing" /\ ~ (Stray /\ r.switch = "off")
        /\ goal'[p].etc = IF page = "profile" THEN Edited(etc, r.text) ELSE r.text
        /\ goal'[p].switch = r.switch
    <3> DEFINE g == [etc |-> IF page = "profile" THEN Edited(etc, r.text) ELSE r.text,
                     switch |-> r.switch]
    <3>1. goal' = [goal EXCEPT ![p] = g] /\ r.switch # "missing" /\ ~ (Stray /\ r.switch = "off")
      BY <2>2, <2>5
    <3>2. goal'[p] = g /\ req'[p] = r
      BY <2>2, <3>1 DEF WebTypeOK
    <3>3. g.etc = IF page = "profile" THEN Edited(etc, r.text) ELSE r.text
      OBVIOUS
    <3>4. g.switch = r.switch
      OBVIOUS
    <3> QED
      BY <3>1, <3>2, <3>3, <3>4
  <2> QED
    BY <2>1, <2>3, <2>5, <2>6 DEF OnTheWay, Idle, Firewall, Stray
<1>3. ASSUME NEW p \in CgiProcs, Load(p) PROVE GoalInv'
  <2>1. /\ cgiPc[p] = "load" /\ ~ Idle(p) /\ page = "profile"
        /\ UNCHANGED <<page, etc, stateFile, script, run, goal>>
    BY <1>3 DEF Load, Idle, files, webHistory, PageInv
  <2>2. /\ req'[p].text = Edited(etc, req[p].text) /\ req'[p].switch = req[p].switch
        /\ cgiPc'[p] = "open"
    BY <1>3, LoadedFile DEF Load, GoOn, WebTypeOK, Request
  <2>3. goal[p] # NoGoal /\ OnTheWay(p) /\ OwnFiles(p) => OnTheWay(p)'
    BY <2>1, <2>2 DEF OnTheWay, Idle
  <2> QED
    BY <2>1, <2>3, GoalStep
<1>4. ASSUME NEW p \in CgiProcs, Refuse(p) PROVE GoalInv'
  <2>1. ~ Idle(p) /\ goal' = [goal EXCEPT ![p] = NoGoal]
    BY <1>4 DEF Refuse, Idle
  <2>2. goal'[p] = NoGoal /\ \A q \in CgiProcs : q # p => goal'[q] = goal[q]
    BY <2>1 DEF WebTypeOK
  <2> QED
    BY <2>1, <2>2, GoalStep
<1>5. ASSUME NEW p \in CgiProcs, Open(p) PROVE GoalInv'
  <2>1. ~ Idle(p) /\ UNCHANGED <<page, etc, stateFile, script, run, req>> /\ goal' = goal
    BY <1>5 DEF Open, Idle, webHistory
  <2>2. cgiPc'[p] = "write"
    BY <1>5 DEF Open, GoOn, WebTypeOK
  <2>3. goal[p] # NoGoal /\ OnTheWay(p) /\ OwnFiles(p) => OnTheWay(p)'
    BY <1>5, <2>1, <2>2 DEF Open, OnTheWay, Idle, Firewall
  <2> QED
    BY <2>1, <2>3, GoalStep
<1>6. ASSUME NEW p \in CgiProcs, WriteTmp(p) PROVE GoalInv'
  <2>1. ~ Idle(p) /\ UNCHANGED <<page, etc, stateFile, script, run, req>> /\ goal' = goal
    BY <1>6 DEF WriteTmp, Idle, webHistory
  <2>2. cgiPc'[p] = IF page = "firewall" THEN "state" ELSE "cp"
    BY <1>6 DEF WriteTmp, GoOn, WebTypeOK
  <2>3. goal[p] # NoGoal /\ OnTheWay(p) /\ OwnFiles(p) => OnTheWay(p)'
    BY <1>6, <2>1, <2>2 DEF WriteTmp, OnTheWay, Idle, Firewall
  <2> QED
    BY <2>1, <2>3, GoalStep
<1>7. ASSUME NEW p \in CgiProcs, OpenState(p) PROVE GoalInv'
  <2>1. ~ Idle(p) /\ UNCHANGED <<page, etc, script, run, req>> /\ goal' = goal
    BY <1>7 DEF OpenState, Idle, webHistory
  <2>2. cgiPc'[p] = "writestate"
    BY <1>7 DEF OpenState, GoOn, WebTypeOK
  <2>3. goal[p] # NoGoal /\ OnTheWay(p) /\ OwnFiles(p) => OnTheWay(p)'
    BY <1>7, <2>1, <2>2 DEF OpenState, OnTheWay, PageInv, Idle, Dhcp, Firewall
  <2> QED
    BY <2>1, <2>3, GoalStep
<1>8. ASSUME NEW p \in CgiProcs, WriteState(p) PROVE GoalInv'
  <2>1. ~ Idle(p) /\ UNCHANGED <<page, etc, script, run, req>> /\ goal' = goal
    BY <1>8 DEF WriteState, Idle, webHistory
  <2>2. cgiPc'[p] = "cp"
    BY <1>8 DEF WriteState, GoOn, WebTypeOK
  <2>3. goal[p] # NoGoal /\ OnTheWay(p) /\ OwnFiles(p) => OnTheWay(p)'
    BY <1>8, <2>1, <2>2 DEF WriteState, OnTheWay, Idle
  <2> QED
    BY <2>1, <2>3, GoalStep
<1>9. ASSUME NEW p \in CgiProcs, CpOpen(p) PROVE GoalInv'
  <2>1. ~ Idle(p) /\ UNCHANGED <<page, stateFile, script, run, req>> /\ goal' = goal
    BY <1>9 DEF CpOpen, Idle, webHistory
  <2>2. cgiPc'[p] = "copy"
    BY <1>9 DEF CpOpen, GoOn, WebTypeOK
  <2>3. goal[p] # NoGoal /\ OnTheWay(p) /\ OwnFiles(p) => OnTheWay(p)'
    BY <1>9, <2>1, <2>2 DEF CpOpen, OnTheWay, Idle
  <2> QED
    BY <2>1, <2>3, GoalStep
<1>10. ASSUME NEW p \in CgiProcs, CpCopy(p) PROVE GoalInv'
  <2>1. cgiPc[p] = "copy" /\ ~ Idle(p) /\ UNCHANGED <<page, stateFile, script, run>>
    BY <1>10 DEF CpCopy, Idle
  <2>2. CASE Finish(p)
    <3>1. goal'[p] = NoGoal /\ \A q \in CgiProcs : q # p => goal'[q] = goal[q]
      BY <2>2 DEF Finish, WebTypeOK
    <3> QED
      BY <2>1, <3>1, GoalStep
  <2>3. CASE ~ Finish(p)
    <3>1. UNCHANGED <<req, goal>> /\ cgiPc'[p] \in {"service", "install", "stop"}
          /\ (cgiPc'[p] = "service" => page = "firewall")
      BY <1>10, <2>3 DEF CpCopy, GoOn, WebTypeOK, webHistory
    <3>2. goal[p] # NoGoal /\ OnTheWay(p) /\ OwnFiles(p) => OnTheWay(p)'
      BY <2>1, <3>1 DEF OnTheWay, Idle, Firewall
    <3> QED
      BY <2>1, <3>1, <3>2, GoalStep
  <2> QED
    BY <2>2, <2>3
<1>11. ASSUME NEW p \in CgiProcs, InstallOpen(p) PROVE GoalInv'
  <2>1. ~ Idle(p) /\ UNCHANGED <<page, etc, stateFile, run, req>> /\ goal' = goal
    BY <1>11 DEF InstallOpen, Idle, webHistory
  <2>2. cgiPc'[p] = "installcopy"
    BY <1>11 DEF InstallOpen, GoOn, WebTypeOK
  <2>3. goal[p] # NoGoal /\ OnTheWay(p) /\ OwnFiles(p) => OnTheWay(p)'
    BY <1>11, <2>1, <2>2 DEF InstallOpen, OnTheWay, OwnFiles, PageInv, Idle, Dhcp
  <2> QED
    BY <2>1, <2>3, GoalStep
<1>12. ASSUME NEW p \in CgiProcs, InstallCopy(p) PROVE GoalInv'
  <2>1. ~ Idle(p) /\ UNCHANGED <<page, etc, stateFile, run, req>> /\ goal' = goal
    BY <1>12 DEF InstallCopy, Idle, webHistory
  <2>2. cgiPc'[p] = "start"
    BY <1>12 DEF InstallCopy, GoOn, WebTypeOK
  <2>3. goal[p] # NoGoal /\ OnTheWay(p) /\ OwnFiles(p) => OnTheWay(p)'
    BY <1>12, <2>1, <2>2 DEF InstallCopy, OnTheWay, OwnFiles, Idle, Firewall
  <2> QED
    BY <2>1, <2>3, GoalStep
<1>13. ASSUME NEW p \in CgiProcs, StartDaemon(p) PROVE GoalInv'
  <2>1. ~ Idle(p) /\ UNCHANGED <<page, etc, stateFile, script, run, req>> /\ goal' = goal
    BY <1>13 DEF StartDaemon, Idle, files, webHistory
  <2>2. cgiPc'[p] \in {"launch", "restart"}
    BY <1>13 DEF StartDaemon, GoOn, WebTypeOK
  <2>3. goal[p] # NoGoal /\ OnTheWay(p) /\ OwnFiles(p) => OnTheWay(p)'
    BY <1>13, <2>1, <2>2 DEF StartDaemon, OnTheWay, PageInv, Idle, Dhcp
  <2> QED
    BY <2>1, <2>3, GoalStep
<1>14. ASSUME NEW p \in CgiProcs, Launch(p) PROVE GoalInv'
  <2>1. ~ Idle(p) /\ UNCHANGED <<page, etc, stateFile, script, req>> /\ goal' = goal
    BY <1>14 DEF Launch, Idle, files, webHistory
  <2>2. cgiPc'[p] = "restart"
    BY <1>14 DEF Launch, GoOn, WebTypeOK
  <2>3. goal[p] # NoGoal /\ OnTheWay(p) /\ OwnFiles(p) => OnTheWay(p)'
    BY <1>14, <2>1, <2>2 DEF Launch, OnTheWay, PageInv, Idle, Dhcp
  <2> QED
    BY <2>1, <2>3, GoalStep
<1>15. ASSUME NEW p \in CgiProcs, RestartKill(p) PROVE GoalInv'
  <2>1. cgiPc[p] = "restart" /\ ~ Idle(p)
    BY <1>15 DEF RestartKill, Idle
  <2>2. CASE Finish(p)
    <3>1. goal'[p] = NoGoal /\ \A q \in CgiProcs : q # p => goal'[q] = goal[q]
      BY <2>2 DEF Finish, WebTypeOK
    <3> QED
      BY <2>1, <3>1, GoalStep
  <2>3. CASE script = "present" /\ run' = {} /\ GoOn(p, "relaunch") /\ UNCHANGED <<req, webHistory>>
    <3>1. cgiPc'[p] = "relaunch" /\ UNCHANGED <<page, etc, stateFile, script, req, goal>>
      BY <1>15, <2>3 DEF RestartKill, GoOn, WebTypeOK, files, webHistory
    <3>2. goal[p] # NoGoal /\ OnTheWay(p) /\ OwnFiles(p) => OnTheWay(p)'
      BY <2>1, <2>3, <3>1 DEF OnTheWay, PageInv, Idle, Dhcp
    <3> QED
      BY <2>1, <3>1, <3>2, GoalStep
  <2> QED
    BY <1>15, <2>2, <2>3 DEF RestartKill
<1>16. ASSUME NEW p \in CgiProcs, Relaunch(p) PROVE GoalInv'
  <2>1. ~ Idle(p) /\ goal' = [goal EXCEPT ![p] = NoGoal]
    BY <1>16 DEF Relaunch, Finish, Idle
  <2>2. goal'[p] = NoGoal /\ \A q \in CgiProcs : q # p => goal'[q] = goal[q]
    BY <2>1 DEF WebTypeOK
  <2> QED
    BY <2>1, <2>2, GoalStep
<1>17. ASSUME NEW p \in CgiProcs, Stop(p) PROVE GoalInv'
  <2>1. ~ Idle(p) /\ UNCHANGED <<page, etc, stateFile, script, req>> /\ goal' = goal
    BY <1>17 DEF Stop, Idle, files, webHistory
  <2>2. cgiPc'[p] = "remove"
    BY <1>17 DEF Stop, GoOn, WebTypeOK
  <2>3. goal[p] # NoGoal /\ OnTheWay(p) /\ OwnFiles(p) => OnTheWay(p)'
    BY <1>17, <2>1, <2>2 DEF Stop, OnTheWay, PageInv, Idle, Dhcp
  <2> QED
    BY <2>1, <2>3, GoalStep
<1>18. ASSUME NEW p \in CgiProcs, Remove(p) PROVE GoalInv'
  <2>1. ~ Idle(p) /\ goal' = [goal EXCEPT ![p] = NoGoal]
    BY <1>18 DEF Remove, Finish, Idle
  <2>2. goal'[p] = NoGoal /\ \A q \in CgiProcs : q # p => goal'[q] = goal[q]
    BY <2>1 DEF WebTypeOK
  <2> QED
    BY <2>1, <2>2, GoalStep
<1>19. ASSUME NEW p \in CgiProcs, ReadState(p) PROVE GoalInv'
  <2>1. ~ Idle(p) /\ UNCHANGED <<page, etc, stateFile, script, run, req>> /\ goal' = goal
    BY <1>19 DEF ReadState, Idle, files, webHistory
  <2>2. cgiPc'[p] = IF stateFile = "on" THEN "restore" ELSE "accept"
    BY <1>19 DEF ReadState, GoOn, WebTypeOK
  <2>3. goal[p] # NoGoal /\ OnTheWay(p) /\ OwnFiles(p) => OnTheWay(p)'
    BY <1>19, <2>1, <2>2 DEF ReadState, OnTheWay, PageInv, Idle, Firewall
  <2> QED
    BY <2>1, <2>3, GoalStep
<1>20. ASSUME NEW p \in CgiProcs, Restore(p) PROVE GoalInv'
  <2>1. ~ Idle(p) /\ goal' = [goal EXCEPT ![p] = NoGoal]
    BY <1>20 DEF Restore, Finish, Idle
  <2>2. goal'[p] = NoGoal /\ \A q \in CgiProcs : q # p => goal'[q] = goal[q]
    BY <2>1 DEF WebTypeOK
  <2> QED
    BY <2>1, <2>2, GoalStep
<1>21. CASE UNCHANGED webVars
  <2>1. UNCHANGED <<page, etc, stateFile, script, run, cgiPc, req, goal>>
    BY <1>21 DEF webVars, files, webHistory
  <2>2. SUFFICES ASSUME NEW p \in CgiProcs, goal[p] # NoGoal PROVE OnTheWay(p)'
    BY <2>1 DEF GoalInv
  <2>3. OnTheWay(p)
    BY <2>2 DEF GoalInv
  <2> QED
    BY <2>1, <2>3 DEF OnTheWay, Idle
<1> QED
  BY <1>1, <1>2, <1>3, <1>4, <1>5, <1>6, <1>7, <1>8, <1>9, <1>10, <1>11, <1>12, <1>13,
     <1>14, <1>15, <1>16, <1>17, <1>18, <1>19, <1>20, <1>21
  DEF WebNext, Step

\* What a request wanted is there when it ends.
LEMMA SettledStep ==
    ASSUME WebTypeOK, WebFileInv, GoalInv, NEW p \in CgiProcs, ~ Idle(p), Finish(p), NEW g, g = goal[p],
           goal[p] # NoGoal /\ OnTheWay(p) /\ OwnFiles(p) => Applied(g)'
    PROVE  SettledInv'
<1>1. settled' = g
  BY DEF Finish
<1>2. goal[p] # NoGoal => OnTheWay(p) /\ OwnFiles(p)
  BY DEF GoalInv, WebFileInv, WebAlone
<1> QED
  BY <1>1, <1>2 DEF SettledInv

\* Every step keeps SettledInv.
LEMMA SettledNext ==
    ASSUME WebTypeOK, PageInv, WebFileInv, GoalInv, SettledInv, [WebNext]_webVars PROVE SettledInv'
<1>1. CASE PowerCycle
  BY <1>1 DEF PowerCycle, Idle, WebTypeOK, SettledInv, Applied, Wanted, Boots
<1>2. ASSUME NEW p \in CgiProcs, Begin(p) PROVE SettledInv'
  BY <1>2 DEF Begin, files, Idle, GoOn, WebTypeOK, SettledInv, Applied, Wanted, Boots
<1>3. ASSUME NEW p \in CgiProcs, Load(p) PROVE SettledInv'
  BY <1>3 DEF Load, GoOn, WebTypeOK, SettledInv
<1>4. ASSUME NEW p \in CgiProcs, Refuse(p) PROVE SettledInv'
  BY <1>4 DEF Refuse, files, GoOn, WebTypeOK, SettledInv, Applied, Wanted, Boots
<1>5. ASSUME NEW p \in CgiProcs, Open(p) PROVE SettledInv'
  BY <1>5 DEF Open, GoOn, WebTypeOK, SettledInv
<1>6. ASSUME NEW p \in CgiProcs, WriteTmp(p) PROVE SettledInv'
  BY <1>6 DEF WriteTmp, GoOn, WebTypeOK, SettledInv
<1>7. ASSUME NEW p \in CgiProcs, OpenState(p) PROVE SettledInv'
  BY <1>7 DEF OpenState, GoOn, WebTypeOK, SettledInv
<1>8. ASSUME NEW p \in CgiProcs, WriteState(p) PROVE SettledInv'
  BY <1>8 DEF WriteState, GoOn, WebTypeOK, SettledInv
<1>9. ASSUME NEW p \in CgiProcs, CpOpen(p) PROVE SettledInv'
  BY <1>9 DEF CpOpen, GoOn, WebTypeOK, SettledInv
<1>10. ASSUME NEW p \in CgiProcs, CpCopy(p) PROVE SettledInv'
  <2>1. cgiPc[p] = "copy" /\ ~ Idle(p) /\ UNCHANGED <<page, run>> /\ etc' = Overlay(etc, tmp)
    BY <1>10 DEF CpCopy, Idle
  <2>2. CASE Finish(p) /\ page # "firewall" /\ ~ (page = "dhcp" /\ req[p].switch \in {"on", "off"})
    <3>1. PICK g : g = goal[p]
      OBVIOUS
    <3>2. goal[p] # NoGoal /\ OnTheWay(p) /\ OwnFiles(p) =>
            etc' = g.etc /\ page \notin {"dhcp", "firewall"}
      <4>1. OwnFiles(p) => etc' = req[p].text
        BY <2>1, OverlayFile DEF OwnFiles, WebTypeOK
      <4> QED
        BY <2>1, <2>2, <3>1, <4>1 DEF OnTheWay, PageInv, Switches
    <3>3. goal[p] # NoGoal /\ OnTheWay(p) /\ OwnFiles(p) => Applied(g)'
      BY <2>1, <3>2 DEF Applied, Wanted
    <3> QED
      BY <2>1, <2>2, <3>1, <3>3, SettledStep
  <2>3. CASE cgiPc' = [cgiPc EXCEPT ![p] = "service"] \/ cgiPc' = [cgiPc EXCEPT ![p] = "install"]
             \/ cgiPc' = [cgiPc EXCEPT ![p] = "stop"]
    BY <2>3 DEF WebTypeOK, SettledInv
  <2> QED
    BY <1>10, <2>2, <2>3 DEF CpCopy, GoOn
<1>11. ASSUME NEW p \in CgiProcs, InstallOpen(p) PROVE SettledInv'
  BY <1>11 DEF InstallOpen, GoOn, WebTypeOK, SettledInv
<1>12. ASSUME NEW p \in CgiProcs, InstallCopy(p) PROVE SettledInv'
  BY <1>12 DEF InstallCopy, GoOn, WebTypeOK, SettledInv
<1>13. ASSUME NEW p \in CgiProcs, StartDaemon(p) PROVE SettledInv'
  BY <1>13 DEF StartDaemon, GoOn, WebTypeOK, SettledInv
<1>14. ASSUME NEW p \in CgiProcs, Launch(p) PROVE SettledInv'
  BY <1>14 DEF Launch, GoOn, WebTypeOK, SettledInv
<1>15. ASSUME NEW p \in CgiProcs, RestartKill(p) PROVE SettledInv'
  <2>1. CASE Finish(p) /\ script # "present"
    <3>1. ~ Idle(p) /\ (goal[p] # NoGoal => ~ OnTheWay(p))
      BY <1>15, <2>1 DEF RestartKill, Idle, OnTheWay
    <3>2. PICK g : g = goal[p]
      OBVIOUS
    <3> QED
      BY <2>1, <3>1, SettledStep
  <2>2. CASE GoOn(p, "relaunch")
    BY <2>2 DEF GoOn, WebTypeOK, SettledInv
  <2> QED
    BY <1>15, <2>1, <2>2 DEF RestartKill
<1>16. ASSUME NEW p \in CgiProcs, Relaunch(p) PROVE SettledInv'
  <2>1. ~ Idle(p) /\ Finish(p) /\ UNCHANGED <<page, etc, stateFile, script>>
    BY <1>16 DEF Relaunch, Idle, files
  <2>2. PICK g : g = goal[p]
    OBVIOUS
  <2>3. goal[p] # NoGoal /\ OnTheWay(p) /\ OwnFiles(p) =>
          page = "dhcp" /\ g.switch = "on" /\ etc = g.etc /\ run' = {etc} /\ script = "present"
    BY <1>16, <2>2 DEF Relaunch, OnTheWay, OwnFiles, PageInv, Copied, Dhcp
  <2>4. goal[p] # NoGoal /\ OnTheWay(p) /\ OwnFiles(p) => Applied(g)'
    BY <2>1, <2>3 DEF Applied, Wanted, Boots
  <2> QED
    BY <2>1, <2>2, <2>4, SettledStep
<1>17. ASSUME NEW p \in CgiProcs, Stop(p) PROVE SettledInv'
  BY <1>17 DEF Stop, GoOn, WebTypeOK, SettledInv
<1>18. ASSUME NEW p \in CgiProcs, Remove(p) PROVE SettledInv'
  <2>1. ~ Idle(p) /\ Finish(p) /\ UNCHANGED <<page, etc, stateFile, run>>
    BY <1>18 DEF Remove, Idle
  <2>2. PICK g : g = goal[p]
    OBVIOUS
  <2>3. goal[p] # NoGoal /\ OnTheWay(p) /\ OwnFiles(p) =>
          page = "dhcp" /\ g.switch = "off" /\ etc = g.etc /\ run = {} /\ script' = "none"
    BY <1>18, <2>2 DEF Remove, OnTheWay, OwnFiles, PageInv, Copied, Dhcp
  <2>4. goal[p] # NoGoal /\ OnTheWay(p) /\ OwnFiles(p) => Applied(g)'
    BY <2>1, <2>3 DEF Applied, Wanted, Boots
  <2> QED
    BY <2>1, <2>2, <2>4, SettledStep
<1>19. ASSUME NEW p \in CgiProcs, ReadState(p) PROVE SettledInv'
  BY <1>19 DEF ReadState, GoOn, WebTypeOK, SettledInv
<1>20. ASSUME NEW p \in CgiProcs, Restore(p) PROVE SettledInv'
  <2>1. ~ Idle(p) /\ Finish(p) /\ UNCHANGED <<page, etc, stateFile, script>>
    BY <1>20 DEF Restore, Idle, files
  <2>2. PICK g : g = goal[p]
    OBVIOUS
  <2>3. goal[p] # NoGoal /\ OnTheWay(p) /\ OwnFiles(p) =>
          /\ page = "firewall" /\ etc = g.etc /\ g.switch = stateFile /\ etc # Nothing
          /\ run' = IF stateFile = "on" THEN {etc} ELSE {Accept}
    <3>1. /\ cgiPc[p] \in Copied /\ cgiPc[p] \in Firewall /\ ~ Idle(p)
          /\ page = "firewall" /\ WholeFile(req[p].text)
      BY <1>20 DEF Restore, PageInv, Copied, Firewall, Idle
    <3>2. Nothing.head = Blank
      BY DEF Nothing, Text
    <3>3. ASSUME OnTheWay(p), OwnFiles(p)
          PROVE  /\ etc = g.etc /\ g.switch = stateFile /\ etc # Nothing
                 /\ cgiPc[p] = "restore" => stateFile = "on"
                 /\ cgiPc[p] = "accept" => stateFile # "on"
      <4>1. etc = req[p].text
        BY <3>1, <3>3 DEF OwnFiles
      <4>2. etc # Nothing
        BY <3>1, <3>2, <4>1 DEF WholeFile
      <4>3. cgiPc[p] # "load"
        BY <3>1 DEF Firewall
      <4> QED
        BY <2>2, <3>1, <3>3, <4>1, <4>2, <4>3 DEF OnTheWay
    <3> QED
      BY <1>20, <3>1, <3>3 DEF Restore
  <2>4. goal[p] # NoGoal /\ OnTheWay(p) /\ OwnFiles(p) => Applied(g)'
    BY <2>1, <2>3 DEF Applied, Wanted, Boots
  <2> QED
    BY <2>1, <2>2, <2>4, SettledStep
<1>21. CASE UNCHANGED webVars
  BY <1>21 DEF webVars, files, webHistory, WebTypeOK, SettledInv, Applied, Wanted, Boots
<1> QED
  BY <1>1, <1>2, <1>3, <1>4, <1>5, <1>6, <1>7, <1>8, <1>9, <1>10, <1>11, <1>12, <1>13,
     <1>14, <1>15, <1>16, <1>17, <1>18, <1>19, <1>20, <1>21
  DEF WebNext, Step

\* The invariant of the pages.
LEMMA WebInvariant == WebSpec => []WebInv
<1>1. WebInit => WebInv
  <2> SUFFICES ASSUME WebInit PROVE WebInv
    OBVIOUS
  <2>1. Shipped \in File /\ "idle" \in Labels
    BY SMTT(30) DEF Shipped, Text, File, Words, Labels
  <2>2. WebTypeOK
    BY <2>1, NothingFacts DEF WebInit, WebTypeOK
  <2>3. WholeFile(etc)
    BY WebAssumption DEF WebInit, Shipped, Text, WholeFile
  <2>4. PageInv /\ WebFileInv /\ GoalInv /\ SettledInv
    BY DEF WebInit, PageInv, WebFileInv, WebAlone, Idle, GoalInv, SettledInv, Dhcp, Firewall
  <2> QED
    BY <2>2, <2>3, <2>4 DEF WebInit, WebInv, WholeInv
<1>2. WebInv /\ [WebNext]_webVars => WebInv'
  BY WebTypeNext, PageNext, WebFileNext, WholeNext, GoalNext, SettledNext DEF WebInv
<1> QED
  BY <1>1, <1>2, PTL DEF WebSpec

\* What a request that ran alone has set is there and in force, until the next
\* request changes it.
THEOREM SettingsApply == WebSpec => []SettledApplies
<1>1. WebInv => SettledApplies
  BY DEF WebInv, SettledInv, Applied, SettledApplies, AllIdle, Idle
<1> QED
  BY <1>1, WebInvariant, PTL

\* Between requests the file is whole unless one was torn.
THEOREM FilesAreWhole == WebSpec => []WholeUnlessTorn
<1>1. WebInv => WholeUnlessTorn
  BY DEF WebInv, WholeInv, WholeUnlessTorn, AllIdle, Idle, Copied, Dhcp, Firewall
<1> QED
  BY <1>1, WebInvariant, PTL
=============================================================================
