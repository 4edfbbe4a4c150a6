------------------------------ MODULE FwUpgrade ------------------------------
(***************************************************************************)
(* Firmware upgrade from the web pages: the page uploads an image to       *)
(* /tmp/new_fw (system.c, fw_upload), and then asks for the upgrade        *)
(* (fw_upgrade), which runs update_kernel.sh or update_ramdisk.sh. The     *)
(* script runs fwmng, which copies the file to the flash partition block   *)
(* by block, compares the two, and prints whether that was a success; the  *)
(* script looks for the word in /tmp/fwmng.txt and starts over without it. *)
(* On success the page reboots the device.                                 *)
(*                                                                         *)
(* Every request is a process of its own. All of them use the same three   *)
(* files: /tmp/new_fw, /tmp/fwmng.txt and the partition.                   *)
(***************************************************************************)
EXTENDS Naturals

CONSTANTS
    Pages,     \* open pages
    Images,    \* files that may be uploaded
    Valid,     \* those with the magic number of an image
    Part,      \* Part[i]: the partition that the name of file i asks for, or None
               \* when it begins with neither kernel nor ramdisk
    Parts,     \* the partitions
    N,         \* blocks of an image
    None,      \* nothing: no block, no file, no inode
    Zero,      \* a block of zeros: a hole in a file
    Old,       \* a block of the firmware the device came with
    Bad,       \* a block of flash that was not written well
    MaxUploads,\* bound: uploads
    MaxBad,    \* bound: failing writes and starts of fwmng
    MaxCuts    \* bound: power cuts

ASSUME FwAssumption ==
    /\ Valid \subseteq Images
    /\ Part \in [Images -> Parts \cup {None}]
    /\ None \notin Parts
    /\ N \in Nat \ {0}
    /\ {MaxUploads, MaxBad, MaxCuts} \subseteq Nat
    /\ {None, Zero, Old, Bad} \cap Images = {}

VARIABLES
    pc,        \* pc[p]: step of page p and of the processes it started
    img,       \* img[p]: the file p uploads and upgrades to
    k,         \* k[p]: the next block
    newFw,     \* blocks of /tmp/new_fw; None beyond its end
    flash,     \* flash[d]: blocks of partition d
    txt,       \* inode of /tmp/fwmng.txt (as many as Pages are enough), or None
    fd,        \* fd[p]: inode the output of p's fwmng goes to
    last,      \* last[n]: last line of inode n
    uploads,   \* bound: uploads so far
    bads,      \* bound: failing writes and starts so far
    cuts,      \* bound: power cuts so far
    replaced,  \* history: pages whose upload was followed by another upload
    overlap,   \* history: pages whose script ran beside another script
    mishaps    \* history: "swapped", a script ran with a replaced file;    
               \* "overlap", two scripts; "killed", a restart during a script

tool == <<txt, fd, last>>
bounds == <<uploads, bads, cuts>>
vars == <<pc, img, k, newFw, flash, txt, fd, last, uploads, bads, cuts, replaced, overlap,
          mishaps>>

Script == {"start", "write", "verify", "read", "again", "finish"}
Running == {q \in Pages : pc[q] \in Script}
Whole(b) == [n \in 1..N |-> b]
Empty == Whole(None)

Init ==
    /\ pc = [p \in Pages |-> "idle"]
    /\ img \in [Pages -> {None}]
    /\ k = [p \in Pages |-> 1]
    /\ newFw = Empty
    /\ flash = [d \in Parts |-> Whole(Old)]
    /\ txt = None
    /\ fd = [p \in Pages |-> None]
    /\ last = [p \in Pages |-> "none"]
    /\ uploads = 0
    /\ bads = 0
    /\ cuts = 0
    /\ replaced = {}
    /\ overlap = {}
    /\ mishaps = {}

Goto(p, s) == pc' = [pc EXCEPT ![p] = s]

\* The page is as it was before the upload.
Leave(p) ==
    /\ Goto(p, "idle")
    /\ img' = [img EXCEPT ![p] = None]
    /\ k' = [k EXCEPT ![p] = 1]
    /\ replaced' = replaced \ {p}
    /\ overlap' = overlap \ {p}

Block(p, n) == k' = [k EXCEPT ![p] = n]

-----------------------------------------------------------------------------
(***************************************************************************)
(* cmd=fw_upload                                                           *)
(***************************************************************************)
\* fopen(/tmp/new_fw, "w"): what other pages have uploaded is gone.
Upload(p, i) ==
    /\ pc[p] = "idle"
    /\ uploads < MaxUploads
    /\ uploads' = uploads + 1
    /\ Goto(p, "upload")
    /\ img' = [img EXCEPT ![p] = i]
    /\ Block(p, 1)
    /\ newFw' = Empty
    /\ replaced' = replaced \cup {q \in Pages : pc[q] # "idle"}
                   \cup (IF \E q \in Pages : pc[q] = "upload" THEN {p} ELSE {})
    /\ mishaps' = mishaps \cup (IF Running = {} THEN {} ELSE {"swapped"})
    /\ UNCHANGED <<flash, tool, bads, cuts, overlap>>

\* fwrite: a part of it; before the end another upload may have truncated the
\* file, and then a hole comes before this block.
UploadBlock(p) ==
    /\ pc[p] = "upload"
    /\ newFw' = [n \in 1..N |-> IF n = k[p] THEN img[p]
                                ELSE IF n < k[p] /\ newFw[n] = None THEN Zero
                                ELSE newFw[n]]
    /\ Block(p, (k[p] % N) + 1)
    /\ IF k[p] = N THEN Goto(p, "check") ELSE UNCHANGED pc
    /\ UNCHANGED <<img, flash, tool, bounds, replaced, overlap, mishaps>>

\* "A problem occurred while saving the file.": what is there stays.
UploadFails(p) ==
    /\ pc[p] = "upload"
    /\ Leave(p)
    /\ UNCHANGED <<newFw, flash, tool, bounds, mishaps>>

\* Mutant: any file is an image.
CheckHeaderNot(p) ==
    /\ pc[p] = "check"
    /\ Goto(p, "ready")
    /\ UNCHANGED <<img, k, newFw, flash, tool, bounds, replaced, overlap, mishaps>>

\* FTMC_ReadImageHeader reads the magic number back from the file. An invalid
\* file is refused, and stays.
CheckHeader(p) ==
    /\ pc[p] = "check"
    /\ \/ newFw[1] \in Valid /\ Goto(p, "ready") /\ UNCHANGED <<img, k, replaced, overlap>>
       \/ newFw[1] \notin Valid /\ Leave(p)
    /\ UNCHANGED <<newFw, flash, tool, bounds, mishaps>>

-----------------------------------------------------------------------------
(***************************************************************************)
(* The page: the user confirms, or does not (system_firmware.js). That a   *)
(* file has been uploaded and checked before fw_upgrade is a matter of the *)
(* page's script: the request itself does not look.                        *)
(***************************************************************************)
\* fw_upgrade runs the script that the name of the file asks for.
Confirm(p) ==
    /\ pc[p] = "ready"
    /\ Part[img[p]] # None
    /\ Goto(p, "start")
    /\ overlap' = overlap \cup {q \in Pages : pc[q] = "done"} \cup Running
                  \cup (IF Running = {} THEN {} ELSE {p})
    /\ mishaps' = mishaps \cup (IF Running = {} THEN {} ELSE {"overlap"})
                         \cup (IF p \in replaced THEN {"swapped"} ELSE {})
    /\ UNCHANGED <<img, k, newFw, flash, tool, bounds, replaced>>

Cancel(p) ==
    /\ pc[p] = "ready"
    /\ Leave(p)
    /\ UNCHANGED <<newFw, flash, tool, bounds, mishaps>>

\* With any other name fw_upgrade runs no script and writes no answer: the
\* page can only be left.
ConfirmOther(p) ==
    /\ pc[p] = "ready"
    /\ Part[img[p]] = None
    /\ Leave(p)
    /\ UNCHANGED <<newFw, flash, tool, bounds, mishaps>>

-----------------------------------------------------------------------------
(***************************************************************************)
(* update_kernel.sh, update_ramdisk.sh and fwmng                           *)
(***************************************************************************)
\* fwmng ... >& /tmp/fwmng.txt: the file is truncated, or a new one made.
OpenTxt(p, line) ==
    \E n \in Pages :
        /\ IF txt = None THEN \A q \in Pages : fd[q] # n ELSE n = txt
        /\ txt' = n
        /\ fd' = [fd EXCEPT ![p] = n]
        /\ last' = [last EXCEPT ![n] = line]

\* fwmng gives up when there is nothing in the source file.
StartFwmng(p) ==
    /\ pc[p] = "start"
    /\ OpenTxt(p, IF newFw[1] = None THEN "failed" ELSE "none")
    /\ Goto(p, IF newFw[1] = None THEN "read" ELSE "write")
    /\ Block(p, 1)
    /\ UNCHANGED <<img, newFw, flash, bounds, replaced, overlap, mishaps>>

\* It also gives up without its shared memory, and when it cannot open the
\* file or the partition.
FwmngFails(p) ==
    /\ pc[p] = "start"
    /\ bads < MaxBad
    /\ bads' = bads + 1
    /\ OpenTxt(p, "failed")
    /\ Goto(p, "read")
    /\ Block(p, 1)
    /\ UNCHANGED <<img, newFw, flash, uploads, cuts, replaced, overlap, mishaps>>

AtEnd(p) == k[p] > N \/ newFw[IF k[p] > N THEN N ELSE k[p]] = None

\* upgradeFirmware: read a block, write it (the result of write is not looked
\* at), to the end of the file; then sync.
WriteBlock(p) ==
    /\ pc[p] = "write"
    /\ ~ AtEnd(p)
    /\ \/ /\ flash' = [flash EXCEPT ![Part[img[p]]][k[p]] = newFw[k[p]]]
          /\ UNCHANGED bads
       \/ /\ bads < MaxBad
          /\ bads' = bads + 1
          /\ flash' = [flash EXCEPT ![Part[img[p]]][k[p]] = Bad]
    /\ Block(p, k[p] + 1)
    /\ UNCHANGED <<pc, img, newFw, tool, uploads, cuts, replaced, overlap, mishaps>>

WriteEnd(p) ==
    /\ pc[p] = "write"
    /\ AtEnd(p)
    /\ Goto(p, "verify")
    /\ Block(p, 1)
    /\ UNCHANGED <<img, newFw, flash, tool, bounds, replaced, overlap, mishaps>>

\* Mutant: a difference is not noticed.
SameAlways(p) == pc[p] = "verify"

\* fwmng reads partition and file again and compares them.
Same(p) == flash[Part[img[p]]][k[p]] = newFw[k[p]]

Result(p, r) ==
    /\ last' = [last EXCEPT ![fd[p]] = r]
    /\ Goto(p, "read")
    /\ UNCHANGED <<txt, fd>>

VerifyBlock(p) ==
    /\ pc[p] = "verify"
    /\ \/ ~ AtEnd(p) /\ Same(p) /\ Block(p, k[p] + 1) /\ UNCHANGED <<pc, tool>>
       \/ ~ AtEnd(p) /\ ~ Same(p) /\ Block(p, 1) /\ Result(p, "failed")
       \/ AtEnd(p) /\ Block(p, 1) /\ Result(p, "success")
    /\ UNCHANGED <<img, newFw, flash, bounds, replaced, overlap, mishaps>>

\* cat /tmp/fwmng.txt | awk 'END { print }' | awk '/success/'
ReadResult(p) ==
    /\ pc[p] = "read"
    /\ Goto(p, IF txt # None /\ last[txt] = "success" THEN "finish" ELSE "again")
    /\ UNCHANGED <<img, k, newFw, flash, tool, bounds, replaced, overlap, mishaps>>

\* rm: the inode is free when no fwmng has it open.
Unlink(p) ==
    /\ txt' = None
    /\ fd' = [fd EXCEPT ![p] = None]
    /\ last' = [n \in Pages |-> IF \E q \in Pages : fd'[q] = n THEN last[n] ELSE "none"]

\* Mutant: one attempt has to do; after a failure the page shows an error.
RemoveResultOnce(p) ==
    /\ pc[p] \in {"finish", "again"}
    /\ Unlink(p)
    /\ \/ pc[p] = "finish" /\ Goto(p, "done") /\ UNCHANGED <<img, k, replaced, overlap>>
       \/ pc[p] = "again" /\ Leave(p)
    /\ UNCHANGED <<newFw, flash, bounds, mishaps>>

\* Mutant: after a failure only the result is read again.
RemoveResultReread(p) ==
    /\ pc[p] \in {"finish", "again"}
    /\ Unlink(p)
    /\ Goto(p, IF pc[p] = "finish" THEN "done" ELSE "read")
    /\ UNCHANGED <<img, k, newFw, flash, bounds, replaced, overlap, mishaps>>

\* rm /tmp/fwmng.txt; echo done, or the script again.
RemoveResult(p) ==
    /\ pc[p] \in {"finish", "again"}
    /\ Unlink(p)
    /\ Goto(p, IF pc[p] = "finish" THEN "done" ELSE "start")
    /\ UNCHANGED <<img, k, newFw, flash, bounds, replaced, overlap, mishaps>>

-----------------------------------------------------------------------------
\* The files under /tmp and the processes are gone; the flash is as it is.
Restart ==
    /\ pc' = [p \in Pages |-> "idle"]
    /\ img' = [p \in Pages |-> None]
    /\ k' = [p \in Pages |-> 1]
    /\ newFw' = Empty
    /\ txt' = None
    /\ fd' = [p \in Pages |-> None]
    /\ last' = [p \in Pages |-> "none"]
    /\ replaced' = {}
    /\ overlap' = {}
    /\ mishaps' = mishaps \cup (IF Running = {} THEN {} ELSE {"killed"})
    /\ UNCHANGED <<flash, uploads, bads>>

\* The page reboots the device when its upgrade is complete.
Reboot(p) ==
    /\ pc[p] = "done"
    /\ Restart
    /\ UNCHANGED cuts

PowerCut ==
    /\ cuts < MaxCuts
    /\ cuts' = cuts + 1
    /\ Restart

Upgrade(p) ==
    \/ StartFwmng(p) \/ FwmngFails(p) \/ WriteBlock(p) \/ WriteEnd(p) \/ VerifyBlock(p)
    \/ ReadResult(p) \/ RemoveResult(p)

Page(p) ==
    \/ \E i \in Images : Upload(p, i)
    \/ UploadBlock(p) \/ UploadFails(p) \/ CheckHeader(p)
    \/ Confirm(p) \/ ConfirmOther(p) \/ Cancel(p) \/ Upgrade(p) \/ Reboot(p)

Next == PowerCut \/ \E p \in Pages : Page(p)

Spec == Init /\ [][Next]_vars

\* A script that has been started goes on; the page waits for it.
Fairness == \A p \in Pages : WF_vars(Upgrade(p))

FairSpec == Spec /\ Fairness

-----------------------------------------------------------------------------
\* When a page is told that its upgrade is complete, the partition holds the
\* whole of the image it uploaded, whatever writes have failed on the way.
\* The exceptions are the two that nothing in the code keeps out: another
\* upload since its own, and another script beside its own.
DoneIsInstalled ==
    \A p \in Pages :
        pc[p] = "done" /\ p \notin replaced /\ p \notin overlap =>
            flash[Part[img[p]]] = Whole(img[p])

\* A file without the magic number never gets into the flash, although
\* fw_upload leaves it in /tmp/new_fw and fw_upgrade does not look: only a
\* page whose file has been replaced after the check can bring it there.
RefusedStaysOut ==
    "swapped" \notin mishaps =>
        \A d \in Parts, n \in 1..N : flash[d][n] \notin Images \ Valid

\* Whenever no script is running, the device has a kernel and a ramdisk to
\* start from: each partition is the old one or one image as a whole. The
\* code has no defence against a restart, by a power cut or by another page,
\* during a script, nor against two scripts or a replaced file.
PartitionsAreWhole ==
    mishaps = {} /\ Running = {} =>
        \A d \in Parts : \E b \in Valid \cup {Old} : flash[d] = Whole(b)

\* An upgrade that has begun comes to its end, if writes do not fail for ever,
\* or the device restarts; again without uploads and scripts beside it.
UpgradeEnds ==
    \A p \in Pages :
        (pc[p] = "start") ~> (pc[p] \in {"done", "idle"} \/ p \in replaced \cup overlap)

=============================================================================
