----------------------------- MODULE BootConfig -----------------------------
(***************************************************************************)
(* The configuration tree of the FTM-50S and the two scripts that rebuild  *)
(* it. The ramdisk image carries a default /etc. rc.sysinit mounts the     *)
(* flash on /mnt/mtd, copies the default tree there when it finds none,    *)
(* puts a link to it in place of /etc (keeping the default as /etc.init)   *)
(* and sources itself again through the link for the second half of the    *)
(* boot. init.sh, the factory reset, deletes the tree on flash, copies     *)
(* /etc.init in its place and reboots; the reset button's daemon and the   *)
(* web page both start it. Power may go at any moment, and the daemons and *)
(* the web pages go on saving files under /etc while a reset runs.         *)
(***************************************************************************)
EXTENDS Naturals, FiniteSets

CONSTANTS
    Files,     \* the files of the tree that the properties tell apart
    BootFile,  \* rc.d/rc.sysinit, which nothing saves
    QosFile,   \* initQos.conf, which init.sh keeps
    Resets,    \* who may run init.sh: the button's daemon, the web page
    MaxOffs    \* bound: power losses and reboots

ASSUME TreeAssumption ==
    /\ BootFile \in Files
    /\ QosFile \in Files \ {BootFile}
    /\ MaxOffs \in Nat

VARIABLES
    rcPc,     \* rc.sysinit: where the boot is; "up" once the daemons run
    mounted,  \* what /mnt/mtd is: "none", "jffs2", or the "tmpfs" below it
    top,      \* "present" or "absent": the directory /mnt/mtd/etc
    entry,    \* entry[f] in that directory: "none", "default" or "user"
    hidden,   \* the same two for the flash while its mount has failed
    etcInit,  \* /etc.init: the ramdisk's own tree, in RAM
    todo,     \* files cp has still to copy in the first boot
    rpc,      \* rpc[r]: where a run of init.sh is
    rtodo,    \* rtodo[r]: files its rm or cp has still to handle
    offs,     \* bound: times the device has gone off
    kept,     \* history: initQos.conf when the reset saved it
    late,     \* history: files saved since the reset's cp began
    damage    \* history: what has happened that may spoil the tree

tree == <<top, entry>>
boot == <<rcPc, mounted, hidden, todo>>
reset == <<rpc, rtodo>>
history == <<kept, late>>
bootVars == <<rcPc, mounted, top, entry, hidden, etcInit, todo, rpc, rtodo, offs, kept,
             late, damage>>

Contents == {"none", "default", "user"}
NoFiles == [f \in Files |-> "none"]
Default == [f \in Files |-> "default"]
PCs == {"off", "mounts", "user", "check", "mkdir", "copy", "link", "source",
        "services", "up", "dead", "aborted"}
RPCs == {"idle", "qos", "list", "rm", "rmdir", "cp", "copy", "reboot"}

BootInit ==
    /\ rcPc = "off"
    /\ mounted = "none"
    /\ top = "absent"
    /\ entry = NoFiles
    /\ hidden = [top |-> "absent", entry |-> NoFiles]
    /\ etcInit = Default
    /\ todo = {}
    /\ rpc = [r \in Resets |-> "idle"]
    /\ rtodo = [r \in Resets |-> {}]
    /\ offs = 0
    /\ kept = "default"
    /\ late = {}
    /\ damage = {}

-----------------------------------------------------------------------------
(***************************************************************************)
(* rc.sysinit, first pass (there is no /etc.init yet).                     *)
(***************************************************************************)
PowerOn ==
    /\ rcPc = "off"
    /\ rcPc' = "mounts"
    /\ UNCHANGED <<mounted, tree, hidden, etcInit, todo, reset, offs, history, damage>>

\* The system mounts: "status $? 1" ends the script when one fails. Without
\* a User partition the script sources itself again, and ends at the second
\* mount of /proc.
Mounts ==
    /\ rcPc = "mounts"
    /\ rcPc' \in {"user", "aborted"}
    /\ UNCHANGED <<mounted, tree, hidden, etcInit, todo, reset, offs, history, damage>>

\* mount -t jffs2, whose status nobody looks at: when it fails /mnt/mtd is an
\* empty directory of the tmpfs on /mnt.
MountUser ==
    /\ rcPc = "user"
    /\ rcPc' = "check"
    /\ \/ /\ mounted' = "jffs2"
          /\ UNCHANGED <<tree, hidden>>
       \/ /\ mounted' = "tmpfs"
          /\ hidden' = [top |-> top, entry |-> entry]
          /\ top' = "absent"
          /\ entry' = NoFiles
    /\ UNCHANGED <<etcInit, todo, reset, offs, history, damage>>

\* Mutant: the default tree is copied on every boot.
CheckEtcNever ==
    /\ rcPc = "check"
    /\ rcPc' = "mkdir"
    /\ UNCHANGED <<mounted, tree, hidden, etcInit, todo, reset, offs, history, damage>>

\* ls /mnt/mtd | grep -q etc
CheckEtc ==
    /\ rcPc = "check"
    /\ rcPc' = IF top = "absent" THEN "mkdir" ELSE "link"
    /\ UNCHANGED <<mounted, tree, hidden, etcInit, todo, reset, offs, history, damage>>

MakeEtc ==
    /\ rcPc = "mkdir"
    /\ rcPc' = "copy"
    /\ top' = "present"
    /\ todo' = Files
    /\ UNCHANGED <<mounted, entry, hidden, etcInit, reset, offs, history, damage>>

\* Mutant: the script does not wait for the copy.
CopyEtcInBackground ==
    /\ rcPc = "copy"
    /\ \/ \E f \in todo :
             /\ entry' = [entry EXCEPT ![f] = etcInit[f]]
             /\ todo' = todo \ {f}
             /\ UNCHANGED rcPc
       \/ /\ rcPc' = "link"
          /\ UNCHANGED <<entry, todo>>
    /\ UNCHANGED <<mounted, top, hidden, etcInit, reset, offs, history, damage>>

\* cp -rf /etc/* /mnt/mtd/etc/, a file at a time.
CopyEtc ==
    /\ rcPc = "copy"
    /\ \/ \E f \in todo :
             /\ entry' = [entry EXCEPT ![f] = etcInit[f]]
             /\ todo' = todo \ {f}
             /\ UNCHANGED rcPc
       \/ /\ todo = {}
          /\ rcPc' = "link"
          /\ UNCHANGED <<entry, todo>>
    /\ UNCHANGED <<mounted, top, hidden, etcInit, reset, offs, history, damage>>

\* mv /etc /etc.init; ln -s /mnt/mtd/etc /etc; sync; the same for /opt.
LinkEtc ==
    /\ rcPc = "link"
    /\ rcPc' = "source"
    /\ UNCHANGED <<mounted, tree, hidden, etcInit, todo, reset, offs, history, damage>>

\* . /etc/rc.d/rc.sysinit, now the file on flash: without it the shell exits.
SourceAgain ==
    /\ rcPc = "source"
    /\ rcPc' = IF entry[BootFile] = "none" THEN "dead" ELSE "services"
    /\ UNCHANGED <<mounted, tree, hidden, etcInit, todo, reset, offs, history, damage>>

\* Second pass: network, services, daemons.
Services ==
    /\ rcPc = "services"
    /\ rcPc' = "up"
    /\ UNCHANGED <<mounted, tree, hidden, etcInit, todo, reset, offs, history, damage>>

-----------------------------------------------------------------------------
(***************************************************************************)
(* A daemon or a web page saves a file below /etc (data_dmon every second, *)
(* new_mmon_0624 initQos.conf, the CGIs theirs).                           *)
(***************************************************************************)
Removing == \E r \in Resets : rpc[r] \in {"rm", "rmdir"}

Save(f) ==
    /\ rcPc = "up"
    /\ f # BootFile
    /\ top = "present"
    /\ entry' = [entry EXCEPT ![f] = "user"]
    /\ late' = late \cup {f}
    /\ damage' = damage \cup (IF Removing THEN {"race"} ELSE {})
    /\ UNCHANGED <<boot, top, etcInit, reset, offs, kept>>

(***************************************************************************)
(* init.sh                                                                 *)
(***************************************************************************)
ResetGoto(r, label) == rpc' = [rpc EXCEPT ![r] = label]

StartReset(r) ==
    /\ rcPc = "up"
    /\ rpc[r] = "idle"
    /\ ResetGoto(r, "qos")
    /\ damage' = damage \cup (IF \E q \in Resets : rpc[q] # "idle" THEN {"overlap"}
                              ELSE {})
    /\ UNCHANGED <<boot, tree, etcInit, rtodo, offs, history>>

\* Mutant: initQos.conf is not kept.
KeepQosNot(r) ==
    /\ rpc[r] = "qos"
    /\ ResetGoto(r, "list")
    /\ kept' = IF entry[QosFile] = "none" THEN etcInit[QosFile] ELSE entry[QosFile]
    /\ UNCHANGED <<boot, tree, etcInit, rtodo, offs, late, damage>>

\* cp /etc/initQos.conf /etc.init/, which does nothing when the file is gone.
KeepQos(r) ==
    /\ rpc[r] = "qos"
    /\ ResetGoto(r, "list")
    /\ etcInit' = IF entry[QosFile] = "none" THEN etcInit
                  ELSE [etcInit EXCEPT ![QosFile] = entry[QosFile]]
    /\ kept' = etcInit'[QosFile]
    /\ UNCHANGED <<boot, tree, rtodo, offs, late, damage>>

\* rm -rf /mnt/mtd/etc: read the directory, remove what was there, remove the
\* directory unless something has appeared in it.
ListEtc(r) ==
    /\ rpc[r] = "list"
    /\ ResetGoto(r, "rm")
    /\ rtodo' = [rtodo EXCEPT ![r] = {f \in Files : entry[f] # "none"}]
    /\ UNCHANGED <<boot, tree, etcInit, offs, history, damage>>

RemoveFile(r) ==
    /\ rpc[r] = "rm"
    /\ \/ \E f \in rtodo[r] :
             /\ entry' = [entry EXCEPT ![f] = "none"]
             /\ rtodo' = [rtodo EXCEPT ![r] = @ \ {f}]
             /\ UNCHANGED rpc
       \/ /\ rtodo[r] = {}
          /\ ResetGoto(r, "rmdir")
          /\ UNCHANGED <<entry, rtodo>>
    /\ UNCHANGED <<boot, top, etcInit, offs, history, damage>>

\* Mutant: rm tries again until the directory is empty.
RemoveEtcRetry(r) ==
    /\ rpc[r] = "rmdir"
    /\ ResetGoto(r, IF entry = NoFiles THEN "cp" ELSE "list")
    /\ top' = IF entry = NoFiles THEN "absent" ELSE top
    /\ UNCHANGED <<boot, entry, etcInit, rtodo, offs, history, damage>>

RemoveEtc(r) ==
    /\ rpc[r] = "rmdir"
    /\ ResetGoto(r, "cp")
    /\ top' = IF entry = NoFiles THEN "absent" ELSE top
    /\ UNCHANGED <<boot, entry, etcInit, rtodo, offs, history, damage>>

\* cp -r /etc.init /mnt/mtd/etc: a new directory, or, when there is one, a
\* directory etc.init inside it, which no one reads.
StartCopy(r) ==
    /\ rpc[r] = "cp"
    /\ \/ /\ top = "absent"
          /\ top' = "present"
          /\ rtodo' = [rtodo EXCEPT ![r] = Files]
          /\ late' = {}
          /\ ResetGoto(r, "copy")
       \/ /\ top = "present"
          /\ ResetGoto(r, "reboot")
          /\ UNCHANGED <<top, rtodo, late>>
    /\ UNCHANGED <<boot, entry, etcInit, offs, kept, damage>>

CopyInit(r) ==
    /\ rpc[r] = "copy"
    /\ \/ \E f \in rtodo[r] :
             /\ entry' = IF top = "present"
                         THEN [entry EXCEPT ![f] = etcInit[f]] ELSE entry
             /\ rtodo' = [rtodo EXCEPT ![r] = @ \ {f}]
             /\ UNCHANGED rpc
       \/ /\ rtodo[r] = {}
          /\ ResetGoto(r, "reboot")
          /\ UNCHANGED <<entry, rtodo>>
    /\ UNCHANGED <<boot, top, etcInit, offs, history, damage>>

-----------------------------------------------------------------------------
\* RAM is lost, and with it a tree that was only on tmpfs.
GoOff ==
    /\ rcPc' = "off"
    /\ mounted' = "none"
    /\ top' = IF mounted = "tmpfs" THEN hidden.top ELSE top
    /\ entry' = IF mounted = "tmpfs" THEN hidden.entry ELSE entry
    /\ hidden' = [top |-> "absent", entry |-> NoFiles]
    /\ etcInit' = Default
    /\ todo' = {}
    /\ rpc' = [r \in Resets |-> "idle"]
    /\ rtodo' = [r \in Resets |-> {}]
    /\ offs' = offs + 1
    /\ kept' = "default"
    /\ late' = {}

\* sync; reboot at the end of init.sh.
ResetReboot(r) ==
    /\ rpc[r] = "reboot"
    /\ offs < MaxOffs
    /\ GoOff
    /\ UNCHANGED damage

\* The tree on flash is being taken apart or put together.
HalfDone ==
    /\ mounted = "jffs2"
    /\ rcPc = "copy" \/ \E r \in Resets : rpc[r] \in {"rm", "rmdir", "copy"}

\* Power is lost, or the web page's reboot.sh runs. The flash holds what has
\* been written: jffs2 writes in order, so that a crash which loses the last
\* writes is a crash that came before them.
PowerOff ==
    /\ rcPc # "off"
    /\ offs < MaxOffs
    /\ GoOff
    /\ damage' = damage \cup (IF HalfDone THEN {"cut"} ELSE {})

BootStep ==
    \/ Mounts \/ MountUser \/ CheckEtc \/ MakeEtc \/ CopyEtc \/ LinkEtc
    \/ SourceAgain \/ Services

ResetStep(r) ==
    \/ KeepQos(r) \/ ListEtc(r) \/ RemoveFile(r) \/ RemoveEtc(r) \/ StartCopy(r)
    \/ CopyInit(r) \/ ResetReboot(r)

BootNext ==
    \/ PowerOn \/ PowerOff \/ BootStep
    \/ \E f \in Files : Save(f)
    \/ \E r \in Resets : StartReset(r) \/ ResetStep(r)

BootSpec == BootInit /\ [][BootNext]_bootVars

\* The shell goes on with its scripts as long as there is power.
BootFairness == WF_bootVars(BootStep) /\ \A r \in Resets : WF_bootVars(ResetStep(r))

BootFairSpec == BootSpec /\ BootFairness

-----------------------------------------------------------------------------
\* Types of the scripts' state, the trees and the history.
TypeOK ==
    /\ rcPc \in PCs
    /\ mounted \in {"none", "jffs2", "tmpfs"}
    /\ top \in {"absent", "present"}
    /\ entry \in [Files -> Contents]
    /\ hidden \in [top : {"absent", "present"}, entry : [Files -> Contents]]
    /\ etcInit \in [Files -> {"default", "user"}]
    /\ todo \in SUBSET Files
    /\ rpc \in [Resets -> RPCs]
    /\ rtodo \in [Resets -> SUBSET Files]
    /\ offs \in 0..MaxOffs
    /\ kept \in {"default", "user"}
    /\ late \in SUBSET Files
    /\ damage \in SUBSET {"cut", "race", "overlap"}

\* rc.sysinit finds itself, and every other file, through the link to the
\* flash unless the power went in the middle of a copy or a removal, a file
\* was saved while init.sh's rm -rf ran, or two resets overlapped. (In each
\* of these cases it may not: the next boot takes any directory named etc
\* for a complete one.)
BootFindsTree ==
    rcPc \in {"source", "services", "dead"} /\ damage = {} =>
        rcPc # "dead" /\ \A f \in Files : entry[f] # "none"

\* Unless one of these happened, init.sh reboots with the default tree on the
\* flash and initQos.conf as it was before, except for files saved during its
\* cp. That is so only with the flash mounted: after a failed mount
\* (rc.sysinit goes on all the same) init.sh rebuilds the tree in RAM, and the
\* next boot finds the files of before the reset.
ResetRestores ==
    \A r \in Resets : rpc[r] = "reboot" /\ damage = {} /\ mounted = "jffs2" =>
        /\ top = "present"
        /\ \A f \in Files \ late :
              entry[f] = IF f = QosFile THEN kept ELSE "default"

\* The files on flash, mounted or not.
FlashEntry == IF mounted = "tmpfs" THEN hidden.entry ELSE entry

\* A saved file is lost from the flash only in a factory reset, and only with
\* the flash mounted: no boot, power loss or failed mount overwrites it with
\* the default (rc.sysinit copies only when there is no directory), and a
\* reset after a failed mount does not reach it.
SavedFilesStay ==
    [][\A f \in Files : FlashEntry[f] = "user" /\ FlashEntry'[f] # "user" =>
          mounted = "jffs2" /\ \E r \in Resets : rpc[r] \in {"rm", "copy"}]_bootVars

\* A factory reset that has begun comes to its reboot, whatever is saved in
\* the meantime, unless the power goes first.
ResetEnds ==
    \A r \in Resets : rpc[r] = "qos" ~> rpc[r] = "reboot" \/ rcPc = "off"
=============================================================================
