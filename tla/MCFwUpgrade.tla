---------------------------- MODULE MCFwUpgrade ----------------------------
(* FwUpgrade with a kernel, a ramdisk, an image whose file has another     *)
(* name, and a file that is not an image.                                  *)
EXTENDS FwUpgrade, TLC

CONSTANTS p1, p2, kernel, ramdisk, loader, other

MCPart ==
    (kernel :> "mtdblock2") @@ (ramdisk :> "mtdblock5") @@ (loader :> None)
    @@ (other :> "mtdblock2")
=============================================================================
