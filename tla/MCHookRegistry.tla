----------------------------- MODULE MCHookRegistry -----------------------------
(***************************************************************************)
(* An image of nine bytes in pages of four, at its preferred base or moved *)
(* away from it.  The detour and the first patch overlap; an array has two *)
(* addresses outside the image, one of which may not be mapped.  Where it  *)
(* is not, the image is such that the first patch meets the marker.        *)
(***************************************************************************)
EXTENDS HookRegistry

MCModifications == {"call", "detour", "patch", "other_patch", "array"}

MCKind ==
  [m \in MCModifications |-> IF m = "other_patch" THEN "patch" ELSE m]

MCAddresses ==
  [m \in MCModifications |->
     CASE m = "call"        -> <<21>>    \* an address of the preferred image,
       [] m = "detour"      -> <<23>>
       [] m = "patch"       -> <<4>>     \* or an offset in it
       [] m = "other_patch" -> <<8>>
       [] m = "array"       -> <<1, 2>>]

MCByteCount == [m \in MCModifications |-> IF m \in {"array", "other_patch"} THEN 1 ELSE 2]

MCProcesses ==
  {[base |-> 20, mapped |-> 1 .. 2 \cup 20 .. 28],
   [base |-> 32, mapped |-> 1 .. 2 \cup 32 .. 40],
   [base |-> 33, mapped |-> {2} \cup 33 .. 41]}
=============================================================================
