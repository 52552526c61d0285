------------------------ MODULE MCTextFileTransaction ------------------------
(***************************************************************************)
(* Instances of TextFileTransaction: one client configuration, the         *)
(* canonical skill package, a legacy copy of it in a client's directory,   *)
(* and that directory as the discovery entry.                              *)
(***************************************************************************)
EXTENDS TextFileTransaction

MCFiles == {"config", "package", "copy"}
MCLinks == {"discovery"}
MCHome == [f \in MCFiles |-> IF f = "copy" THEN "discovery" ELSE "none"]
MCPackage == [f \in MCFiles |-> IF f = "copy" THEN "package" ELSE f]
MCOwned == {"package", "copy"}
MCReadOrder == <<"config", "package", "copy", "discovery">>

\* A machine an older release set up, and one with no discovery entry.
MigrationStart ==
  [s \in MCFiles \cup MCLinks |->
     CASE s = "config" -> "old" [] s = "package" -> "absent"
       [] s = "copy" -> "old" [] s = "discovery" -> "directory"]
FreshStart == [MigrationStart EXCEPT !["copy"] = "absent", !["discovery"] = "absent"]

To(path, after) == [path |-> path, after |-> after]
Install ==
  [kind |-> "install",
   changes |-> <<To("config", "new"), To("copy", "absent"), To("package", "new"),
                 To("discovery", "link")>>]
Uninstall ==
  [kind |-> "uninstall",
   changes |-> <<To("config", "old"), To("package", "absent"), To("discovery", "absent")>>]
MCUpdates == {Install, Uninstall}
=============================================================================
