--------------------------- MODULE MCHeraldConfig ---------------------------
(* HeraldConfig for TLC: specs that differ in both fields. *)
EXTENDS HeraldConfig

MCSlugs == {"tagA", "tagB"}
MCSpecs == [slug : MCSlugs, versionCheck : BOOLEAN]
MCDisturb == {"edit", "remove", "reslug", "status", "outage", "kube", "crash"}

=============================================================================
