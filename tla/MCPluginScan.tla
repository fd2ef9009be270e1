---------------------------- MODULE MCPluginScan ----------------------------
(* Two formats: a plug-in that crashes the program in each, sound ones       *)
(* beside them, and one of them quarantined by the older release.            *)
EXTENDS PluginScan, TLC

CONSTANTS good, dud, hostile, stuck

MCFilesOf == <<{hostile, good}, {stuck, dud}>>

Nothing == [list |-> NoList, pedal |-> NoPedal]
Quarantined == [list |-> [exists |-> TRUE, types |-> {good}, blacklist |-> {hostile}],
                pedal |-> [exists |-> TRUE, entries |-> {stuck}]]
MCLegacy == {Nothing, Quarantined}
=============================================================================
