------------------------------ MODULE MCSettings ------------------------------
(* Small instances of the settings endpoints for TLC. *)
EXTENDS SettingsStore, TLC

CONSTANTS profit, quantity, old, new

(* Two of the five settings, in the order of SettingsUpdate. *)
TwoKeys == <<profit, quantity>>

FromEnvironment == [k \in Key |-> old]

=============================================================================
